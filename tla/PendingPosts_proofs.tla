-------------------------- MODULE PendingPosts_proofs --------------------------
(***************************************************************************)
(* What TLAPS proves of PendingPosts, for every set of communities and     *)
(* moderators, every case, every request and every bound.                  *)
(***************************************************************************)
EXTENDS PendingPosts, TLAPS

-------------------------------------------------------------------------------
(* Types, in four parts *)

CopyOK ==
    /\ copy \in [Groups -> Copies]
    /\ \A g \in Groups : copy[g].coll \in {"none", "refused"} => ~copy[g].deleted
OpOK == op \in [Mods -> Ops]
JobOK ==
    /\ job \in [Jobs -> JobRecords]
    /\ \A j \in Jobs : job[j].does # NoRow => job[j].at = "judge"
RestOK ==
    /\ gone \in BOOLEAN /\ post \in Cases /\ reach \in Reaches /\ switch \in Switches
    /\ hold \in {"none", "open", "releasing", "done"} /\ quiet \in BOOLEAN
    /\ admitted \in Nat /\ since \subseteq Jobs /\ orphaned \in BOOLEAN
    /\ events \in 0..MaxEvents

LEMMA Parts ==
    /\ TypeOK <=> CopyOK /\ OpOK /\ JobOK /\ RestOK
    /\ TypeOK' <=> CopyOK' /\ OpOK' /\ JobOK' /\ RestOK'
  BY DEF TypeOK, CopyOK, OpOK, JobOK, RestOK

LEMMA InitTypes == Init => TypeOK
  <1> SUFFICES ASSUME Init PROVE TypeOK
    OBVIOUS
  <1>1. CopyOK
    <2> DEFINE first == [NoCopy EXCEPT !.coll = "Pending", !.recent = (switch # "open")]
    <2>1. \A g \in Groups : copy[g] \in {NoCopy, first}
      BY DEF Init
    <2>2. NoCopy \in Copies /\ ~NoCopy.deleted
      BY DEF NoCopy, Copies, Collections
    <2>3. first \in Copies /\ ~first.deleted
      BY DEF NoCopy, Copies, Collections
    <2> HIDE DEF first
    <2>4. copy \in [Groups -> Copies]
      <3>1. \A g \in Groups : copy[g] \in Copies
        BY <2>1, <2>2, <2>3
      <3>2. copy = [g \in Groups |-> copy[g]]
        BY DEF Init
      <3> QED
        BY <3>1, <3>2
    <2>5. \A g \in Groups : ~copy[g].deleted
      BY <2>1, <2>2, <2>3
    <2> QED
      BY <2>4, <2>5 DEF CopyOK
  <1>2. OpOK
    BY DEF Init, OpOK, Ops, NoOp
  <1>3. JobOK
    BY DEF Init, JobOK, JobRecords, NoJob, NoRow
  <1>4. RestOK
    <2>1. switch \in Switches /\ events \in 0..MaxEvents
      BY PostAssumption DEF Init
    <2>2. reach \in Reaches
      BY DEF Init, Reaches
    <2> QED
      BY <2>1, <2>2 DEF Init, RestOK
  <1> QED
    BY <1>1, <1>2, <1>3, <1>4, Parts

\* Communities and commands read rows, whatever copies they read.
LEMMA RowTypes ==
    ASSUME NEW S \in SUBSET Groups
    PROVE  RowsOf(S) \subseteq Rows
  <1>1. \A g \in S : RowOf(g) \in Rows
    BY DEF RowOf, Rows, Reserved
  <1> QED
    BY <1>1 DEF RowsOf

-------------------------------------------------------------------------------
(* What is made of one copy *)

LEMMA ArrivedTypes ==
    ASSUME NEW c \in Copies
    PROVE  /\ Arrived(c) \in Copies
           /\ Arrived(c).coll = c.coll /\ Arrived(c).deleted = c.deleted
           /\ Arrived(c).heldby = c.heldby /\ Arrived(c).needs = c.needs
  BY DEF Arrived, Active, Copies

LEMMA NoCopyTypes == NoCopy \in Copies
  BY DEF NoCopy, Copies, Collections

\* What the decision of the content check leaves of a copy, and what it may change.
LEMMA DecidedTypes ==
    ASSUME NEW c \in Copies, NEW row, NEW held, NEW arrives
    PROVE  LET d == Decided(c, Decision(row, held), arrives)
           IN  /\ d \in Copies
               /\ d.deleted = c.deleted /\ d.heldby = c.heldby /\ d.needs = c.needs
               /\ d.coll \in {c.coll, "Approved", "Spam"}
               /\ d.coll = "Approved" => c.coll = "Approved" \/ Decision(row, held) = "approve"
  <1> DEFINE decision == Decision(row, held)
             d == Decided(c, decision, arrives)
             up == [c EXCEPT !.coll = "Approved", !.byhand = FALSE, !.checked = TRUE]
  <1>1. decision \in {"approve", "block", "stamp"}
    BY DEF Decision
  <1> HIDE DEF decision
  <1>2. CASE decision = "approve"
    <2>1. up \in Copies /\ up.coll = "Approved" /\ up.deleted = c.deleted
            /\ up.heldby = c.heldby /\ up.needs = c.needs
      BY DEF Copies, Collections
    <2>2. d \in {up, Arrived(up)}
      BY <1>2 DEF Decided
    <2> HIDE DEF up, d
    <2>3. d \in Copies /\ d.coll = "Approved" /\ d.deleted = c.deleted
            /\ d.heldby = c.heldby /\ d.needs = c.needs
      BY <2>1, <2>2, ArrivedTypes
    <2> QED
      BY <1>2, <2>3 DEF decision, d
  <1>3. CASE decision = "block"
    BY <1>3 DEF Decided, Copies, Collections, decision
  <1>4. CASE decision = "stamp"
    BY <1>4 DEF Decided, Copies, Collections, decision
  <1> QED
    BY <1>1, <1>2, <1>3, <1>4

-------------------------------------------------------------------------------
(* What a moderator's step leaves of the copies, the requests and the rest *)

\* What a copy is left with when one of its marks changes.
LEMMA DueLeaves ==
    ASSUME NEW c \in Copies, NEW b \in BOOLEAN
    PROVE  LET d == [c EXCEPT !.due = b]
           IN  d \in Copies /\ d.coll = c.coll /\ d.deleted = c.deleted
  BY DEF Copies
LEMMA CheckedLeaves ==
    ASSUME NEW c \in Copies, NEW b \in BOOLEAN
    PROVE  LET d == [c EXCEPT !.checked = b]
           IN  d \in Copies /\ d.coll = c.coll /\ d.deleted = c.deleted
  BY DEF Copies

\* Withdrawing marks copies deleted and forgets approvals, and changes nothing else of a copy.
LEMMA WithdrawLeaves ==
    ASSUME CopyOK, NEW m \in Mods, BackWithdraw(m), NEW g \in Groups
    PROVE  /\ copy'[g] \in Copies
           /\ copy'[g].coll = copy[g].coll /\ copy'[g].heldby = copy[g].heldby
           /\ copy'[g].needs = copy[g].needs
           /\ copy'[g].deleted = (copy[g].deleted \/ g \in Withdrawn(m))
  <1>1. copy[g] \in Copies
    BY DEF CopyOK
  <1>2. copy'[g] = [copy[g] EXCEPT !.byhand = @ /\ ~(copy[g].coll = "Approved" /\ g \notin Kept(m)),
                                   !.deleted = @ \/ g \in Withdrawn(m)]
    BY DEF BackWithdraw
  <1>3. PICK a \in BOOLEAN, b \in BOOLEAN :
          /\ copy'[g] = [copy[g] EXCEPT !.byhand = a, !.deleted = b]
          /\ b = (copy[g].deleted \/ g \in Withdrawn(m))
    <2>1. copy[g].byhand \in BOOLEAN /\ copy[g].deleted \in BOOLEAN
      BY <1>1 DEF Copies
    <2> QED
      BY <1>2, <2>1
  <1> DEFINE d == [copy[g] EXCEPT !.byhand = a, !.deleted = b]
  <1>4. /\ d \in Copies /\ d.coll = copy[g].coll /\ d.heldby = copy[g].heldby
        /\ d.needs = copy[g].needs /\ d.deleted = b
    BY <1>1 DEF Copies
  <1>5. copy'[g] = d
    BY <1>3
  <1> HIDE DEF d
  <1> QED
    BY <1>3, <1>4, <1>5

LEMMA ModerateCopies ==
    ASSUME TypeOK, NEW m \in Mods, Moderate(m)
    PROVE  CopyOK'
  <1> USE DEF CopyOK, Change, OnPost
  <1>0. CopyOK
    BY Parts
  <1>1. CASE Approve(m)
    <2>1. \A c \in Copies : LET d == [c EXCEPT !.coll = "Approved", !.byhand = TRUE, !.needs = FALSE]
                            IN  Arrived(d) \in Copies /\ Arrived(d).coll = "Approved"
      <3> TAKE c \in Copies
      <3> DEFINE d == [c EXCEPT !.coll = "Approved", !.byhand = TRUE, !.needs = FALSE]
      <3>1. d \in Copies /\ d.coll = "Approved"
        BY DEF Copies, Collections
      <3> HIDE DEF d
      <3>2. Arrived(d) \in Copies /\ Arrived(d).coll = "Approved"
        BY <3>1, ArrivedTypes
      <3> QED
        BY <3>2 DEF d
    <2> QED
      BY <1>0, <1>1, <2>1 DEF Approve
  <1>2. CASE Approved(m)
    BY <1>0, <1>2 DEF Approved, Copies
  <1>3. CASE Reject(m)
    <2>1. \A c \in Copies : LET d == [c EXCEPT !.coll = "Rejected", !.heldby = None]
                            IN  d \in Copies /\ d.coll = "Rejected"
      BY DEF Copies, Collections
    <2> QED
      BY <1>0, <1>3, <2>1 DEF Reject
  <1>4. CASE Remove(m)
    <2>1. \A g \in Groups :
            \/ copy'[g] \in {copy[g], NoCopy}
            \/ /\ copy[g].coll \notin {"none", "refused"}
               /\ copy'[g] \in {[copy[g] EXCEPT !.deleted = TRUE],
                                [copy[g] EXCEPT !.deleted = TRUE, !.heldby = None]}
      BY <1>4 DEF Remove, Moderatable
    <2>2. copy' = [g \in Groups |-> copy'[g]]
      BY <1>4 DEF Remove
    <2>3. \A c \in Copies : /\ [c EXCEPT !.deleted = TRUE] \in Copies
                           /\ [c EXCEPT !.deleted = TRUE, !.heldby = None] \in Copies
                           /\ [c EXCEPT !.deleted = TRUE].coll = c.coll
                           /\ [c EXCEPT !.deleted = TRUE, !.heldby = None].coll = c.coll
      BY DEF Copies
    <2>4. NoCopy \in Copies /\ ~NoCopy.deleted
      BY NoCopyTypes DEF NoCopy
    <2>5. ASSUME NEW g \in Groups
          PROVE  copy'[g] \in Copies /\ (copy'[g].coll \in {"none", "refused"} => ~copy'[g].deleted)
      <3>1. CASE copy'[g] \in {copy[g], NoCopy}
        BY <1>0, <3>1, <2>4
      <3>2. CASE copy[g].coll \notin {"none", "refused"}
                  /\ copy'[g] \in {[copy[g] EXCEPT !.deleted = TRUE],
                                   [copy[g] EXCEPT !.deleted = TRUE, !.heldby = None]}
        <4>1. copy[g] \in Copies
          BY <1>0
        <4> QED
          BY <3>2, <4>1, <2>3
      <3> QED
        BY <3>1, <3>2, <2>1
    <2> QED
      BY <2>2, <2>5
  <1>5. CASE Count(m)
    BY <1>0, <1>5 DEF Count, Copies, Collections
  <1>6. CASE Hold(m)
    BY <1>0, <1>6 DEF Hold, Copies
  <1>7. CASE Release(m)
    BY <1>0, <1>7 DEF Release, Copies
  <1>8. CASE BackHold(m)
    BY <1>0, <1>8 DEF BackHold, Copies
  <1>9. CASE BackWithdraw(m)
    <2>1. copy' = [g \in Groups |-> copy'[g]]
      BY <1>9 DEF BackWithdraw
    <2>2. \A g \in Withdrawn(m) : copy[g].coll \notin {"none", "refused"}
      BY DEF Withdrawn, Here
    <2>3. \A g \in Groups : /\ copy'[g] \in Copies /\ copy'[g].coll = copy[g].coll
                            /\ copy'[g].deleted = (copy[g].deleted \/ g \in Withdrawn(m))
      BY <1>0, <1>9, WithdrawLeaves DEF CopyOK
    <2> QED
      BY <1>0, <2>1, <2>2, <2>3
  <1>10. CASE BackFlip(m)
    <2>1. \A c \in Copies : LET d == [c EXCEPT !.coll = "Pending"]
                            IN  d \in Copies /\ d.coll = "Pending"
      BY DEF Copies, Collections
    <2> QED
      BY <1>0, <1>10, <2>1 DEF BackFlip
  <1>11. CASE BackMark(m)
    <2>1. \A c \in Copies : LET d == [c EXCEPT !.needs = TRUE]
                            IN  d \in Copies /\ d.coll = c.coll /\ d.deleted = c.deleted
      BY DEF Copies
    <2> QED
      BY <1>0, <1>11, <2>1 DEF BackMark
  <1> QED
    BY <1>1, <1>2, <1>3, <1>4, <1>5, <1>6, <1>7, <1>8, <1>9, <1>10, <1>11 DEF Moderate

LEMMA ModerateOps ==
    ASSUME TypeOK, NEW m \in Mods, Moderate(m)
    PROVE  OpOK'
  <1>0. op \in [Mods -> Ops] /\ op[m] \in Ops /\ NoOp \in Ops
    BY DEF TypeOK, Ops, NoOp
  <1>1. Finish(m) \/ Go(m, "rest") \/ Go(m, "kept") => op' \in [Mods -> Ops]
    BY <1>0 DEF Finish, Go, Ops
  <1>2. CASE Approve(m)
    <2> DEFINE held == {g \in HeldByOthers(m, op[m].on) : copy[g].coll # "Approved"}
               next == [op[m] EXCEPT !.at = "rest", !.on = @ \ held]
    <2>1. next \in Ops
      BY <1>0 DEF Ops
    <2>2. op' = [op EXCEPT ![m] = IF op[m].on = held THEN NoOp ELSE next]
      BY <1>0, <1>2 DEF Approve
    <2> HIDE DEF next, held
    <2> QED
      BY <1>0, <2>1, <2>2 DEF OpOK
  <1>3. CASE BackWithdraw(m)
    <2>1. [op[m] EXCEPT !.at = "flip", !.kept = Kept(m)] \in Ops
      BY <1>0 DEF Ops, Kept
    <2> QED
      BY <1>0, <1>3, <2>1 DEF BackWithdraw, OpOK
  <1>4. CASE BackFlip(m)
    <2>1. [op[m] EXCEPT !.at = "mark", !.kept = Flipped(op[m].kept)] \in Ops
      BY <1>0 DEF Ops, Flipped
    <2> QED
      BY <1>0, <1>4, <2>1 DEF BackFlip, OpOK
  <1>5. CASE Approved(m) \/ Reject(m) \/ Count(m) \/ Hold(m) \/ Release(m) \/ BackMark(m)
    BY <1>1, <1>5 DEF Approved, Reject, Count, Hold, Release, BackMark, OpOK
  <1>6. CASE Remove(m) \/ BackHold(m)
    BY <1>1, <1>6 DEF Remove, BackHold, OpOK
  <1> QED
    BY <1>2, <1>3, <1>4, <1>5, <1>6 DEF Moderate

LEMMA ModerateRest ==
    ASSUME TypeOK, NEW m \in Mods, Moderate(m)
    PROVE  JobOK' /\ RestOK'
  <1>0. RestOK /\ JobOK
    BY Parts
  <1>1. UNCHANGED <<job, since, admitted, events, hold, switch, post>>
    BY DEF Moderate, Approve, Approved, Reject, Remove, Count, Hold, Release, BackHold,
        BackWithdraw, BackFlip, BackMark, ghosts
  <1>2. JobOK'
    BY <1>0, <1>1 DEF JobOK
  <1>3. gone' \in BOOLEAN /\ quiet' \in BOOLEAN /\ orphaned' \in BOOLEAN
    BY <1>0 DEF Moderate, Approve, Approved, Reject, Remove, Count, Hold, Release, BackHold,
        BackWithdraw, BackFlip, BackMark, ghosts, RestOK, LastGone
  <1>4. reach' \in Reaches
    BY <1>0 DEF Moderate, Approve, Approved, Reject, Remove, Count, Hold, Release, BackHold,
        BackWithdraw, BackFlip, BackMark, RestOK, Reaches
  <1> QED
    BY <1>0, <1>1, <1>2, <1>3, <1>4 DEF RestOK

-------------------------------------------------------------------------------
(* What the other steps leave *)

LEMMA EventCounts ==
    ASSUME TypeOK, Event
    PROVE  events' \in 0..MaxEvents
  BY PostAssumption DEF TypeOK, Event

LEMMA BeginTypes ==
    ASSUME TypeOK, NEW m \in Mods, Begin(m)
    PROVE  TypeOK'
  <1>1. OpOK'
    <2>1. PICK r \in Requests :
            LET on == Target(m, r, {g \in r.on : OnPost(g)})
            IN  op' = [op EXCEPT ![m] = [act |-> r.act, at |-> "write", on |-> on, kept |-> {}]]
      BY DEF Begin
    <2>2. r.act \in ActKinds /\ r.on \subseteq Groups
      BY PostAssumption DEF RequestSet, MultiActs, ActKinds
    <2>3. Target(m, r, {g \in r.on : OnPost(g)}) \subseteq Groups
      BY <2>2 DEF Target, Awaiting
    <2> HIDE DEF Target
    <2> QED
      BY <2>1, <2>2, <2>3 DEF OpOK, TypeOK, Ops
  <1>2. CopyOK' /\ JobOK'
    BY Parts DEF Begin, base, CopyOK, JobOK
  <1>3. RestOK'
    BY Parts, EventCounts DEF Begin, base, ghosts, RestOK
  <1> QED
    BY <1>1, <1>2, <1>3, Parts

LEMMA WorldTypes ==
    ASSUME TypeOK, Reported \/ Press \/ Ripple \/ Age
    PROVE  TypeOK'
  <1>0. CopyOK /\ RestOK /\ OpOK /\ JobOK
    BY Parts
  <1>1. OpOK' /\ JobOK'
    BY <1>0 DEF Reported, Press, Ripple, Age, OpOK, JobOK
  <1>2. CASE Reported
    <2>1. CopyOK'
      BY <1>0, <1>2 DEF CopyOK, Reported, Change, Flipped, Is, Copies, Collections
    <2>2. RestOK'
      BY <1>0, <1>2, EventCounts DEF RestOK, Reported, Reaches, ghosts
    <2> QED
      BY <1>1, <2>1, <2>2, Parts
  <1>3. CASE Press
    <2>1. CopyOK'
      <3>1. CASE Active
        BY <1>0, <1>3, <3>1 DEF CopyOK, Press
      <3>2. CASE ~Active
        <4>1. copy' = [g \in Groups |-> [copy[g] EXCEPT !.recent = FALSE]]
          BY <1>3, <3>2 DEF Press
        <4> QED
          BY <1>0, <4>1 DEF CopyOK, Copies
      <3> QED
        BY <3>1, <3>2
    <2>2. RestOK'
      BY <1>0, <1>3, EventCounts DEF RestOK, Press
    <2> QED
      BY <1>1, <2>1, <2>2, Parts
  <1>4. CASE Ripple
    <2>1. PICK g \in Near :
            copy' = [copy EXCEPT ![g] = Arrived([NoCopy EXCEPT !.coll =
                        IF post.verdict[g] = "rules" THEN "Pending" ELSE post.lands])]
      BY <1>4 DEF Ripple
    <2> DEFINE c == [NoCopy EXCEPT !.coll =
                        IF post.verdict[g] = "rules" THEN "Pending" ELSE post.lands]
    <2>2. c \in Copies /\ ~c.deleted
      <3>1. post.lands \in {"Pending", "Approved"}
        BY <1>0, PostAssumption DEF RestOK, CaseSet
      <3> QED
        BY <3>1 DEF NoCopy, Copies, Collections
    <2> HIDE DEF c
    <2>3. Arrived(c) \in Copies /\ ~Arrived(c).deleted
      BY <2>2, ArrivedTypes
    <2>4. copy' = [copy EXCEPT ![g] = Arrived(c)]
      BY <2>1 DEF c
    <2>5. CopyOK'
      BY <1>0, <2>3, <2>4 DEF CopyOK
    <2>6. RestOK'
      BY <1>0, <1>4 DEF RestOK, Ripple, ghosts
    <2> QED
      BY <1>1, <2>5, <2>6, Parts
  <1>5. CASE Age
    <2>1. CopyOK'
      <3> QED
        <4>1. \A g \in Groups : \E b \in BOOLEAN : copy'[g] = [copy[g] EXCEPT !.due = b]
          BY <1>5 DEF Age, OnPost
        <4>2. copy' = [g \in Groups |-> copy'[g]]
          BY <1>5 DEF Age
        <4>3. \A g \in Groups : /\ copy'[g] \in Copies /\ copy'[g].coll = copy[g].coll
                                /\ copy'[g].deleted = copy[g].deleted
          <5> TAKE g \in Groups
          <5>1. PICK b \in BOOLEAN : copy'[g] = [copy[g] EXCEPT !.due = b]
            BY <4>1
          <5> DEFINE d == [copy[g] EXCEPT !.due = b]
          <5>2. d \in Copies /\ d.coll = copy[g].coll /\ d.deleted = copy[g].deleted
            BY <1>0, DueLeaves DEF CopyOK
          <5>3. copy'[g] = d
            BY <5>1
          <5> HIDE DEF d
          <5> QED
            BY <5>2, <5>3
        <4> QED
          BY <1>0, <4>2, <4>3 DEF CopyOK
    <2>2. RestOK'
      BY <1>0, <1>5 DEF RestOK, Age, ghosts
    <2> QED
      BY <1>1, <2>1, <2>2, Parts
  <1> QED
    BY <1>2, <1>3, <1>4, <1>5

-------------------------------------------------------------------------------
(* What the commands leave *)

LEMMA GoesTypes ==
    ASSUME TypeOK, NEW j \in Jobs, NEW at \in {"claim", "admit", "gate", "judge"},
           NEW rows \in SUBSET Rows, NEW gate \in BOOLEAN, Goes(j, at, rows, gate)
    PROVE  JobOK'
  BY DEF TypeOK, Goes, JobOK, JobRecords, NoJob, NoRow

LEMMA StopTypes ==
    ASSUME TypeOK, NEW j \in Jobs, Stop(j)
    PROVE  JobOK' /\ since' \subseteq Jobs
  BY DEF TypeOK, Stop, JobOK, JobRecords, NoJob, NoRow

LEMMA OnwardTypes ==
    ASSUME TypeOK, NEW j \in Jobs, Onward(j)
    PROVE  JobOK' /\ since' \subseteq Jobs
  <1>1. CASE j = "tick"
    BY <1>1, StopTypes DEF Onward
  <1>2. CASE j # "tick"
    <2>1. PICK gate \in Gates(j) : Goes(j, "judge", RowsOf(Unchecked), gate) /\ UNCHANGED since
      BY <1>2 DEF Onward
    <2>2. gate \in BOOLEAN
      BY DEF Gates, TypeOK, JobRecords, PostsHeld
    <2>3. RowsOf(Unchecked) \in SUBSET Rows
      BY RowTypes DEF Unchecked, Waiting
    <2> QED
      BY <2>1, <2>2, <2>3, GoesTypes DEF TypeOK
  <1> QED
    BY <1>1, <1>2

LEMMA DecideTypes ==
    ASSUME TypeOK, NEW row \in Rows, NEW held \in BOOLEAN, NEW arrives \in BOOLEAN,
           DecideAndApply(row, held, arrives)
    PROVE  CopyOK'
  <1> DEFINE d(g) == Decided(copy[g], Decision(row, held), arrives)
  <1>2. ASSUME NEW g \in Groups
        PROVE  /\ d(g) \in Copies
               /\ d(g).coll \in {copy[g].coll, "Approved", "Spam"}
               /\ d(g).deleted = copy[g].deleted
    <2>1. PICK c \in Copies : c = copy[g]
      BY DEF TypeOK
    <2> QED
      BY <2>1, DecidedTypes
  <1>3. copy' = [g \in Groups |-> IF g = row.group /\ OnPost(g) THEN d(g) ELSE copy[g]]
    BY DEF DecideAndApply
  <1> HIDE DEF d
  <1> QED
    BY <1>2, <1>3, Parts DEF CopyOK, OnPost
LEMMA RunTypes ==
    ASSUME TypeOK, NEW j \in Jobs, Run(j)
    PROVE  TypeOK'
  <1>0. CopyOK /\ RestOK /\ OpOK /\ JobOK
    BY Parts
  <1>1. OpOK'
    BY <1>0 DEF Run, Claim, Admit, Admitted, LaunchCheck, Take, Judge, StampLive, LaunchTick,
        LaunchAuto, AutoGate, AutoTake, AutoApprove, AutoEnd, base, OpOK
  <1>2. CASE Claim(j)
    <2>1. JobOK' /\ since' \subseteq Jobs
      <3>1. CASE Claimable
        <4>1. Goes(j, "admit", RowsOf(Waiting), job[j].gate) /\ since' = since
          BY <1>2, <3>1 DEF Claim
        <4>2. RowsOf(Waiting) \in SUBSET Rows /\ job[j].gate \in BOOLEAN
          BY <1>0, RowTypes DEF Waiting, JobOK, JobRecords
        <4> QED
          BY <1>0, <4>1, <4>2, GoesTypes DEF RestOK
      <3>2. CASE ~Claimable
        BY <1>2, <3>2, OnwardTypes DEF Claim
      <3> QED
        BY <3>1, <3>2
    <2>2. CopyOK'
      BY <1>0, <1>2 DEF Claim, CopyOK
    <2>3. RestOK'
      BY <1>0, <1>2, <2>1 DEF Claim, RestOK
    <2> QED
      BY <1>1, <2>1, <2>2, <2>3, Parts
  <1>3. CASE Admit(j)
    <2>1. PICK row \in job[j].rows : /\ DecideAndApply(row, FALSE, TRUE)
                                     /\ job' = [job EXCEPT ![j].rows = @ \ {row}]
      BY <1>3 DEF Admit
    <2>2. row \in Rows
      BY <1>0 DEF JobOK, JobRecords
    <2>3. CopyOK'
      BY <2>1, <2>2, DecideTypes
    <2>4. JobOK'
      BY <1>0, <2>1 DEF JobOK, JobRecords
    <2>5. RestOK'
      BY <1>0, <1>3 DEF Admit, RestOK, ghosts
    <2> QED
      BY <1>1, <2>3, <2>4, <2>5, Parts
  <1>4. CASE Admitted(j)
    <2>1. JobOK' /\ since' \subseteq Jobs
      BY <1>4, OnwardTypes DEF Admitted
    <2>2. CopyOK' /\ RestOK'
      BY <1>0, <1>4, <2>1 DEF Admitted, CopyOK, RestOK
    <2> QED
      BY <1>1, <2>1, <2>2, Parts
  <1>5. CASE LaunchCheck
    <2>1. "check" \in Jobs /\ RowsOf(Unchecked) \in SUBSET Rows /\ PostsHeld \in BOOLEAN
      BY RowTypes DEF Jobs, Unchecked, Waiting, PostsHeld
    <2>2. JobOK'
      BY <1>5, <2>1, GoesTypes DEF LaunchCheck
    <2>3. CopyOK' /\ RestOK'
      BY <1>0, <1>5, <2>1 DEF LaunchCheck, base, CopyOK, RestOK
    <2> QED
      BY <1>1, <2>2, <2>3, Parts
  <1>6. CASE Take
    <2>1. PICK row \in job["check"].rows, gate \in Gates("check") :
            job' = [job EXCEPT !["check"].does = row, !["check"].gate = gate, !["check"].rows = @ \ {row}]
      BY <1>6 DEF Take
    <2>2. row \in Rows /\ gate \in BOOLEAN /\ job["check"].at = "judge"
      BY <1>0, <1>6 DEF Take, JobOK, JobRecords, Jobs, Gates, PostsHeld
    <2>3. JobOK'
      <3> DEFINE next == [job["check"] EXCEPT !.does = row, !.gate = gate, !.rows = @ \ {row}]
      <3>1. job' = [job EXCEPT !["check"] = next]
        BY <1>0, <2>1 DEF JobOK, JobRecords, Jobs
      <3>2. next \in JobRecords /\ next.at = "judge"
        BY <1>0, <2>2 DEF JobOK, JobRecords, Jobs
      <3> HIDE DEF next
      <3> QED
        BY <1>0, <3>1, <3>2 DEF JobOK
    <2>4. CopyOK' /\ RestOK'
      BY <1>0, <1>6 DEF Take, base, ghosts, CopyOK, RestOK
    <2> QED
      BY <1>1, <2>3, <2>4, Parts
  <1>7. CASE Judge
    <2>1. job["check"].does \in Rows /\ job["check"].gate \in BOOLEAN
      BY <1>0, <1>7 DEF Judge, JobOK, JobRecords, Jobs
    <2>2. CopyOK'
      BY <1>7, <2>1, DecideTypes DEF Judge
    <2>3. JobOK'
      BY <1>0, <1>7 DEF Judge, JobOK, JobRecords
    <2>4. RestOK'
      BY <1>0, <1>7 DEF Judge, RestOK, ghosts
    <2> QED
      BY <1>1, <2>2, <2>3, <2>4, Parts
  <1>8. CASE StampLive
    <2>1. JobOK' /\ since' \subseteq Jobs
      BY <1>8, StopTypes DEF StampLive, Jobs
    <2>2. CopyOK'
      <3>1. \A g \in Groups : copy[g].checked \in BOOLEAN /\ Live(g) \in BOOLEAN
        BY <1>0 DEF CopyOK, Copies, Live, Is, Here, OnPost, RestOK
      <3> QED
        <4>1. \A g \in Groups : \E b \in BOOLEAN : copy'[g] = [copy[g] EXCEPT !.checked = b]
          BY <1>8, <3>1 DEF StampLive
        <4>2. copy' = [g \in Groups |-> copy'[g]]
          BY <1>8 DEF StampLive
        <4>3. \A g \in Groups : /\ copy'[g] \in Copies /\ copy'[g].coll = copy[g].coll
                                /\ copy'[g].deleted = copy[g].deleted
          <5> TAKE g \in Groups
          <5>1. PICK b \in BOOLEAN : copy'[g] = [copy[g] EXCEPT !.checked = b]
            BY <4>1
          <5> DEFINE d == [copy[g] EXCEPT !.checked = b]
          <5>2. d \in Copies /\ d.coll = copy[g].coll /\ d.deleted = copy[g].deleted
            BY <1>0, CheckedLeaves DEF CopyOK
          <5>3. copy'[g] = d
            BY <5>1
          <5> HIDE DEF d
          <5> QED
            BY <5>2, <5>3
        <4> QED
          BY <1>0, <4>2, <4>3 DEF CopyOK
    <2>3. RestOK'
      BY <1>0, <1>8, <2>1 DEF StampLive, RestOK
    <2> QED
      BY <1>1, <2>1, <2>2, <2>3, Parts
  <1>9. CASE LaunchTick
    <2>1. JobOK'
      BY <1>0, <1>9, GoesTypes DEF LaunchTick, Jobs, JobOK
    <2>2. CopyOK' /\ RestOK'
      BY <1>0, <1>9 DEF LaunchTick, CopyOK, RestOK, ghosts
    <2> QED
      BY <1>1, <2>1, <2>2, Parts
  <1>10. CASE LaunchAuto
    <2>1. "auto" \in Jobs /\ RowsOf(AutoSelects) \in SUBSET Rows
      BY RowTypes DEF Jobs, AutoSelects, Waiting
    <2>2. JobOK'
      BY <1>10, <2>1, GoesTypes DEF LaunchAuto
    <2>3. CopyOK' /\ RestOK'
      BY <1>0, <1>10 DEF LaunchAuto, base, ghosts, CopyOK, RestOK
    <2> QED
      BY <1>1, <2>2, <2>3, Parts
  <1>11. CASE AutoTake
    <2>1. PICK row \in job["auto"].rows :
            \/ job' = [job EXCEPT !["auto"].rows = {other \in @ : other.group \notin Home}]
            \/ job' = [job EXCEPT !["auto"].does = IF row.group \in post.stay THEN NoRow ELSE row,
                                  !["auto"].rows = @ \ {row},
                                  !["auto"].clear = @ \/ row.group \in Home]
      BY <1>11 DEF AutoTake
    <2>2. job["auto"].at = "judge" /\ job["auto"] \in JobRecords /\ "auto" \in Jobs /\ row \in Rows
      BY <1>0, <1>11 DEF AutoTake, JobOK, JobRecords, Jobs
    <2>3. PICK next \in JobRecords : next.at = "judge" /\ job' = [job EXCEPT !["auto"] = next]
      <3> DEFINE fewer == [job["auto"] EXCEPT !.rows = {other \in @ : other.group \notin Home}]
                 taken == [job["auto"] EXCEPT !.does = IF row.group \in post.stay THEN NoRow ELSE row,
                                              !.rows = @ \ {row}, !.clear = @ \/ row.group \in Home]
      <3>1. fewer \in JobRecords /\ fewer.at = "judge" /\ taken \in JobRecords /\ taken.at = "judge"
        BY <2>2 DEF JobRecords
      <3>2. job' = [job EXCEPT !["auto"] = fewer] \/ job' = [job EXCEPT !["auto"] = taken]
        BY <1>0, <2>1, <2>2 DEF JobOK, JobRecords
      <3> HIDE DEF fewer, taken
      <3> QED
        BY <3>1, <3>2
    <2>4. JobOK'
      BY <1>0, <2>3 DEF JobOK
    <2>5. CopyOK' /\ RestOK'
      BY <1>0, <1>11 DEF AutoTake, base, ghosts, CopyOK, RestOK
    <2> QED
      BY <1>1, <2>4, <2>5, Parts
  <1>12. CASE AutoApprove
    <2>1. \A c \in Copies : LET d == [c EXCEPT !.coll = "Approved", !.byhand = FALSE]
                            IN  Arrived(d) \in Copies /\ Arrived(d).coll = "Approved"
      <3> TAKE c \in Copies
      <3> DEFINE d == [c EXCEPT !.coll = "Approved", !.byhand = FALSE]
      <3>1. d \in Copies /\ d.coll = "Approved"
        BY DEF Copies, Collections
      <3> HIDE DEF d
      <3>2. Arrived(d) \in Copies /\ Arrived(d).coll = "Approved"
        BY <3>1, ArrivedTypes
      <3> QED
        BY <3>2 DEF d
    <2>2. CopyOK'
      BY <1>0, <1>12, <2>1 DEF AutoApprove, CopyOK
    <2>3. JobOK'
      BY <1>0, <1>12 DEF AutoApprove, JobOK, JobRecords
    <2>4. RestOK'
      BY <1>0, <1>12 DEF AutoApprove, RestOK, ghosts
    <2> QED
      BY <1>1, <2>2, <2>3, <2>4, Parts
  <1>13. CASE AutoEnd
    <2>1. JobOK' /\ since' \subseteq Jobs
      BY <1>13, StopTypes DEF AutoEnd, Jobs
    <2>2. CopyOK' /\ RestOK'
      BY <1>0, <1>13, <2>1 DEF AutoEnd, base, CopyOK, RestOK
    <2> QED
      BY <1>1, <2>1, <2>2, Parts
  <1>14. CASE AutoGate
    <2>1. JobOK' /\ since' \subseteq Jobs
      <3>1. CASE Stop("auto")
        BY <3>1, StopTypes DEF Jobs
      <3>2. CASE ~Stop("auto")
        BY <1>0, <1>14, <3>2 DEF AutoGate, JobOK, JobRecords, RestOK
      <3> QED
        BY <3>1, <3>2
    <2>2. CopyOK' /\ RestOK'
      BY <1>0, <1>14, <2>1 DEF AutoGate, base, CopyOK, RestOK
    <2> QED
      BY <1>1, <2>1, <2>2, Parts
  <1> QED
    BY <1>2, <1>3, <1>4, <1>5, <1>6, <1>7, <1>8, <1>9, <1>10, <1>11, <1>12, <1>13, <1>14 DEF Run

LEMMA FaultTypes ==
    ASSUME TypeOK, NEW j \in Jobs, Fails(j) \/ Killed(j)
    PROVE  TypeOK'
  <1>0. CopyOK /\ RestOK /\ OpOK /\ JobOK
    BY Parts
  <1>1. CopyOK' /\ OpOK'
    BY <1>0 DEF Fails, Killed, base, CopyOK, OpOK
  <1>2. JobOK' /\ since' \subseteq Jobs
    <2>1. CASE Fails(j)
      BY <1>0, <2>1 DEF Fails, JobOK, JobRecords, ghosts, RestOK
    <2>2. CASE Killed(j)
      BY <2>2, StopTypes DEF Killed
    <2> QED
      BY <2>1, <2>2
  <1>3. RestOK'
    BY <1>0, <1>2, EventCounts DEF Fails, Killed, base, ghosts, RestOK
  <1> QED
    BY <1>1, <1>2, <1>3, Parts

LEMMA NextTypes == TypeOK /\ [Next]_vars => TypeOK'
  <1> SUFFICES ASSUME TypeOK, [Next]_vars PROVE TypeOK'
    OBVIOUS
  <1>1. ASSUME NEW m \in Mods, Moderate(m) PROVE TypeOK'
    BY <1>1, ModerateCopies, ModerateOps, ModerateRest, Parts
  <1>2. CASE UNCHANGED vars
    BY <1>2 DEF vars, base, ghosts, TypeOK
  <1> QED
    BY <1>1, <1>2, BeginTypes, WorldTypes, RunTypes, FaultTypes DEF Next

\* Every variable keeps its type: the copies, the requests, the commands and the hold.
THEOREM Typing == Spec => []TypeOK
  BY InitTypes, NextTypes, PTL DEF Spec

-------------------------------------------------------------------------------
(* Admitted once: a hold that no command has claimed yet has admitted nothing. *)

Unclaimed == hold \in {"none", "open"} => admitted = 0
Once == Unclaimed /\ AdmittedOnce

LEMMA OnceKept ==
    ASSUME TypeOK, Once, [Next]_vars
    PROVE  Once'
  <1>0. admitted \in Nat /\ hold \in {"none", "open", "releasing", "done"}
    BY DEF TypeOK
  <1>1. ASSUME UNCHANGED <<hold, admitted>> PROVE Once'
    BY <1>1 DEF Once, Unclaimed, AdmittedOnce
  <1>2. ASSUME NEW m \in Mods, Begin(m) \/ Moderate(m) PROVE Once'
    BY <1>1, <1>2 DEF Begin, Moderate, Approve, Approved, Reject, Remove, Count, Hold, Release,
        BackHold, BackWithdraw, BackFlip, BackMark, base, ghosts
  <1>3. CASE Reported \/ Press \/ Ripple \/ Age
    BY <1>1, <1>3 DEF Reported, Press, Ripple, Age, ghosts
  <1>4. ASSUME NEW j \in Jobs, Run(j) PROVE Once'
    <2>1. CASE Claim(j)
      BY <1>0, <2>1 DEF Claim, Claimable, Once, Unclaimed, AdmittedOnce
    <2>2. CASE Admitted(j)
      BY <1>0, <2>2 DEF Admitted, Once, Unclaimed, AdmittedOnce
    <2>3. CASE LaunchTick
      BY <1>0, <2>3 DEF LaunchTick, Creates, Once, Unclaimed, AdmittedOnce, ghosts
    <2>4. CASE Admit(j) \/ LaunchCheck \/ Take \/ Judge \/ StampLive \/ LaunchAuto \/ AutoGate \/ AutoTake
                 \/ AutoApprove \/ AutoEnd
      BY <1>1, <2>4 DEF Admit, LaunchCheck, Take, Judge, StampLive, LaunchAuto, AutoGate, AutoTake,
          AutoApprove, AutoEnd, base, ghosts
    <2> QED
      BY <1>4, <2>1, <2>2, <2>3, <2>4 DEF Run
  <1>5. ASSUME NEW j \in Jobs, Fails(j) \/ Killed(j) PROVE Once'
    BY <1>1, <1>5 DEF Fails, Killed, base, ghosts
  <1>6. CASE UNCHANGED vars
    BY <1>1, <1>6 DEF vars, base, ghosts
  <1> QED
    BY <1>2, <1>3, <1>4, <1>5, <1>6 DEF Next

\* However many commands release what a lockdown held, and wherever they fail or are killed, the
\* post is admitted once at most.
THEOREM AdmitOnce == Spec => []AdmittedOnce
  <1>1. Init => Once
    BY DEF Init, Once, Unclaimed, AdmittedOnce
  <1>2. TypeOK /\ Once /\ [Next]_vars => Once'
    BY OnceKept
  <1>3. Once => AdmittedOnce
    BY DEF Once
  <1> QED
    BY <1>1, <1>2, <1>3, Typing, PTL DEF Spec

-------------------------------------------------------------------------------
(* No orphans *)

Absent == \A g \in Groups : ~Here(g)

\* A step that takes no copy away, does not bring the post back, ends no count and forgets no orphan.
LEMMA StillHere ==
    ASSUME NoOrphan, Absent' => Absent, gone => gone', Removing => Removing', orphaned => orphaned'
    PROVE  NoOrphan'
  BY DEF NoOrphan, Absent

LEMMA ModerateOrphans ==
    ASSUME TypeOK, NoOrphan, NEW m \in Mods, Moderate(m)
    PROVE  NoOrphan'
  <1> USE DEF Change
  <1>0. copy \in [Groups -> Copies] /\ op \in [Mods -> Ops]
    BY DEF TypeOK
  <1>1. CASE Remove(m)
    <2>1. op[m].act \in Counted
      BY <1>1 DEF Remove, At, Counted
    <2>2. op'[m].act \in Counted /\ op'[m].at = "rest"
      BY <1>0, <1>1, <2>1 DEF Remove, Go, Ops
    <2> QED
      BY <2>2 DEF NoOrphan, Removing
  <1>2. CASE Count(m)
    <2>1. \A g \in Groups : Here(g) => Here(g)'
      BY <1>0, <1>2 DEF Count, Here, OnPost, Copies
    <2>2. Absent' => gone'
      BY <1>2, <2>1 DEF Count, LastGone, Absent
    <2> QED
      BY <2>2 DEF NoOrphan, Absent
  <1>3. ASSUME ~Remove(m), ~Count(m) PROVE (gone => gone') /\ (Removing => Removing')
    <2>1. gone' = gone
      BY <1>3 DEF Moderate, Approve, Approved, Reject, Hold, Release, BackHold, BackWithdraw,
          BackFlip, BackMark
    <2>2. op[m].act \notin Counted
      BY <1>3 DEF Moderate, Approve, Approved, Reject, Hold, Release, BackHold, BackWithdraw,
          BackFlip, BackMark, At, Counted
    <2>3. \A q \in Mods \ {m} : op'[q] = op[q]
      BY <1>0, <1>3 DEF Moderate, Approve, Approved, Reject, Hold, Release, BackHold, BackWithdraw,
          BackFlip, BackMark, Go, Finish
    <2> QED
      BY <2>1, <2>2, <2>3 DEF Removing
  <1>4. CASE BackWithdraw(m)
    <2>1. \A g \in Groups : copy'[g].coll = copy[g].coll
            /\ (copy'[g].deleted <=> copy[g].deleted \/ g \in Withdrawn(m))
      BY <1>4, Parts, WithdrawLeaves
    <2>2. \A g \in Groups : Here(g)' <=> Here(g) /\ g \notin Withdrawn(m)
      BY <2>1 DEF Here, OnPost
    <2>3. Withdrawn(m) \subseteq Groups
      BY DEF Withdrawn, Groups
    <2>4. Absent' => Absent \/ orphaned'
      BY <1>4, <2>2, <2>3 DEF Absent, BackWithdraw
    <2>5. orphaned => orphaned'
      BY <1>4 DEF BackWithdraw
    <2> QED
      BY <1>3, <1>4, <2>4, <2>5 DEF NoOrphan, Absent, BackWithdraw, Remove, Count, At, Counted
  <1>5. CASE Approve(m) \/ Approved(m) \/ Reject(m) \/ Hold(m) \/ Release(m) \/ BackHold(m)
               \/ BackFlip(m) \/ BackMark(m)
    <2>1. orphaned' = orphaned
      BY <1>5 DEF Approve, Approved, Reject, Hold, Release, BackHold, BackFlip, BackMark, ghosts
    <2>2. \A g \in Groups : Here(g) => Here(g)'
      <3>1. CASE Approve(m)
        <4>1. \A g \in Groups : copy'[g].deleted = copy[g].deleted
                                  /\ copy'[g].coll \in {copy[g].coll, "Approved"}
          BY <1>0, <3>1 DEF Approve, Arrived, Copies
        <4> QED
          BY <4>1 DEF Here, OnPost
      <3>2. CASE Reject(m)
        BY <1>0, <3>2 DEF Reject, Here, OnPost, Copies
      <3>3. CASE BackFlip(m)
        BY <1>0, <3>3 DEF BackFlip, Here, OnPost, Copies
      <3>4. CASE Approved(m) \/ Hold(m) \/ Release(m) \/ BackHold(m) \/ BackMark(m)
        BY <1>0, <3>4 DEF Approved, Hold, Release, BackHold, BackMark, Here, OnPost, Copies
      <3> QED
        BY <1>5, <3>1, <3>2, <3>3, <3>4
    <2>3. ~Remove(m) /\ ~Count(m)
      BY <1>5 DEF Approve, Approved, Reject, Hold, Release, BackHold, BackFlip, BackMark, Remove,
          Count, At, Counted
    <2> QED
      BY <1>3, <2>1, <2>2, <2>3, StillHere DEF Absent
  <1> QED
    BY <1>1, <1>2, <1>4, <1>5 DEF Moderate
\* What the content check writes takes no copy away, and puts a copy live only by approving it.
LEMMA DecideKeeps ==
    ASSUME TypeOK, NEW row, NEW held, NEW arrives, DecideAndApply(row, held, arrives)
    PROVE  \A g \in Groups :
            /\ Here(g) => Here(g)'
            /\ copy'[g].deleted = copy[g].deleted
            /\ copy'[g].heldby = copy[g].heldby /\ copy'[g].needs = copy[g].needs
            /\ copy'[g].coll \in {"none", "refused"} => copy'[g] = copy[g]
            /\ copy'[g].coll = "Approved" /\ copy[g].coll # "Approved" =>
                    g = row.group /\ Decision(row, held) = "approve"
  <1> DEFINE d(g) == Decided(copy[g], Decision(row, held), arrives)
  <1> TAKE g \in Groups
  <1>1. PICK c \in Copies : c = copy[g]
    BY DEF TypeOK
  <1>2. /\ d(g).deleted = copy[g].deleted
        /\ d(g).heldby = copy[g].heldby /\ d(g).needs = copy[g].needs
        /\ d(g).coll \in {copy[g].coll, "Approved", "Spam"}
        /\ d(g).coll = "Approved" => copy[g].coll = "Approved" \/ Decision(row, held) = "approve"
    BY <1>1, DecidedTypes
  <1>3. copy'[g] = IF g = row.group /\ OnPost(g) THEN d(g) ELSE copy[g]
    BY DEF DecideAndApply
  <1> HIDE DEF d
  <1> QED
    BY <1>2, <1>3 DEF Here, OnPost

LEMMA RunKeeps ==
    ASSUME TypeOK, NEW j \in Jobs, Run(j)
    PROVE  /\ UNCHANGED <<op, gone, orphaned>>
           /\ \A g \in Groups : Here(g) => Here(g)'
  <1>0. copy \in [Groups -> Copies]
    BY DEF TypeOK
  <1>1. UNCHANGED <<op, gone, orphaned>>
    BY DEF Run, Claim, Admit, Admitted, LaunchCheck, Take, Judge, StampLive, LaunchTick,
        LaunchAuto, AutoGate, AutoTake, AutoApprove, AutoEnd, base, ghosts
  <1>2. CASE Admit(j)
    BY <1>1, <1>2, DecideKeeps DEF Admit
  <1>3. CASE Judge
    BY <1>1, <1>3, DecideKeeps DEF Judge
  <1>4. CASE StampLive
    BY <1>0, <1>4 DEF StampLive, Here, OnPost, Copies
  <1>5. CASE AutoApprove
    <2>1. \A g \in Groups : copy'[g].deleted = copy[g].deleted
                              /\ copy'[g].coll \in {copy[g].coll, "Approved"}
      BY <1>0, <1>5 DEF AutoApprove, Arrived, Copies
    <2> QED
      BY <1>1, <2>1 DEF Here, OnPost
  <1>6. CASE copy' = copy
    BY <1>1, <1>6 DEF Here, OnPost
  <1>7. CASE Claim(j) \/ Admitted(j) \/ LaunchCheck \/ Take \/ LaunchTick \/ LaunchAuto
               \/ AutoGate \/ AutoTake \/ AutoEnd
    BY <1>6, <1>7 DEF Claim, Admitted, LaunchCheck, Take, LaunchTick, LaunchAuto, AutoGate, AutoTake,
        AutoEnd, base
  <1> QED
    BY <1>1, <1>2, <1>3, <1>4, <1>5, <1>7 DEF Run

LEMMA OrphansKept ==
    ASSUME TypeOK, NoOrphan, [Next]_vars
    PROVE  NoOrphan'
  <1>0. copy \in [Groups -> Copies] /\ op \in [Mods -> Ops]
    BY DEF TypeOK
  <1>1. ASSUME UNCHANGED <<op, gone, orphaned>>, \A g \in Groups : Here(g) => Here(g)'
        PROVE  NoOrphan'
    BY <1>1, StillHere DEF Absent, Removing
  <1>2. ASSUME UNCHANGED <<copy, gone, op, orphaned>>
        PROVE  NoOrphan'
    BY <1>1, <1>2 DEF Here, OnPost
  <1>3. ASSUME NEW m \in Mods, Begin(m) PROVE NoOrphan'
    <2>1. copy' = copy /\ gone' = gone /\ orphaned' = orphaned
      BY <1>3 DEF Begin, base, ghosts
    <2>2. op[m].act \notin Counted /\ \A q \in Mods \ {m} : op'[q] = op[q]
      BY <1>0, <1>3 DEF Begin, NoOp, Counted
    <2>3. Removing => Removing'
      BY <2>2 DEF Removing
    <2> QED
      BY <2>1, <2>3, StillHere DEF Absent, Here, OnPost
  <1>4. CASE Reported
    BY <1>0, <1>1, <1>4 DEF Reported, Change, Here, OnPost, Copies, ghosts
  <1>5. CASE Press
    <2>1. \A g \in Groups : copy'[g].deleted = copy[g].deleted /\ copy'[g].coll = copy[g].coll
      BY <1>0, <1>5 DEF Press, Copies
    <2> QED
      BY <1>1, <1>5, <2>1 DEF Press, Here, OnPost
  <1>6. CASE Ripple
    <2>1. \A g \in Groups : Here(g) => copy'[g] = copy[g]
      BY <1>0, <1>6 DEF Ripple, Here, OnPost
    <2> QED
      BY <1>1, <1>6, <2>1 DEF Ripple, Here, OnPost, ghosts
  <1>7. CASE Age
    BY <1>0, <1>1, <1>7 DEF Age, Here, OnPost, Copies, ghosts
  <1>8. ASSUME NEW j \in Jobs, Run(j) PROVE NoOrphan'
    BY <1>1, <1>8, RunKeeps
  <1>9. ASSUME NEW j \in Jobs, Fails(j) \/ Killed(j) PROVE NoOrphan'
    BY <1>2, <1>9 DEF Fails, Killed, base, ghosts
  <1>10. CASE UNCHANGED vars
    BY <1>2, <1>10 DEF vars, base, ghosts
  <1> QED
    BY <1>3, <1>4, <1>5, <1>6, <1>7, <1>8, <1>9, <1>10, ModerateOrphans DEF Next

\* A post that has lost its last copy is deleted, or a request is about to delete it, however
\* many moderators take its copies away at once - unless a send-back withdrew the last one.
THEOREM NoOrphans == Spec => []NoOrphan
  <1>1. Init => NoOrphan
    <2> SUFFICES ASSUME Init PROVE NoOrphan
      OBVIOUS
    <2>1. PICK g \in Groups : g \in Home
      BY PostAssumption DEF Groups
    <2>2. g \notin Near
      BY <2>1, PostAssumption
    <2>3. copy[g].coll = "Pending" /\ ~copy[g].deleted
      BY <2>2 DEF Init, NoCopy
    <2> QED
      BY <2>3 DEF NoOrphan, Here, OnPost
  <1>2. TypeOK /\ NoOrphan /\ [Next]_vars => NoOrphan'
    BY OrphansKept
  <1> QED
    BY <1>1, <1>2, Typing, PTL DEF Spec
-------------------------------------------------------------------------------
(* Nothing goes live while posts is held *)

\* Only the content check runs on while posts is held, and it has seen that it is.
Watched ==
    \A j \in since : /\ j = "check" /\ PostsHeld
                     /\ job["check"].at = "judge" /\ job["check"].gate = TRUE

LEMMA WatchedKept ==
    ASSUME TypeOK, Watched, [Next]_vars
    PROVE  Watched'
  <1>0. job \in [Jobs -> JobRecords] /\ "check" \in Jobs
    BY DEF TypeOK, Jobs
  <1>1. ASSUME UNCHANGED <<since, switch>>, job'["check"] = job["check"] PROVE Watched'
    BY <1>1 DEF Watched, PostsHeld
  <1>2. ASSUME NEW m \in Mods, Begin(m) \/ Moderate(m) PROVE Watched'
    BY <1>1, <1>2 DEF Begin, Moderate, Approve, Approved, Reject, Remove, Count, Hold, Release,
        BackHold, BackWithdraw, BackFlip, BackMark, base, ghosts
  <1>3. CASE Reported \/ Ripple \/ Age
    BY <1>1, <1>3 DEF Reported, Ripple, Age, ghosts
  <1>4. CASE Press
    <2>1. since' = {}
      BY <1>4 DEF Press, Watched, PostsHeld
    <2> QED
      BY <2>1 DEF Watched
  <1>5. ASSUME NEW j \in Jobs, Run(j) PROVE Watched'
    <2>1. CASE j \in {"check", "tick"} /\ (Claim(j) \/ Admitted(j))
      <3>1. j # "check" \/ since = {}
        BY <2>1 DEF Claim, Admitted, Watched
      <3>2. CASE j = "check"
        <4>1. since' = {}
          BY <2>1, <3>1, <3>2 DEF Claim, Admitted, Onward
        <4> QED
          BY <4>1 DEF Watched
      <3>3. CASE j = "tick"
        <4>1. job'["check"] = job["check"]
          BY <1>0, <2>1, <3>3 DEF Claim, Admitted, Onward, Goes, Stop
        <4>2. since' \subseteq since /\ switch' = switch
          BY <2>1, <3>3 DEF Claim, Admitted, Onward, Stop
        <4> QED
          BY <4>1, <4>2 DEF Watched, PostsHeld
      <3> QED
        BY <2>1, <3>2, <3>3
    <2>2. CASE Admit(j)
      <3>1. UNCHANGED <<since, switch>>
        BY <2>2 DEF Admit, ghosts
      <3>2. j = "check" => since = {}
        BY <2>2 DEF Admit, Watched
      <3>3. j # "check" => job'["check"] = job["check"]
        BY <1>0, <2>2 DEF Admit
      <3> QED
        BY <3>1, <3>2, <3>3 DEF Watched, PostsHeld
    <2>3. CASE LaunchCheck
      <3>1. CASE PostsHeld
        <4>1. Goes("check", "judge", RowsOf(Unchecked), PostsHeld) /\ since' = since \union {"check"}
          BY <2>3, <3>1 DEF LaunchCheck
        <4>2. job'["check"].at = "judge" /\ job'["check"].gate = TRUE
          BY <1>0, <3>1, <4>1 DEF Goes
        <4>3. PostsHeld'
          BY <2>3, <3>1 DEF LaunchCheck, base, PostsHeld
        <4> QED
          BY <4>1, <4>2, <4>3 DEF Watched
      <3>2. CASE ~PostsHeld
        <4>1. since' = {}
          BY <2>3, <3>2 DEF LaunchCheck, Watched
        <4> QED
          BY <4>1 DEF Watched
      <3> QED
        BY <3>1, <3>2
    <2>4. CASE Take
      <3>1. UNCHANGED <<since, switch>> /\ job'["check"].at = job["check"].at
        BY <1>0, <2>4 DEF Take, base, ghosts, JobRecords
      <3>2. since # {} => job'["check"].gate = TRUE
        <4> SUFFICES ASSUME since # {} PROVE job'["check"].gate = TRUE
          OBVIOUS
        <4>1. job["check"].gate = TRUE /\ PostsHeld = TRUE
          BY DEF Watched, PostsHeld
        <4>2. PICK row \in job["check"].rows, gate \in Gates("check") :
                job' = [job EXCEPT !["check"].does = row, !["check"].gate = gate, !["check"].rows = @ \ {row}]
          BY <2>4 DEF Take
        <4>3. gate = TRUE
          BY <4>1 DEF Gates
        <4> QED
          BY <1>0, <4>2, <4>3 DEF JobRecords
      <3> QED
        BY <3>1, <3>2 DEF Watched, PostsHeld
    <2>5. CASE Judge
      <3>1. UNCHANGED <<since, switch>> /\ job'["check"].at = job["check"].at
              /\ job'["check"].gate = job["check"].gate
        BY <1>0, <2>5 DEF Judge, ghosts, JobRecords
      <3> QED
        BY <3>1 DEF Watched, PostsHeld
    <2>6. CASE StampLive
      <3>1. since' = {}
        BY <2>6 DEF StampLive, Stop, Watched
      <3> QED
        BY <3>1 DEF Watched
    <2>7. CASE LaunchTick \/ LaunchAuto \/ AutoGate \/ AutoTake \/ AutoApprove \/ AutoEnd
      <3>1. since' \subseteq since /\ switch' = switch
        BY <2>7 DEF LaunchTick, LaunchAuto, AutoGate, AutoTake, AutoApprove, AutoEnd, base, ghosts, Stop
      <3>2. job'["check"] = job["check"]
        BY <1>0, <2>7 DEF LaunchTick, LaunchAuto, AutoGate, AutoTake, AutoApprove, AutoEnd, Goes, Stop
      <3> QED
        BY <3>1, <3>2 DEF Watched, PostsHeld
    <2> QED
      BY <1>5, <2>1, <2>2, <2>3, <2>4, <2>5, <2>6, <2>7 DEF Run
  <1>6. ASSUME NEW j \in Jobs, Fails(j) PROVE Watched'
    <2>1. UNCHANGED <<since, switch>>
      BY <1>6 DEF Fails, base, ghosts
    <2>2. job'["check"].at = job["check"].at /\ job'["check"].gate = job["check"].gate
      BY <1>0, <1>6 DEF Fails, JobRecords
    <2> QED
      BY <2>1, <2>2 DEF Watched, PostsHeld
  <1>7. ASSUME NEW j \in Jobs, Killed(j) PROVE Watched'
    <2>1. since' = since \ {j} /\ switch' = switch /\ job' = [job EXCEPT ![j] = NoJob]
      BY <1>7 DEF Killed, Stop, base
    <2> QED
      BY <1>0, <2>1 DEF Watched, PostsHeld
  <1>8. CASE UNCHANGED vars
    BY <1>1, <1>8 DEF vars, base, ghosts
  <1> QED
    BY <1>2, <1>3, <1>4, <1>5, <1>6, <1>7, <1>8 DEF Next
\* Where the copies are not written, or only fields the board does not show, nothing goes live.
LEMMA SameBoard ==
    ASSUME gone => gone',
           \A g \in Groups : copy'[g].coll = copy[g].coll /\ copy'[g].deleted = copy[g].deleted
    PROVE  \A g \in Groups : Live(g)' => Live(g)
  BY DEF Live, Is, Here, OnPost

LEMMA HeldStep ==
    ASSUME TypeOK, Watched, Next, NEW c \in since, job'[c] # job[c]
    PROVE  \A g \in Groups : Live(g)' => Live(g)
  <1>0. copy \in [Groups -> Copies] /\ job \in [Jobs -> JobRecords] /\ "check" \in Jobs
    BY DEF TypeOK, Jobs
  <1>1. /\ c = "check" /\ PostsHeld = TRUE
        /\ job["check"].at = "judge" /\ job["check"].gate = TRUE
    BY DEF Watched, PostsHeld
  <1>2. ASSUME UNCHANGED <<copy, gone>> PROVE \A g \in Groups : Live(g)' => Live(g)
    BY <1>2, SameBoard
  <1>3. ASSUME NEW m \in Mods, Begin(m) \/ Moderate(m) PROVE FALSE
    BY <1>1, <1>3 DEF Begin, Moderate, Approve, Approved, Reject, Remove, Count, Hold, Release,
        BackHold, BackWithdraw, BackFlip, BackMark
  <1>4. CASE Reported \/ Press \/ Ripple \/ Age
    BY <1>1, <1>4 DEF Reported, Press, Ripple, Age
  <1>5. ASSUME NEW j \in Jobs, Fails(j) \/ Killed(j) PROVE \A g \in Groups : Live(g)' => Live(g)
    BY <1>2, <1>5 DEF Fails, Killed, base
  <1>6. ASSUME NEW j \in Jobs, Run(j) PROVE \A g \in Groups : Live(g)' => Live(g)
    <2>1. CASE j # "check"
      <3>1. job'["check"] = job["check"]
        BY <1>0, <1>6, <2>1 DEF Run, Claim, Admit, Admitted, Onward, LaunchTick, LaunchAuto,
            AutoGate, AutoTake, AutoApprove, AutoEnd, Goes, Stop
      <3> QED
        BY <1>1, <3>1
    <2>2. CASE Judge
      <3>1. PICK row, held : held = TRUE /\ DecideAndApply(row, held, FALSE) /\ gone' = gone
        BY <1>1, <2>2 DEF Judge
      <3>2. Decision(row, held) # "approve"
        BY <3>1 DEF Decision
      <3>3. \A g \in Groups : copy'[g].deleted = copy[g].deleted
              /\ (copy'[g].coll = "Approved" => copy[g].coll = "Approved")
        <4>1. PICK arrives : arrives = FALSE /\ DecideAndApply(row, held, arrives)
          BY <3>1
        <4>2. \A g \in Groups :
                /\ copy'[g].deleted = copy[g].deleted
                /\ copy'[g].coll = "Approved" /\ copy[g].coll # "Approved" =>
                     g = row.group /\ Decision(row, held) = "approve"
          BY <4>1, DecideKeeps
        <4> QED
          BY <3>2, <4>2
      <3> QED
        BY <3>1, <3>3 DEF Live, Is, Here, OnPost
    <2>3. CASE StampLive
      <3>1. \A g \in Groups : copy'[g].coll = copy[g].coll /\ copy'[g].deleted = copy[g].deleted
        BY <1>0, <2>3 DEF StampLive, Copies
      <3> QED
        BY <2>3, <3>1, SameBoard DEF StampLive
    <2>4. CASE j = "check" /\ (Claim(j) \/ Admitted(j) \/ LaunchCheck \/ Take)
      BY <1>2, <2>4 DEF Claim, Admitted, LaunchCheck, Take, base
    <2>5. ~Admit("check")
      BY <1>1 DEF Admit
    <2> QED
      BY <1>6, <2>1, <2>2, <2>3, <2>4, <2>5 DEF Run
  <1> QED
    BY <1>3, <1>4, <1>5, <1>6 DEF Next

\* A command that has been running only while posts is held puts nothing live: it looks at the
\* switch before each post, and what it remembers of it was read while posts was held.
THEOREM HeldStaysOffBoard == Spec => NothingWhileHeld
  <1>1. Init => Watched
    BY DEF Init, Watched
  <1>2. TypeOK /\ Watched /\ [Next]_vars => Watched'
    BY WatchedKept
  <1>3. TypeOK /\ Watched /\ [Next]_vars =>
            [\A j \in since : job'[j] # job[j] => \A g \in Groups : Live(g)' => Live(g)]_vars
    BY HeldStep
  <1> QED
    BY <1>1, <1>2, <1>3, Typing, PTL DEF Spec, NothingWhileHeld
-------------------------------------------------------------------------------
(* Moderators decide what they reserved *)

\* A copy that is not on its community is reserved by nobody, and the auto-approval works from
\* copies that nobody had reserved.
Unreserved == \A g \in Groups : ~OnPost(g) => ~Reserved(g)
AutoFree ==
    /\ \A row \in job["auto"].rows : row.kept = FALSE
    /\ job["auto"].does # NoRow => job["auto"].does.kept = FALSE
Decides == Unreserved /\ AutoFree

LEMMA ModerateUnreserved ==
    ASSUME TypeOK, Unreserved, NEW m \in Mods, Moderate(m)
    PROVE  Unreserved'
  <1> USE DEF Unreserved, OnPost, Reserved, Change
  <1>0. copy \in [Groups -> Copies]
    BY DEF TypeOK
  <1>1. CASE Approve(m)
    <2>1. \A g \in Groups : copy'[g] = copy[g] \/ OnPost(g)'
      BY <1>0, <1>1 DEF Approve, Arrived, Copies
    <2> QED
      BY <2>1
  <1>2. CASE Approved(m)
    BY <1>0, <1>2 DEF Approved, Copies
  <1>3. CASE Reject(m)
    <2>1. \A c \in Copies : [c EXCEPT !.coll = "Rejected", !.heldby = None].coll = "Rejected"
      BY DEF Copies
    <2>2. \A g \in Groups : copy'[g] = copy[g] \/ copy'[g].coll = "Rejected"
      BY <1>0, <1>3, <2>1 DEF Reject
    <2> QED
      BY <2>2
  <1>4. CASE Remove(m)
    <2>1. \A g \in Groups :
            copy'[g] \in {copy[g], NoCopy, [copy[g] EXCEPT !.deleted = TRUE],
                          [copy[g] EXCEPT !.deleted = TRUE, !.heldby = None]}
      BY <1>0, <1>4 DEF Remove
    <2>2. NoCopy.heldby = None /\ NoCopy.needs = FALSE
      BY DEF NoCopy
    <2>3. ASSUME NEW g \in Groups, ~OnPost(g)' PROVE ~Reserved(g)'
      <3>1. CASE copy'[g] = NoCopy
        BY <2>2, <3>1
      <3>2. CASE copy'[g] # NoCopy
        <4>1. /\ copy'[g].coll = copy[g].coll /\ copy'[g].needs = copy[g].needs
              /\ copy'[g].heldby \in {copy[g].heldby, None}
          BY <1>0, <2>1, <3>2 DEF Copies
        <4> QED
          BY <2>3, <4>1
      <3> QED
        BY <2>1, <3>1, <3>2
    <2> QED
      BY <2>3
  <1>5. CASE Count(m)
    BY <1>0, <1>5 DEF Count, Copies
  <1>6. CASE Hold(m)
    BY <1>0, <1>6 DEF Hold, Copies
  <1>7. CASE Release(m)
    BY <1>0, <1>7 DEF Release, Copies
  <1>8. CASE BackHold(m)
    BY <1>0, <1>8 DEF BackHold, Copies
  <1>9. CASE BackWithdraw(m)
    BY <1>9, Parts, WithdrawLeaves
  <1>10. CASE BackFlip(m)
    BY <1>0, <1>10 DEF BackFlip, Copies
  <1>11. CASE BackMark(m)
    BY <1>0, <1>11 DEF BackMark, Copies
  <1> QED
    BY <1>1, <1>2, <1>3, <1>4, <1>5, <1>6, <1>7, <1>8, <1>9, <1>10, <1>11 DEF Moderate

LEMMA RunUnreserved ==
    ASSUME TypeOK, Unreserved, NEW j \in Jobs, Run(j)
    PROVE  Unreserved'
  <1>0. copy \in [Groups -> Copies]
    BY DEF TypeOK
  <1>1. ASSUME \A g \in Groups : ~OnPost(g)' => copy'[g] = copy[g] PROVE Unreserved'
    BY <1>1 DEF Unreserved, Reserved, OnPost
  <1>2. CASE Admit(j) \/ Judge
    <2>1. \A g \in Groups : copy'[g].coll \in {"none", "refused"} => copy'[g] = copy[g]
      BY <1>2, DecideKeeps DEF Admit, Judge
    <2> QED
      BY <1>1, <2>1 DEF OnPost
  <1>3. CASE StampLive
    BY <1>0, <1>3 DEF StampLive, Unreserved, Reserved, OnPost, Copies
  <1>4. CASE AutoApprove
    <2>1. \A g \in Groups : copy'[g] = copy[g] \/ OnPost(g)'
      BY <1>0, <1>4 DEF AutoApprove, Arrived, OnPost, Copies
    <2> QED
      BY <1>1, <2>1
  <1>5. CASE Claim(j) \/ Admitted(j) \/ LaunchCheck \/ Take \/ LaunchTick \/ LaunchAuto
               \/ AutoGate \/ AutoTake \/ AutoEnd
    BY <1>1, <1>5 DEF Claim, Admitted, LaunchCheck, Take, LaunchTick, LaunchAuto, AutoGate, AutoTake,
        AutoEnd, base
  <1> QED
    BY <1>2, <1>3, <1>4, <1>5 DEF Run

LEMMA UnreservedKept ==
    ASSUME TypeOK, Unreserved, [Next]_vars
    PROVE  Unreserved'
  <1>0. copy \in [Groups -> Copies]
    BY DEF TypeOK
  <1>1. ASSUME copy' = copy PROVE Unreserved'
    BY <1>1 DEF Unreserved, Reserved, OnPost
  <1>2. CASE Reported
    BY <1>0, <1>2 DEF Reported, Change, Unreserved, Reserved, OnPost, Copies
  <1>3. CASE Press
    <2>1. \A g \in Groups : copy'[g].coll = copy[g].coll
            /\ copy'[g].heldby = copy[g].heldby /\ copy'[g].needs = copy[g].needs
      BY <1>0, <1>3 DEF Press, Copies
    <2> QED
      BY <2>1 DEF Unreserved, Reserved, OnPost
  <1>4. CASE Ripple
    <2>1. PICK g \in Near : copy' = [copy EXCEPT ![g] = Arrived([NoCopy EXCEPT !.coll =
                        IF post.verdict[g] = "rules" THEN "Pending" ELSE post.lands])]
      BY <1>4 DEF Ripple
    <2>2. ~Reserved(g)'
      BY <1>0, <2>1 DEF Reserved, Arrived, NoCopy, Groups
    <2> QED
      BY <1>0, <2>1, <2>2 DEF Unreserved, Reserved, OnPost
  <1>5. CASE Age
    BY <1>0, <1>5 DEF Age, Unreserved, Reserved, OnPost, Copies
  <1>6. ASSUME NEW m \in Mods, Begin(m) PROVE Unreserved'
    BY <1>1, <1>6 DEF Begin, base
  <1>7. ASSUME NEW j \in Jobs, Fails(j) \/ Killed(j) PROVE Unreserved'
    BY <1>1, <1>7 DEF Fails, Killed, base
  <1>8. CASE UNCHANGED vars
    BY <1>1, <1>8 DEF vars, base
  <1> QED
    BY <1>2, <1>3, <1>4, <1>5, <1>6, <1>7, <1>8, ModerateUnreserved, RunUnreserved DEF Next
LEMMA AutoFreeKept ==
    ASSUME TypeOK, AutoFree, [Next]_vars
    PROVE  AutoFree'
  <1>0. job \in [Jobs -> JobRecords] /\ "auto" \in Jobs
    BY DEF TypeOK, Jobs
  <1>1. ASSUME job'["auto"] = job["auto"] PROVE AutoFree'
    BY <1>1 DEF AutoFree
  <1>2. ASSUME job'["auto"] = NoJob PROVE AutoFree'
    BY <1>2 DEF AutoFree, NoJob
  <1>3. ASSUME NEW m \in Mods, Begin(m) \/ Moderate(m) PROVE AutoFree'
    BY <1>1, <1>3 DEF Begin, Moderate, Approve, Approved, Reject, Remove, Count, Hold, Release,
        BackHold, BackWithdraw, BackFlip, BackMark
  <1>4. CASE Reported \/ Press \/ Ripple \/ Age
    BY <1>1, <1>4 DEF Reported, Press, Ripple, Age
  <1>5. ASSUME NEW j \in Jobs, Run(j) PROVE AutoFree'
    <2>1. CASE j # "auto"
      <3>1. job'["auto"] = job["auto"]
        BY <1>0, <1>5, <2>1 DEF Run, Claim, Admit, Admitted, Onward, LaunchTick, LaunchCheck,
            Take, Judge, StampLive, Goes, Stop
      <3> QED
        BY <1>1, <3>1
    <2>2. CASE LaunchAuto
      <3>1. job'["auto"].rows = RowsOf(AutoSelects) /\ job'["auto"].does = NoRow
        BY <1>0, <2>2 DEF LaunchAuto, Goes, NoJob
      <3>2. \A row \in RowsOf(AutoSelects) : row.kept = FALSE
        <4>1. \A g \in AutoSelects : Reserved(g) = FALSE
          BY DEF AutoSelects, Reserved
        <4> QED
          BY <4>1 DEF RowsOf, RowOf
      <3> QED
        BY <3>1, <3>2 DEF AutoFree
    <2>3. CASE AutoTake
      <3>1. job'["auto"].rows \subseteq job["auto"].rows
              /\ job'["auto"].does \in job["auto"].rows \union {job["auto"].does, NoRow}
        BY <1>0, <2>3 DEF AutoTake, JobRecords
      <3> QED
        BY <3>1 DEF AutoFree
    <2>6. CASE AutoGate
      <3>1. CASE Stop("auto")
        BY <1>0, <1>2, <3>1 DEF Stop
      <3>2. CASE ~Stop("auto")
        <4>1. job'["auto"].rows = job["auto"].rows /\ job'["auto"].does = job["auto"].does
          BY <1>0, <2>6, <3>2 DEF AutoGate, JobRecords
        <4> QED
          BY <4>1 DEF AutoFree
      <3> QED
        BY <3>1, <3>2
    <2>4. CASE AutoApprove
      <3>1. job'["auto"].rows = job["auto"].rows /\ job'["auto"].does = NoRow
        BY <1>0, <2>4 DEF AutoApprove, JobRecords
      <3> QED
        BY <3>1 DEF AutoFree
    <2>5. CASE AutoEnd
      BY <1>0, <1>2, <2>5 DEF AutoEnd, Stop
    <2> QED
      BY <1>5, <2>1, <2>2, <2>3, <2>4, <2>5, <2>6 DEF Run
  <1>6. ASSUME NEW j \in Jobs, Fails(j) PROVE AutoFree'
    <2>1. job'["auto"].rows \subseteq job["auto"].rows /\ job'["auto"].does \in {job["auto"].does, NoRow}
      BY <1>0, <1>6 DEF Fails, JobRecords
    <2> QED
      BY <2>1 DEF AutoFree
  <1>7. ASSUME NEW j \in Jobs, Killed(j) PROVE AutoFree'
    BY <1>0, <1>1, <1>2, <1>7 DEF Killed, Stop
  <1>8. CASE UNCHANGED vars
    BY <1>1, <1>8 DEF vars
  <1> QED
    BY <1>3, <1>4, <1>5, <1>6, <1>7, <1>8 DEF Next

\* One step: who puts a reserved copy live.
LEMMA DecidesStep ==
    ASSUME TypeOK, Decides, Next, NEW g \in Groups, Reserved(g), ~Live(g), Live(g)'
    PROVE  \/ \E m \in Mods : ApprovesNow(m, g)
           \/ \E j \in Jobs : ReadBefore(j, g)
  <1>0. copy \in [Groups -> Copies] /\ op \in [Mods -> Ops] /\ job \in [Jobs -> JobRecords]
    BY DEF TypeOK
  <1>1. OnPost(g)
    BY DEF Decides, Unreserved
  <1>2. copy'[g].coll = "Approved" /\ ~copy'[g].deleted /\ ~gone'
    BY DEF Live, Is, Here
  <1>3. ASSUME gone => gone', copy[g].deleted => copy'[g].deleted PROVE copy[g].coll # "Approved"
    BY <1>1, <1>2, <1>3 DEF Live, Is, Here
  <1>4. ASSUME copy'[g].coll = copy[g].coll, copy[g].deleted => copy'[g].deleted, gone => gone'
        PROVE  FALSE
    BY <1>2, <1>3, <1>4
  <1>5. ASSUME NEW m \in Mods, Moderate(m) PROVE ApprovesNow(m, g)
    <2>1. gone => gone'
      BY <1>5 DEF Moderate, Approve, Approved, Reject, Remove, Count, Hold, Release, BackHold,
          BackWithdraw, BackFlip, BackMark
    <2>2. CASE Approve(m)
      <3>1. copy'[g].deleted = copy[g].deleted
        BY <1>0, <2>2 DEF Approve, Change, Arrived, Copies
      <3>2. g \in op[m].on /\ Approvable(m, g)
        BY <1>0, <1>4, <2>1, <2>2, <3>1 DEF Approve, Change
      <3>3. op'[m] # op[m]
        <4> DEFINE next == [op[m] EXCEPT !.at = "rest",
                !.on = op[m].on \ {x \in HeldByOthers(m, op[m].on) : copy[x].coll # "Approved"}]
        <4>1. op'[m] \in {NoOp, next}
          BY <1>0, <2>2 DEF Approve
        <4>2. op[m].at = "write" /\ NoOp.at = "idle" /\ next.at = "rest"
          BY <1>0, <2>2 DEF Approve, At, NoOp, Ops
        <4> HIDE DEF next
        <4> QED
          BY <4>1, <4>2
      <3> QED
        BY <2>2, <3>2, <3>3 DEF ApprovesNow, Approvable, Approve
    <2>3. CASE BackWithdraw(m)
      <3>1. copy'[g].coll = copy[g].coll /\ (copy[g].deleted => copy'[g].deleted)
        BY <2>3, Parts, WithdrawLeaves
      <3> QED
        BY <1>4, <2>1, <3>1
    <2>4. CASE Remove(m)
      <3>1. copy'[g] \in {copy[g], NoCopy, [copy[g] EXCEPT !.deleted = TRUE],
                          [copy[g] EXCEPT !.deleted = TRUE, !.heldby = None]}
        BY <1>0, <2>4 DEF Remove, Change
      <3>2. copy'[g] = NoCopy \/ (copy'[g].coll = copy[g].coll /\ (copy[g].deleted => copy'[g].deleted))
        BY <1>0, <3>1 DEF Copies
      <3> QED
        BY <1>2, <1>4, <2>1, <3>2 DEF NoCopy
    <2>5. CASE Count(m)
      BY <1>0, <1>2, <1>4, <2>1, <2>5 DEF Count, Change, Copies
    <2>6. CASE Reject(m)
      BY <1>0, <1>2, <1>4, <2>1, <2>6 DEF Reject, Change, Copies
    <2>7. CASE BackFlip(m)
      BY <1>0, <1>2, <1>4, <2>1, <2>7 DEF BackFlip, Change, Copies
    <2>8. CASE Approved(m) \/ Hold(m) \/ Release(m) \/ BackHold(m) \/ BackMark(m)
      BY <1>0, <1>4, <2>1, <2>8 DEF Approved, Hold, Release, BackHold, BackMark, Change, Copies
    <2> QED
      BY <1>5, <2>2, <2>3, <2>4, <2>5, <2>6, <2>7, <2>8 DEF Moderate
  <1>6. CASE Reported
    BY <1>0, <1>2, <1>4, <1>6 DEF Reported, Change, Copies
  <1>7. CASE Press
    <2>1. copy'[g].coll = copy[g].coll /\ copy'[g].deleted = copy[g].deleted /\ gone' = gone
      BY <1>0, <1>7 DEF Press, Copies
    <2> QED
      BY <1>4, <2>1
  <1>8. CASE Ripple
    <2>1. copy'[g] = copy[g] /\ gone' = gone
      BY <1>0, <1>1, <1>8 DEF Ripple, OnPost
    <2> QED
      BY <1>4, <2>1
  <1>9. CASE Age
    BY <1>0, <1>4, <1>9 DEF Age, Copies
  <1>10. ASSUME NEW j \in Jobs, Run(j) PROVE ReadBefore(j, g)
    <2>1. gone' = gone
      BY <1>10 DEF Run, Claim, Admit, Admitted, LaunchCheck, Take, Judge, StampLive, LaunchTick,
          LaunchAuto, AutoGate, AutoTake, AutoApprove, AutoEnd, base
    <2>2. CASE Admit(j)
      <3>1. PICK row \in job[j].rows : /\ DecideAndApply(row, FALSE, TRUE)
                                       /\ job' = [job EXCEPT ![j].rows = @ \ {row}]
        BY <2>2 DEF Admit
      <3>2. PICK held, arrives : held = FALSE /\ DecideAndApply(row, held, arrives)
        BY <3>1
      <3>3. /\ copy'[g].deleted = copy[g].deleted
            /\ copy'[g].coll = "Approved" /\ copy[g].coll # "Approved" =>
                 g = row.group /\ Decision(row, held) = "approve"
        BY <3>2, DecideKeeps
      <3>4. g = row.group /\ Decision(row, held) = "approve"
        BY <1>2, <1>3, <2>1, <3>3
      <3>5. ~row.kept
        BY <3>4 DEF Decision
      <3>6. job'[j] # job[j] /\ row # NoRow
        <4>1. row \notin job'[j].rows /\ row \in Rows
          BY <1>0, <3>1 DEF JobRecords
        <4>2. row.group # None
          BY <3>4, PostAssumption
        <4>3. row # NoRow
          BY <4>2 DEF NoRow
        <4>4. job'[j].rows # job[j].rows
          BY <3>1, <4>1
        <4> QED
          BY <4>3, <4>4
      <3> QED
        BY <3>1, <3>4, <3>5, <3>6 DEF ReadBefore
    <2>3. CASE Judge /\ j = "check"
      <3>1. PICK row, held, arrives : row = job[j].does /\ DecideAndApply(row, held, arrives)
        BY <2>3 DEF Judge
      <3>2. /\ copy'[g].deleted = copy[g].deleted
            /\ copy'[g].coll = "Approved" /\ copy[g].coll # "Approved" =>
                 g = row.group /\ Decision(row, held) = "approve"
        BY <3>1, DecideKeeps
      <3>3. g = row.group /\ Decision(row, held) = "approve"
        BY <1>2, <1>3, <2>1, <3>2
      <3>4. ~row.kept
        BY <3>3 DEF Decision
      <3>5. job[j].does # NoRow /\ job'[j].does = NoRow
        BY <1>0, <2>3 DEF Judge, JobRecords
      <3>6. job'[j] # job[j] /\ row # NoRow
        BY <3>1, <3>5
      <3> QED
        BY <3>1, <3>3, <3>4, <3>6 DEF ReadBefore
    <2>4. CASE AutoApprove /\ j = "auto"
      <3>1. g = job[j].does.group
        <4>1. g # job[j].does.group => copy'[g] = copy[g]
          BY <1>0, <2>4 DEF AutoApprove
        <4> QED
          BY <1>4, <2>1, <4>1
      <3>2. job[j].does # NoRow /\ job'[j].does = NoRow
        BY <1>0, <2>4 DEF AutoApprove, JobRecords
      <3>3. job[j].does.kept = FALSE
        BY <2>4, <3>2 DEF Decides, AutoFree
      <3> QED
        BY <3>1, <3>2, <3>3 DEF ReadBefore
    <2>5. CASE StampLive
      <3>1. copy'[g].coll = copy[g].coll /\ copy'[g].deleted = copy[g].deleted
        BY <1>0, <2>5 DEF StampLive, Copies
      <3> QED
        BY <1>4, <2>1, <3>1
    <2>6. CASE Claim(j) \/ Admitted(j) \/ LaunchCheck \/ Take \/ LaunchTick \/ LaunchAuto
                 \/ AutoGate \/ AutoTake \/ AutoEnd
      BY <1>4, <2>1, <2>6 DEF Claim, Admitted, LaunchCheck, Take, LaunchTick, LaunchAuto, AutoGate, AutoTake,
          AutoEnd, base
    <2> QED
      BY <1>10, <2>2, <2>3, <2>4, <2>5, <2>6 DEF Run
  <1>11. ASSUME (\E m \in Mods : Begin(m)) \/ (\E j \in Jobs : Fails(j) \/ Killed(j)) PROVE FALSE
    BY <1>4, <1>11 DEF Begin, Fails, Killed, base
  <1> QED
    BY <1>5, <1>6, <1>7, <1>8, <1>9, <1>10, <1>11 DEF Next

\* What a moderator holds, or sent back for the moderators to decide, only they put live: nobody
\* else does but a command that had read the copy before it was reserved.
THEOREM ModeratorsDecide == Spec => ModeratorDecides
  <1>1. Init => Decides
    <2> SUFFICES ASSUME Init PROVE Decides
      OBVIOUS
    <2>1. \A g \in Groups : copy[g].heldby = None /\ copy[g].needs = FALSE
      BY DEF Init, NoCopy
    <2>2. job["auto"] = NoJob
      BY DEF Init, Jobs
    <2> QED
      BY <2>1, <2>2 DEF Decides, Unreserved, AutoFree, Reserved, NoJob
  <1>2. TypeOK /\ Decides /\ [Next]_vars => Decides'
    BY UnreservedKept, AutoFreeKept DEF Decides
  <1>3. TypeOK /\ Decides /\ [Next]_vars =>
            [\A g \in Groups : Reserved(g) /\ ~Live(g) /\ Live(g)' =>
                \/ \E m \in Mods : ApprovesNow(m, g)
                \/ \E j \in Jobs : ReadBefore(j, g)]_vars
    BY DecidesStep
  <1> QED
    BY <1>1, <1>2, <1>3, Typing, PTL DEF Spec, ModeratorDecides
================================================================================
