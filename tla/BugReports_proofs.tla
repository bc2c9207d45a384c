--------------------------- MODULE BugReports_proofs ---------------------------
(* Machine-checked theorems about BugReports, for any posts, reporters, classes, *)
(* pull requests, faults and bounds.                                             *)
EXTENDS BugReports, FiniteSetTheorems, TLAPS

\* What the monitor is in the middle of, well formed.
JobOK(j) ==
    /\ j \in JobRecords
    /\ j.at \in {"fix", "opened", "refuse", "ask", "answer"} => j.r # None
    /\ j.at \in {"opened", "refuse", "closing"} => j.p # None
    /\ j.send # "no" => j.r # None

-------------------------------------------------------------------------------
(* Choosing from the reports *)

LEMMA LeastNat ==
    ASSUME NEW S, S \subseteq Nat, S # {}
    PROVE  \E x \in S : \A y \in S : x <= y
  <1> DEFINE R == {ss \in Nat \X Nat : ss[1] < ss[2]}
  <1>1. IsWellFoundedOn(R, Nat)
    BY NatLessThanWellFounded DEF OpToRel
  <1>2. \A x, y \in Nat : y < x => <<y, x>> \in R
    OBVIOUS
  <1> HIDE DEF R
  <1>3. PICK x \in S : \A y \in S : ~(<<y, x>> \in R)
    BY <1>1, WFMin
  <1>4. \A y \in S : ~(y < x)
    BY <1>2, <1>3
  <1> QED
    BY <1>4

LEMMA MinExists ==
    ASSUME NEW S, S \subseteq Nat, S # {}
    PROVE  Min(S) \in S
  BY LeastNat DEF Min

LEMMA MaxExists ==
    ASSUME NEW S, S \subseteq Nat, S # {}, NEW n \in Nat, \A s \in S : s <= n
    PROVE  Max(S) \in S
  <1> DEFINE T == {m \in Nat : \E s \in S : m = n - s}
  <1>1. T \subseteq Nat /\ T # {}
    <2>1. PICK s \in S : TRUE
      OBVIOUS
    <2>2. n - s \in Nat
      OBVIOUS
    <2> QED
      BY <2>2
  <1>2. PICK m \in T : \A t \in T : m <= t
    <2> HIDE DEF T
    <2> QED
      BY <1>1, LeastNat
  <1>3. PICK s \in S : m = n - s
    OBVIOUS
  <1>4. \A q \in S : s >= q
    <2> TAKE q \in S
    <2>1. n - q \in T
      OBVIOUS
    <2>2. n - s <= n - q
      BY <1>2, <1>3, <2>1
    <2> QED
      BY <2>2
  <1> QED
    BY <1>4 DEF Max

-------------------------------------------------------------------------------
(* What the helpers yield *)

LEMMA BugHelpers ==
    ASSUME NEW b \in BugRecords, NEW s \in States, NEW p \in PRs \union {None}, NEW why \in Deferrals
    PROVE  /\ Seen(b) \in BugRecords /\ Upserted(b, s, p) \in BugRecords
           /\ Because(b, s, why) \in BugRecords /\ Hold(b) \in BugRecords
           /\ Reopened(b) \in BugRecords /\ Confirmed(b) \in BugRecords /\ Fixed(b) \in BugRecords
           /\ CameBack(b) \in BugRecords /\ Escalated(b) \in BugRecords
           /\ [b EXCEPT !.state = s] \in BugRecords
           /\ [b EXCEPT !.state = s, !.why = why] \in BugRecords
           /\ [b EXCEPT !.state = s, !.why = why, !.back = @ + 1] \in BugRecords
           /\ [b EXCEPT !.pr = p] \in BugRecords
           /\ [b EXCEPT !.pr = p, !.rejections = 0] \in BugRecords
           /\ [b EXCEPT !.why = why] \in BugRecords
  <1>1. /\ "other" \in Deferrals
        /\ {"open", "confirmed", "fixed", "deferred", "needs-detail"} \subseteq States
    BY DEF Deferrals, States
  <1>2. None \in PRs \union {None}
    OBVIOUS
  <1>3. \A c \in BugRecords : Seen(c) \in BugRecords
    <2> TAKE c \in BugRecords
    <2>1. \A x \in BOOLEAN : [c EXCEPT !.age = "fresh", !.since = x] \in BugRecords
      BY DEF BugRecords
    <2>2. (c.chased \in {"sent", "late"}) \in BOOLEAN
      OBVIOUS
    <2> QED
      BY <2>1, <2>2, Zenon DEF Seen
  <1>4. \A c \in BugRecords, t \in States, q \in PRs \union {None} : Upserted(c, t, q) \in BugRecords
    <2> TAKE c \in BugRecords, t \in States, q \in PRs \union {None}
    <2>1. [c EXCEPT !.state = t, !.pr = IF q = None THEN @ ELSE q] \in BugRecords
      BY DEF BugRecords
    <2> QED
      BY <2>1, <1>3 DEF Upserted
  <1>5. \A c \in BugRecords, t \in States, w \in Deferrals : Because(c, t, w) \in BugRecords
    <2> TAKE c \in BugRecords, t \in States, w \in Deferrals
    <2>1. Upserted(c, t, None) \in BugRecords
      BY <1>2, <1>4
    <2> QED
      BY <2>1 DEF Because, BugRecords
  <1>6. Reopened(b) \in BugRecords
    <2>1. \A t \in States, w \in Deferrals, n \in Nat :
             [b EXCEPT !.state = t, !.pr = None, !.why = w, !.rejections = n] \in BugRecords
      BY DEF BugRecords
    <2>2. b.rejections + 1 \in Nat
      BY DEF BugRecords
    <2> QED
      BY <1>1, <1>3, <2>1, <2>2 DEF Reopened
  <1>7. Confirmed(b) \in BugRecords
    <2>1. [b EXCEPT !.state = "confirmed", !.why = "other"] \in BugRecords
      BY <1>1 DEF BugRecords
    <2> QED
      BY <2>1, <1>3 DEF Confirmed
  <1>8. Fixed(b) \in BugRecords
    <2>1. [b EXCEPT !.state = "fixed"] \in BugRecords
      BY <1>1 DEF BugRecords
    <2> QED
      BY <2>1, <1>3 DEF Fixed
  <1>9. [b EXCEPT !.state = s, !.why = why, !.back = @ + 1] \in BugRecords /\ CameBack(b) \in BugRecords
    <2>1. \A t \in States, w \in Deferrals, n \in Nat :
             [b EXCEPT !.state = t, !.why = w, !.back = n] \in BugRecords
      BY DEF BugRecords
    <2>2. b.back + 1 \in Nat
      BY DEF BugRecords
    <2> QED
      BY <1>1, <2>1, <2>2 DEF CameBack
  <1>10. Escalated(b) \in BugRecords /\ Hold(b) \in BugRecords
    BY <1>1, <1>5 DEF Escalated, Hold
  <1>11. [b EXCEPT !.state = s] \in BugRecords
    BY DEF BugRecords
  <1>12. [b EXCEPT !.state = s, !.why = why] \in BugRecords
    BY DEF BugRecords
  <1>13. [b EXCEPT !.pr = p] \in BugRecords
    BY DEF BugRecords
  <1>14. [b EXCEPT !.pr = p, !.rejections = 0] \in BugRecords
    BY DEF BugRecords
  <1>15. [b EXCEPT !.why = why] \in BugRecords
    BY DEF BugRecords
  <1> QED
    BY <1>3, <1>4, <1>5, <1>6, <1>7, <1>8, <1>9, <1>10, <1>11, <1>12, <1>13, <1>14, <1>15

LEMMA RowHelpers ==
    ASSUME NEW w \in RowRecords
    PROVE  /\ Cancelled(w) \in RowRecords /\ Posted(w) \in RowRecords
           /\ [w EXCEPT !.posted = TRUE, !.own = FALSE] \in RowRecords
           /\ [w EXCEPT !.pending = TRUE] \in RowRecords
           /\ Cancelled(w).posted = w.posted /\ Posted(w).posted
  <1>1. Cancelled(w) \in RowRecords
    <2>1. CASE w.pending /\ w.rejected < 2
      <3>1. \A n \in 0..2 : [w EXCEPT !.pending = FALSE, !.rejected = n] \in RowRecords
        BY DEF RowRecords
      <3>2. w.rejected + 1 \in 0..2
        BY <2>1 DEF RowRecords
      <3> QED
        BY <2>1, <3>1, <3>2 DEF Cancelled
    <2>2. CASE ~w.pending \/ ~(w.rejected < 2)
      BY <2>2 DEF Cancelled, RowRecords
    <2> QED
      BY <2>1, <2>2
  <1>2. Posted(w) \in RowRecords /\ Posted(w).posted
    BY DEF Posted, RowRecords
  <1>3. [w EXCEPT !.posted = TRUE, !.own = FALSE] \in RowRecords
    BY DEF RowRecords
  <1>4. [w EXCEPT !.pending = TRUE] \in RowRecords
    BY DEF RowRecords
  <1>5. Cancelled(w).posted = w.posted
    BY DEF Cancelled, RowRecords
  <1> QED
    BY <1>1, <1>2, <1>3, <1>4, <1>5

LEMMA RowsKept ==
    ASSUME TypeOK, NEW r
    PROVE  /\ [row EXCEPT ![r] = Cancelled(@)] \in [Reports -> RowRecords]
           /\ [row EXCEPT ![r] = Posted(@)] \in [Reports -> RowRecords]
           /\ [row EXCEPT ![r].posted = TRUE, ![r].own = FALSE] \in [Reports -> RowRecords]
           /\ [row EXCEPT ![r].pending = TRUE] \in [Reports -> RowRecords]
  <1>1. row \in [Reports -> RowRecords]
    BY DEF TypeOK
  <1>2. [row EXCEPT ![r] = Cancelled(@)] \in [Reports -> RowRecords]
    BY <1>1, RowHelpers
  <1>3. [row EXCEPT ![r] = Posted(@)] \in [Reports -> RowRecords]
    BY <1>1, RowHelpers
  <1>4. [row EXCEPT ![r].posted = TRUE, ![r].own = FALSE] \in [Reports -> RowRecords]
    BY <1>1, RowHelpers
  <1>5. [row EXCEPT ![r].pending = TRUE] \in [Reports -> RowRecords]
    BY <1>1, RowHelpers
  <1> QED
    BY <1>2, <1>3, <1>4, <1>5

LEMMA RowChanged ==
    ASSUME TypeOK, NEW r, row' = [row EXCEPT ![r] = Cancelled(@)] \/ row' = row
    PROVE  row' \in [Reports -> RowRecords]
  <1>1. row \in [Reports -> RowRecords]
    BY DEF TypeOK
  <1>2. [row EXCEPT ![r] = Cancelled(@)] \in [Reports -> RowRecords]
    BY RowsKept
  <1> QED
    BY <1>1, <1>2, Zenon

\* A report's row in the bug table is replaced by a well-formed one.
LEMMA BugsKept ==
    ASSUME TypeOK, NEW r, NEW b \in BugRecords
    PROVE  [bug EXCEPT ![r] = b] \in [Reports -> BugRecords]
  BY DEF TypeOK

LEMMA StartJob ==
    ASSUME NEW l \in Loops
    PROVE  /\ At(l) \in JobRecords
           /\ \A S \in SUBSET Reports : [At(l) EXCEPT !.todo = S] \in JobRecords
           /\ At(l).at = l /\ At(l).send = "no" /\ At(l).r = None /\ At(l).p = None
  BY DEF At, JobRecords

LEMMA JobHelpers ==
    ASSUME NEW j, JobOK(j), NEW S
    PROVE  /\ JobOK(Without(j, S))
           /\ Without(j, S).at = j.at /\ Without(j, S).send = j.send
           /\ Without(j, S).r = j.r /\ Without(j, S).p = j.p
  BY DEF JobOK, Without, JobRecords

LEMMA PostKeeps ==
    ASSUME NEW l, l \in JobRecords, l.at \in {"opened", "refuse", "closing"} => l.p # None,
           NEW r \in Reports, Post(l, r)
    PROVE  /\ JobOK(job') /\ job'.at = l.at /\ job'.send = "sent" /\ job'.r = r
  <1>1. r # None
    BY ReportAssumption
  <1>2. job' = [l EXCEPT !.send = "sent", !.r = r]
    BY DEF Post
  <1> QED
    BY <1>1, <1>2 DEF JobOK, JobRecords

LEMMA TypeJob == TypeOK => JobOK(job)
  BY DEF TypeOK, JobOK

LEMMA Bounds ==
    /\ MaxFaults \in Nat /\ MaxClicks \in Nat /\ MaxWeeks \in Nat
    /\ 0 \in 0..MaxFaults /\ 0 \in 0..MaxClicks /\ 0 \in 0..MaxWeeks
  BY ReportAssumption

LEMMA Next1 ==
    ASSUME NEW n \in Nat, NEW m \in 0..n, m < n
    PROVE  m + 1 \in 0..n
  <1>1. m \in Nat /\ m + 1 \in Int /\ 0 <= m + 1 /\ m + 1 <= n
    OBVIOUS
  <1> QED
    BY <1>1

LEMMA Counted ==
    ASSUME NEW f \in [Reports -> Nat], NEW r
    PROVE  [f EXCEPT ![r] = @ + 1] \in [Reports -> Nat]
  <1>1. \A q \in Reports : f[q] + 1 \in Nat
    OBVIOUS
  <1>2. \A q \in Reports : [f EXCEPT ![r] = @ + 1][q] \in {f[q], f[q] + 1}
    OBVIOUS
  <1> QED
    BY <1>1, <1>2

LEMMA FaultTyped ==
    ASSUME TypeOK, NEW f, Fault(f)
    PROVE  faults' \in 0..MaxFaults
  <1>1. faults \in 0..MaxFaults
    BY DEF TypeOK
  <1> QED
    BY <1>1, Bounds, Next1 DEF Fault

\* An action of LOAD_STATE is well typed if what it writes is.
LEMMA FrameKeeps ==
    ASSUME TypeOK, Frame,
           bug' \in [Reports -> BugRecords], pull' \in [PRs -> PullRecords],
           row' \in [Reports -> RowRecords], JobOK(job'), said' \in [Reports -> Nat],
           excused' \in [Reports -> Nat], replied' \subseteq Reports, faults' \in 0..MaxFaults
    PROVE  TypeOK'
  BY DEF TypeOK, Frame, JobOK

\* An action at work likewise.
LEMMA WorkKeeps ==
    ASSUME TypeOK, Work, lap' = lap,
           bug' \in [Reports -> BugRecords], row' \in [Reports -> RowRecords],
           done' \in [Reports -> Outcomes], JobOK(job'), excused' \in [Reports -> Nat],
           tries' \in [Reports -> Nat], replied' \subseteq Reports, faults' \in 0..MaxFaults
    PROVE  TypeOK'
  BY DEF TypeOK, Work, JobOK

LEMMA AnswerTyped ==
    ASSUME TypeOK, NEW ok \in BOOLEAN, Answer(ok)
    PROVE  /\ excused' \in [Reports -> Nat] /\ faults' \in 0..MaxFaults
           /\ job.send # "no" /\ job.r \in Reports
  <1>1. faults' \in 0..MaxFaults
    <2>1. faults \in 0..MaxFaults
      BY DEF TypeOK
    <2> QED
      BY <2>1, FaultTyped DEF Answer
  <1>2. job.send # "no" /\ job.r \in Reports
    BY DEF Answer, TypeOK, JobRecords
  <1>3. excused' \in [Reports -> Nat]
    <2>1. excused \in [Reports -> Nat]
      BY DEF TypeOK
    <2> QED
      BY <2>1, Counted DEF Answer
  <1> QED
    BY <1>1, <1>2, <1>3

LEMMA BackTyped ==
    ASSUME TypeOK, job.at \notin {"fix", "opened", "refuse", "ask", "answer"}
    PROVE  JobOK(Back) /\ Back.at = job.at /\ Back.send = "no"
  BY DEF TypeOK, Back, JobOK, JobRecords

LEMMA RecordTyped ==
    ASSUME TypeOK, NEW r, NEW ok \in BOOLEAN, Record(r, ok)
    PROVE  row' \in [Reports -> RowRecords]
  BY DEF TypeOK, Record, RowRecords

LEMMA RenderedTyped == TypeOK => Rendered \in [Reports -> BugRecords]
  BY BugHelpers DEF TypeOK, Rendered, States, Deferrals

-------------------------------------------------------------------------------
(* The types *)

LEMMA InitTyped == Init => TypeOK
  <1> SUFFICES ASSUME Init PROVE TypeOK
    OBVIOUS
  <1>1. NoBug \in BugRecords
    BY DEF NoBug, BugRecords, States, Deferrals
  <1>2. NoPull \in PullRecords
    BY DEF NoPull, PullRecords
  <1>3. [posted |-> FALSE, own |-> FALSE, pending |-> FALSE, rejected |-> 0] \in RowRecords
    BY DEF RowRecords
  <1>4. "load" \in Loops
    BY DEF Loops
  <1>5. /\ job = At("load") /\ job \in JobRecords
        /\ job.at = "load" /\ job.send = "no"
    BY <1>4, StartJob DEF Init
  <1> QED
    BY <1>1, <1>2, <1>3, <1>5, Bounds DEF Init, TypeOK, Outcomes

LEMMA PressedTyped ==
    ASSUME TypeOK, NEW r \in Reports, Pressed(r)
    PROVE  clicks' \in 0..MaxClicks /\ touched' \subseteq Reports
  <1>1. clicks \in 0..MaxClicks /\ touched \subseteq Reports
    BY DEF TypeOK
  <1> QED
    BY <1>1, Bounds, Next1 DEF Pressed

LEMMA PeopleTyped ==
    ASSUME TypeOK, People
    PROVE  TypeOK'
  <1>1. CASE GitHub
    <2>1. pull' \in [PRs -> PullRecords]
      <3>1. \A q \in PullRecords, g \in {"merged", "closed", "wontfix", "live"} :
               [q EXCEPT !.gh = g] \in PullRecords
        BY DEF PullRecords
      <3>2. pull \in [PRs -> PullRecords]
        BY DEF TypeOK
      <3>3. PICK p \in PRs, g \in {"merged", "closed", "wontfix", "live"} : pull' = [pull EXCEPT ![p].gh = g]
        BY <1>1 DEF GitHub
      <3> QED
        BY <3>1, <3>2, <3>3
    <2> QED
      BY <1>1, <2>1 DEF GitHub, TypeOK, context, ghosts, counts
  <1>2. CASE Week
    <2>1. bug' \in [Reports -> BugRecords]
      <3>1. \A b \in BugRecords, a \in {"quiet", "stale"}, c \in {"no", "sent", "late", "cannot"} :
               [b EXCEPT !.age = a, !.chased = c] \in BugRecords
        BY DEF BugRecords
      <3>2. \A r \in Reports : bug[r] \in BugRecords
        BY DEF TypeOK
      <3>3. \A r \in Reports : (IF bug[r].chased = "sent" THEN "late" ELSE bug[r].chased)
                                  \in {"no", "sent", "late", "cannot"}
        BY <3>2 DEF BugRecords
      <3>4. PICK stale \in SUBSET {r \in Reports : bug[r].age = "quiet"} :
               bug' = [r \in Reports |->
                    IF bug[r].state = "none" THEN bug[r] ELSE
                    [bug[r] EXCEPT !.age = IF @ = "stale" \/ r \in stale THEN "stale" ELSE "quiet",
                                   !.chased = IF @ = "sent" THEN "late" ELSE @]]
        BY <1>2 DEF Week
      <3>5. \A r \in Reports : bug'[r] \in BugRecords
        BY <3>1, <3>2, <3>3, <3>4
      <3> QED
        BY <3>4, <3>5
    <2>2. weeks' \in 0..MaxWeeks
      <3>1. weeks \in 0..MaxWeeks
        BY DEF TypeOK
      <3> QED
        BY <1>2, <3>1, Bounds, Next1 DEF Week
    <2> QED
      BY <1>2, <2>1, <2>2 DEF Week, TypeOK, context, ghosts
  <1>3. CASE Status
    BY <1>3, RenderedTyped DEF Status, TypeOK, context, ghosts, counts
  <1>4. ASSUME NEW r \in Reports, Dashboard(r)
        PROVE  TypeOK'
    <2>1. clicks' \in 0..MaxClicks /\ touched' \subseteq Reports
      BY <1>4, PressedTyped DEF Dashboard
    <2>2. bug' \in [Reports -> BugRecords]
      <3>1. /\ "open" \in States /\ "fix-queued" \in States /\ "other" \in Deferrals
            /\ \A s \in Clicks : s \in States /\ None \in PRs \union {None}
        BY ReportAssumption DEF States, Deferrals
      <3>2. bug[r] \in BugRecords
        BY DEF TypeOK
      <3>3. /\ [bug[r] EXCEPT !.state = "open", !.why = "other"] \in BugRecords
            /\ \A s \in Clicks : Upserted(bug[r], s, None) \in BugRecords
            /\ \A p \in PRs : [Because(bug[r], "fix-queued", "other") EXCEPT !.pr = p, !.rejections = 0]
                                 \in BugRecords
        BY <3>1, <3>2, BugHelpers
      <3> QED
        BY <1>4, <3>3 DEF Dashboard, TypeOK
    <2> QED
      BY <1>4, <2>1, <2>2 DEF Dashboard, TypeOK, context
  <1>5. ASSUME NEW r \in Reports, DashboardDraft(r)
        PROVE  TypeOK'
    <2>1. clicks' \in 0..MaxClicks /\ touched' \subseteq Reports
      BY <1>5, PressedTyped DEF DashboardDraft
    <2>2. row' \in [Reports -> RowRecords]
      <3>1. row' = [row EXCEPT ![r] = Cancelled(@)] \/ row' = [row EXCEPT ![r] = Posted(@)]
        BY <1>5, Zenon DEF DashboardDraft
      <3> QED
        BY <3>1, RowsKept, Zenon
    <2>3. said' \in [Reports -> Nat] /\ excused' \in [Reports -> Nat]
      <3>1. said \in [Reports -> Nat] /\ excused \in [Reports -> Nat]
        BY DEF TypeOK
      <3> QED
        BY <1>5, <3>1, Counted DEF DashboardDraft
    <2> QED
      BY <1>5, <2>1, <2>2, <2>3 DEF DashboardDraft, TypeOK, context
  <1> QED
    BY <1>1, <1>2, <1>3, <1>4, <1>5 DEF People

LEMMA StoreTyped ==
    ASSUME TypeOK, Store
    PROVE  TypeOK'
  <1>1. /\ job' \in JobRecords /\ job'.at = job.at /\ job'.r = job.r /\ job'.p = job.p
        /\ job'.send = "stored" /\ job.send = "sent"
    BY DEF Store, TypeOK, JobRecords
  <1>2. said' \in [Reports -> Nat]
    <2>1. said \in [Reports -> Nat]
      BY DEF TypeOK
    <2> QED
      BY <2>1, Counted DEF Store
  <1> QED
    BY <1>1, <1>2 DEF Store, TypeOK, database, context, ghosts, counts

LEMMA ForgetTyped ==
    ASSUME TypeOK, Forget
    PROVE  /\ lap' = {} /\ done' \in [Reports -> Outcomes]
           /\ class' \in [Reports -> ClassSet \union {None}]
  <1>1. \A c \in ClassSet : [c EXCEPT !.type = "other", !.like = "untagged"] \in ClassSet
    BY DEF ClassSet
  <1> QED
    BY <1>1 DEF Forget, TypeOK, Outcomes

LEMMA CrashTyped ==
    ASSUME TypeOK, Crash
    PROVE  TypeOK'
  <1>1. "load" \in Loops
    BY DEF Loops
  <1>2. job' \in JobRecords /\ job'.at = "load" /\ job'.send = "no"
    BY <1>1, StartJob DEF Crash
  <1>3. excused' \in [Reports -> Nat] /\ faults' \in 0..MaxFaults
    <2>1. excused \in [Reports -> Nat]
      BY DEF TypeOK
    <2> QED
      BY <2>1, Counted, FaultTyped DEF Crash
  <1> QED
    BY <1>2, <1>3, ForgetTyped DEF Crash, TypeOK, database, ghosts

\* The lists a loop of LOAD_STATE begins with are lists of reports.
LEMMA LoopStarts ==
    ASSUME TypeOK
    PROVE  /\ \A T : In(T) \subseteq Reports
           /\ \A l \in Loops \ {"fix", "opened", "refuse", "ask", "answer", "closing"}, S \in SUBSET Reports :
                 /\ JobOK(At(l)) /\ JobOK([At(l) EXCEPT !.todo = S])
                 /\ \A K \in SUBSET Reports : JobOK([At(l) EXCEPT !.todo = S, !.kept = K])
                 /\ \A f \in [Reports -> PRs \union {None}] : JobOK([At(l) EXCEPT !.todo = S, !.of = f])
  <1>1. \A T : In(T) \subseteq Reports
    BY DEF In
  <1>2. ASSUME NEW l \in Loops \ {"fix", "opened", "refuse", "ask", "answer", "closing"},
               NEW S \in SUBSET Reports
        PROVE  /\ JobOK(At(l)) /\ JobOK([At(l) EXCEPT !.todo = S])
               /\ \A K \in SUBSET Reports : JobOK([At(l) EXCEPT !.todo = S, !.kept = K])
               /\ \A f \in [Reports -> PRs \union {None}] : JobOK([At(l) EXCEPT !.todo = S, !.of = f])
    <2>1. JobOK(At(l))
      BY StartJob DEF JobOK
    <2>2. JobOK([At(l) EXCEPT !.todo = S])
      BY DEF At, JobRecords, JobOK
    <2>3. \A K \in SUBSET Reports : JobOK([At(l) EXCEPT !.todo = S, !.kept = K])
      BY DEF At, JobRecords, JobOK
    <2>4. \A f \in [Reports -> PRs \union {None}] : JobOK([At(l) EXCEPT !.todo = S, !.of = f])
      BY DEF At, JobRecords, JobOK
    <2> QED
      BY <2>1, <2>2, <2>3, <2>4
  <1> QED
    BY <1>1, <1>2

\* What TypeOK says of each variable, for the steps that leave it alone.
LEMMA Typed ==
    ASSUME TypeOK
    PROVE  /\ bug \in [Reports -> BugRecords] /\ pull \in [PRs -> PullRecords]
           /\ row \in [Reports -> RowRecords] /\ JobOK(job) /\ job \in JobRecords
           /\ said \in [Reports -> Nat] /\ excused \in [Reports -> Nat] /\ tries \in [Reports -> Nat]
           /\ done \in [Reports -> Outcomes] /\ replied \subseteq Reports /\ faults \in 0..MaxFaults
           /\ lap \subseteq Reports /\ job.todo \subseteq Reports /\ job.kept \subseteq Reports
           /\ job.of \in [Reports -> PRs \union {None}]
  BY TypeJob DEF TypeOK, JobRecords

LEMMA BeginTyped ==
    ASSUME TypeOK, NEW l \in {"flush", "chase", "direct"}, NEW S \in SUBSET Reports, Begin(l, S)
    PROVE  JobOK(job')
  BY LoopStarts DEF Begin, Loops

LEMMA StartsTyped ==
    ASSUME TypeOK,
           StartScan \/ StartDeployed \/ StartFlush \/ StartChase \/ StartDirect
    PROVE  TypeOK'
  <1>1. {"scanning", "deployed"} \subseteq Loops \ {"fix", "opened", "refuse", "ask", "answer", "closing"}
    BY DEF Loops
  <1>2. JobOK(job')
    <2>1. CASE StartScan
      BY <2>1, <1>1, LoopStarts DEF StartScan
    <2>2. CASE StartDeployed
      <3> DEFINE of == [r \in Reports |-> IF r \in Due THEN bug[r].pr ELSE None]
      <3>1. of \in [Reports -> PRs \union {None}]
        BY Typed DEF BugRecords
      <3>2. job' = [At("deployed") EXCEPT !.todo = Due, !.of = of]
        BY <2>2, Zenon DEF StartDeployed
      <3>3. Due \subseteq Reports
        BY DEF Due, In
      <3> HIDE DEF of
      <3> QED
        BY <1>1, <3>1, <3>2, <3>3, LoopStarts
    <2>3. CASE StartFlush
      BY <2>3, BeginTyped DEF StartFlush
    <2>4. CASE StartChase
      <3>1. {r \in Waiting : bug[r].age = "quiet" /\ bug[r].chased = "no"} \subseteq Reports
        BY DEF Waiting, In
      <3> QED
        BY <2>4, <3>1, BeginTyped DEF StartChase
    <2>5. CASE StartDirect
      <3>1. {r \in In({"open", "deferred", "investigating"}) \intersect MasterFixes : bug[r].pr = None}
               \subseteq Reports
        BY DEF In
      <3> QED
        BY <2>5, <3>1, BeginTyped DEF StartDirect
    <2> QED
      BY <2>1, <2>2, <2>3, <2>4, <2>5
  <1> QED
    BY <1>2, Typed, FrameKeeps
       DEF StartScan, StartDeployed, StartFlush, StartChase, StartDirect, database

LEMMA LoadJob == JobOK(At("load")) /\ JobOK(At("work"))
  BY StartJob DEF JobOK, Loops

\* A report's record with the fields the passes of LOAD_STATE set.
LEMMA BugFields ==
    ASSUME TypeOK, NEW r \in Reports
    PROVE  /\ bug[r] \in BugRecords
           /\ \A s \in States : /\ [bug[r] EXCEPT !.state = s, !.why = "other"] \in BugRecords
                                /\ Because(bug[r], s, "other") \in BugRecords
                                /\ [Because(bug[r], s, "other") EXCEPT !.pr = None] \in BugRecords
                                /\ Upserted(bug[r], s, None) \in BugRecords
           /\ Reopened(bug[r]) \in BugRecords /\ Confirmed(bug[r]) \in BugRecords
           /\ Hold(bug[r]) \in BugRecords
           /\ \A c \in {"no", "sent", "late", "cannot"}, x \in BOOLEAN :
                 [bug[r] EXCEPT !.chased = c, !.since = x] \in BugRecords
           /\ [bug[r] EXCEPT !.chased = "cannot"] \in BugRecords
  <1>1. bug[r] \in BugRecords
    BY DEF TypeOK
  <1>2. "other" \in Deferrals /\ None \in PRs \union {None}
    BY DEF Deferrals
  <1>3. ASSUME NEW s \in States
        PROVE  /\ [bug[r] EXCEPT !.state = s, !.why = "other"] \in BugRecords
               /\ Because(bug[r], s, "other") \in BugRecords
               /\ [Because(bug[r], s, "other") EXCEPT !.pr = None] \in BugRecords
               /\ Upserted(bug[r], s, None) \in BugRecords
    <2>1. Because(bug[r], s, "other") \in BugRecords
      BY <1>1, <1>2, BugHelpers
    <2> QED
      BY <1>1, <1>2, <2>1, BugHelpers
  <1>4. Reopened(bug[r]) \in BugRecords /\ Confirmed(bug[r]) \in BugRecords /\ Hold(bug[r]) \in BugRecords
    BY <1>1, <1>2, BugHelpers DEF States
  <1>5. \A c \in {"no", "sent", "late", "cannot"}, x \in BOOLEAN :
           [bug[r] EXCEPT !.chased = c, !.since = x] \in BugRecords
    BY <1>1 DEF BugRecords
  <1>6. [bug[r] EXCEPT !.chased = "cannot"] \in BugRecords
    BY <1>1 DEF BugRecords
  <1> QED
    BY <1>1, <1>3, <1>4, <1>5, <1>6

LEMMA StateNames ==
    {"open", "fixed", "off-topic", "investigating", "deferred", "no-reply", "needs-detail", "question",
     "feature-request", "duplicate", "fix-queued", "confirmed"} \subseteq States
  BY DEF States

LEMMA SyncTyped ==
    ASSUME TypeOK, (\E p \in PRs : SyncPr(p)) \/ SyncClosed
    PROVE  TypeOK'
  <1>1. ASSUME NEW p \in PRs, SyncPr(p)
        PROVE  TypeOK'
    <2>1. pull' \in [PRs -> PullRecords]
      <3>1. \A q \in PullRecords, k \in {"OPEN", "MERGED", "CLOSED"}, d \in {"null", "pending_deploy", "deployed"} :
               [q EXCEPT !.known = k, !.deploy = d] \in PullRecords
        BY DEF PullRecords
      <3>2. Known(p) \in {"OPEN", "MERGED", "CLOSED"}
        BY DEF Known
      <3>3. pull[p] \in PullRecords /\ pull[p].deploy \in {"null", "pending_deploy", "deployed"}
        BY DEF TypeOK, PullRecords
      <3> DEFINE d == IF Known(p) = "MERGED" /\ pull[p].deploy = "null" THEN "pending_deploy" ELSE pull[p].deploy
                 q == [pull[p] EXCEPT !.known = Known(p), !.deploy = d]
      <3>4. q \in PullRecords
        BY <3>1, <3>2, <3>3
      <3>5. pull' = [pull EXCEPT ![p] = q]
        BY <1>1, Typed DEF SyncPr
      <3> QED
        BY <3>4, <3>5, Typed
    <2>2. JobOK(job')
      <3>1. Dropped(p) \in SUBSET Reports /\ p # None
        BY ReportAssumption DEF Dropped
      <3>2. JobOK([At("closing") EXCEPT !.p = p, !.todo = Dropped(p)])
        BY <3>1 DEF At, JobRecords, JobOK, Loops
      <3> QED
        BY <1>1, <3>2, TypeJob DEF SyncPr
    <2> QED
      BY <1>1, <2>1, <2>2, Typed, FrameKeeps DEF SyncPr
  <1>2. CASE SyncClosed
    <2>1. bug' \in [Reports -> BugRecords]
      <3>1. PICK wontfix \in BOOLEAN :
               bug' = [r \in Reports |->
                        IF r \notin job.todo THEN bug[r]
                        ELSE IF wontfix THEN [Because(bug[r], "deferred", "other") EXCEPT !.pr = None]
                        ELSE Reopened(bug[r])]
        BY <1>2 DEF SyncClosed
      <3>2. \A r \in Reports : bug'[r] \in BugRecords
        BY <3>1, BugFields, StateNames
      <3> QED
        BY <3>1, <3>2
    <2> QED
      BY <1>2, <2>1, LoadJob, Typed, FrameKeeps DEF SyncClosed
  <1> QED
    BY <1>1, <1>2

LEMMA EndsTyped ==
    ASSUME TypeOK, EndScan \/ EndDeployed \/ EndFlush \/ EndChase \/ EndDirect
    PROVE  TypeOK'
  <1>1. CASE EndScan
    <2>1. \A r \in Reports : /\ [bug EXCEPT ![r].state = "fixed", ![r].why = "other"] \in [Reports -> BugRecords]
                             /\ [bug EXCEPT ![r].state = "off-topic", ![r].why = "other"] \in [Reports -> BugRecords]
                             /\ [bug EXCEPT ![r].state = "investigating", ![r].why = "other"] \in [Reports -> BugRecords]
      <3> TAKE r \in Reports
      <3>1. \A s \in {"fixed", "off-topic", "investigating"} :
               [bug EXCEPT ![r] = [bug[r] EXCEPT !.state = s, !.why = "other"]] \in [Reports -> BugRecords]
        BY BugFields, BugsKept, StateNames
      <3>2. \A s \in {"fixed", "off-topic", "investigating"} :
               [bug EXCEPT ![r].state = s, ![r].why = "other"]
                  = [bug EXCEPT ![r] = [bug[r] EXCEPT !.state = s, !.why = "other"]]
        BY Typed
      <3> QED
        BY <3>1, <3>2
    <2>2. bug' \in [Reports -> BugRecords] /\ row' \in [Reports -> RowRecords]
      <3>1. CASE UNCHANGED <<bug, row>>
        BY <3>1, Typed
      <3>2. ASSUME NEW r \in job.kept,
                   bug' = [bug EXCEPT ![r].state = "fixed", ![r].why = "other"] /\ UNCHANGED row
            PROVE  bug' \in [Reports -> BugRecords] /\ row' \in [Reports -> RowRecords]
        BY <2>1, <3>2, Typed
      <3>3. ASSUME NEW r \in job.todo,
                   \/ bug' = [bug EXCEPT ![r].state = "off-topic", ![r].why = "other"] /\ row' = [row EXCEPT ![r] = Cancelled(@)]
                   \/ bug' = [bug EXCEPT ![r].state = "investigating", ![r].why = "other"] /\ UNCHANGED row
            PROVE  bug' \in [Reports -> BugRecords] /\ row' \in [Reports -> RowRecords]
        <4>1. r \in Reports
          BY Typed
        <4>2. bug' \in [Reports -> BugRecords]
          BY <2>1, <3>3, <4>1
        <4>3. row' \in [Reports -> RowRecords]
          BY <3>3, RowChanged
        <4> QED
          BY <4>2, <4>3
      <3> QED
        BY <1>1, <3>1, <3>2, <3>3 DEF EndScan
    <2> QED
      BY <1>1, <2>2, LoadJob, Typed, FrameKeeps DEF EndScan
  <1>2. CASE EndDeployed
    <2>1. pull' \in [PRs -> PullRecords]
      <3>1. \A p \in PRs : [pull[p] EXCEPT !.deploy = "pending_deploy"] \in PullRecords
        BY Typed DEF PullRecords
      <3> QED
        BY <1>2, <3>1, Typed DEF EndDeployed
    <2> QED
      BY <1>2, <2>1, LoadJob, Typed, FrameKeeps DEF EndDeployed
  <1>3. CASE EndFlush
    BY <1>3, LoadJob, Typed, FrameKeeps DEF EndFlush, database
  <1>4. CASE EndChase
    <2>1. bug' \in [Reports -> BugRecords]
      BY <1>4, BugFields, StateNames DEF EndChase
    <2> QED
      BY <1>4, <2>1, LoadJob, Typed, FrameKeeps DEF EndChase
  <1>5. CASE EndDirect
    BY <1>5, LoadJob, Typed, FrameKeeps DEF EndDirect, database
  <1> QED
    BY <1>1, <1>2, <1>3, <1>4, <1>5

\* One report of a loop: it is passed over, or its reply is posted.
LEMMA LoopStep ==
    ASSUME TypeOK, NEW r \in Reports, NEW S, job.at \notin {"opened", "refuse", "closing"},
           job' = Without(job, S) \/ Post(Without(job, S), r) \/ Post(job, r)
    PROVE  JobOK(job')
  <1>1. Without(job, S) \in JobRecords /\ job \in JobRecords
    BY Typed, JobHelpers DEF JobOK
  <1>2. Without(job, S).at = job.at
    BY Typed, JobHelpers
  <1> QED
    BY <1>1, <1>2, Typed, JobHelpers, PostKeeps

LEMMA MarkedTyped ==
    ASSUME TypeOK, NEW r \in Reports, MarkFixed(r)
    PROVE  bug' \in [Reports -> BugRecords]
  <1>1. [bug[r] EXCEPT !.state = "fixed", !.why = "other"] \in BugRecords
    BY BugFields, StateNames
  <1>2. bug' = [bug EXCEPT ![r] = [bug[r] EXCEPT !.state = "fixed", !.why = "other"]]
    BY Typed DEF MarkFixed
  <1> QED
    BY <1>1, <1>2, BugsKept

LEMMA LoopsTyped ==
    ASSUME TypeOK, NEW r \in Reports, Deployed(r) \/ Flush(r) \/ Chase(r) \/ Direct(r)
    PROVE  TypeOK'
  <1>1. CASE Deployed(r)
    <2>1. JobOK(job')
      BY <1>1, LoopStep DEF Deployed, Running
    <2>2. pull' \in [PRs -> PullRecords]
      <3>1. \A q \in PullRecords : [q EXCEPT !.deploy = "deployed"] \in PullRecords
        BY DEF PullRecords
      <3>2. PICK p \in PRs : pull' = [pull EXCEPT ![p].deploy = "deployed"] \/ UNCHANGED pull
        BY <1>1 DEF Deployed
      <3> QED
        BY <3>1, <3>2, Typed
    <2>3. owed' \subseteq Reports
      BY <1>1 DEF Deployed, TypeOK
    <2> QED
      BY <1>1, <2>1, <2>2, <2>3 DEF Deployed, TypeOK, JobOK, context, counts
  <1>2. CASE Flush(r)
    <2>1. JobOK(job')
      <3>1. SendDraft(Without(job, {r}), r) /\ job.at = "flush"
        BY <1>2 DEF Flush, Running
      <3> QED
        BY <3>1, LoopStep DEF SendDraft
    <2>2. row' \in [Reports -> RowRecords]
      <3>1. row' = [row EXCEPT ![r] = Cancelled(@)] \/ row' = row
        BY <1>2 DEF Flush, SendDraft
      <3> QED
        BY <3>1, RowChanged
    <2> QED
      BY <1>2, <2>1, <2>2, Typed, FrameKeeps DEF Flush
  <1>3. CASE Chase(r)
    <2>1. JobOK(job')
      BY <1>3, LoopStep DEF Chase, Running
    <2>2. bug' \in [Reports -> BugRecords] /\ faults' \in 0..MaxFaults
      BY <1>3, BugFields, FaultTyped, Typed DEF Chase
    <2> QED
      BY <1>3, <2>1, <2>2, Typed, FrameKeeps DEF Chase
  <1>4. CASE Direct(r)
    <2>1. JobOK(job')
      BY <1>4, LoopStep DEF Direct, Running
    <2>2. bug' \in [Reports -> BugRecords]
      BY <1>4, MarkedTyped, Typed DEF Direct
    <2> QED
      BY <1>4, <2>1, <2>2, Typed, FrameKeeps DEF Direct
  <1> QED
    BY <1>1, <1>2, <1>3, <1>4

LEMMA HeldTyped ==
    ASSUME TypeOK, NEW r
    PROVE  [bug EXCEPT ![r] = Hold(@)] \in [Reports -> BugRecords]
  <1>1. \A q \in Reports : Hold(bug[q]) \in BugRecords
    BY BugFields
  <1> QED
    BY <1>1, Typed

LEMMA DraftPosted ==
    ASSUME TypeOK, NEW r, NEW ok \in BOOLEAN, row' = IF ok THEN [row EXCEPT ![r] = Posted(@)] ELSE row
    PROVE  row' \in [Reports -> RowRecords]
  <1>1. row \in [Reports -> RowRecords]
    BY DEF TypeOK
  <1>2. [row EXCEPT ![r] = Posted(@)] \in [Reports -> RowRecords]
    BY RowsKept
  <1> QED
    BY <1>1, <1>2, Zenon

LEMMA AnsweredTyped ==
    ASSUME TypeOK, NEW ok \in BOOLEAN, Answered(ok)
    PROVE  TypeOK'
  <1>1. CASE AnsweredDeployed(ok)
    <2>1. Answer(ok) /\ Record(job.r, ok) /\ Frame /\ job.at = "deployed" /\ UNCHANGED <<bug, pull, said, replied>>
      BY <1>1 DEF AnsweredDeployed
    <2>2. JobOK(job')
      <3>1. JobOK(Back) /\ Back.at = "deployed" /\ Back.send = "no"
        BY <2>1, BackTyped
      <3>2. \A F \in SUBSET PRs : JobOK([Back EXCEPT !.failed = F])
        BY <3>1 DEF JobOK, JobRecords
      <3>3. Back.failed \in SUBSET PRs
        BY <3>1 DEF JobOK, JobRecords
      <3>4. Back.failed \union {p \in PRs : p = job.of[job.r]} \in SUBSET PRs
        BY <3>3
      <3>5. \/ job' = [Back EXCEPT !.failed = Back.failed]
            \/ job' = [Back EXCEPT !.failed = Back.failed \union {p \in PRs : p = job.of[job.r]}]
        BY <1>1 DEF AnsweredDeployed
      <3> QED
        BY <3>2, <3>3, <3>4, <3>5
    <2> QED
      BY <2>1, <2>2, AnswerTyped, RecordTyped, Typed, FrameKeeps
  <1>2. CASE AnsweredDraft(ok)
    <2>1. /\ Answer(ok) /\ Frame /\ job.at \in {"flush", "answer"} /\ UNCHANGED <<bug, pull, said, replied>>
          /\ row' = IF ok THEN [row EXCEPT ![job.r] = Posted(@)] ELSE row
          /\ job' = IF job.at = "flush" THEN Back ELSE At("work")
      BY <1>2 DEF AnsweredDraft
    <2>2. JobOK(job')
      BY <2>1, BackTyped, LoadJob
    <2>3. row' \in [Reports -> RowRecords]
      BY <2>1, DraftPosted
    <2> QED
      BY <2>1, <2>2, <2>3, AnswerTyped, Typed, FrameKeeps
  <1>3. CASE AnsweredChase(ok)
    <2>1. Answer(ok) /\ Record(job.r, ok) /\ Frame /\ job.at = "chase" /\ UNCHANGED <<pull, said>>
      BY <1>3 DEF AnsweredChase
    <2>2. JobOK(job')
      BY <1>3, <2>1, BackTyped, JobHelpers DEF AnsweredChase
    <2>3. bug' \in [Reports -> BugRecords]
      <3>1. \A r \in Reports : [bug[r] EXCEPT !.chased = "sent", !.since = FALSE] \in BugRecords
        BY BugFields
      <3>2. \A r \in Reports : bug[r] \in BugRecords
        BY Typed
      <3> QED
        BY <1>3, <3>1, <3>2 DEF AnsweredChase
    <2>4. replied' \subseteq Reports
      BY <1>3, Typed DEF AnsweredChase
    <2> QED
      BY <2>1, <2>2, <2>3, <2>4, AnswerTyped, RecordTyped, Typed, FrameKeeps
  <1>4. CASE AnsweredDirect(ok)
    <2>1. Answer(ok) /\ Record(job.r, ok) /\ Frame /\ job.at = "direct" /\ UNCHANGED <<pull, said, replied>>
      BY <1>4 DEF AnsweredDirect
    <2>2. JobOK(job')
      BY <1>4, <2>1, BackTyped DEF AnsweredDirect
    <2>3. bug' \in [Reports -> BugRecords]
      BY <1>4, <2>1, AnswerTyped, MarkedTyped, Typed DEF AnsweredDirect
    <2> QED
      BY <2>1, <2>2, <2>3, AnswerTyped, RecordTyped, Typed, FrameKeeps
  <1>5. CASE AnsweredTriage(ok) \/ AnsweredRecheck(ok)
    <2>1. /\ Answer(ok) /\ Record(job.r, ok) /\ Work /\ job.at \in {"triage", "route"} /\ job' = Back
          /\ bug' = [bug EXCEPT ![job.r] = Hold(@)] /\ UNCHANGED <<lap, done, tries, replied>>
      BY <1>5 DEF AnsweredTriage, AnsweredRecheck
    <2>2. JobOK(job') /\ bug' \in [Reports -> BugRecords]
      BY <2>1, BackTyped, HeldTyped
    <2> QED
      BY <2>1, <2>2, AnswerTyped, RecordTyped, Typed, WorkKeeps
  <1>6. CASE AnsweredAsk(ok) \/ AnsweredRefuse(ok)
    <2>1. /\ Answer(ok) /\ Record(job.r, ok) /\ Work /\ job' = At("work")
          /\ bug' = [bug EXCEPT ![job.r] = Hold(@)] \/ bug' = bug
          /\ UNCHANGED <<lap, done, tries, replied>>
      BY <1>6 DEF AnsweredAsk, AnsweredRefuse
    <2>2. JobOK(job') /\ bug' \in [Reports -> BugRecords]
      BY <2>1, LoadJob, HeldTyped, Typed
    <2> QED
      BY <2>1, <2>2, AnswerTyped, RecordTyped, Typed, WorkKeeps
  <1> QED
    BY <1>1, <1>2, <1>3, <1>4, <1>5, <1>6 DEF Answered

-------------------------------------------------------------------------------
(* The types, at work *)

LEMMA VerdictNames ==
    ASSUME NEW r
    PROVE  /\ Verdict(r) \in {"works", "reopen", "skip", "feature", "release", "again", "link", "duplicate",
                              "deferred", "regression", "question", "unjudged", "vague", "open"}
           /\ Verdict(r) = "link" => Linkable(r) # {}
  BY DEF Verdict

\* The report a reporter's answer is noted against is one of the reports.
LEMMA AskedInReports ==
    ASSUME TypeOK, NEW r \in Reports, Adds(r)
    PROVE  Max(Asked(r)) \in Reports
  <1>1. Asked(r) \subseteq Reports /\ Asked(r) # {} /\ \A q \in Asked(r) : q < r
    BY DEF Asked, Earlier, Waiting, In, Adds
  <1>2. Reports \subseteq Nat
    BY ReportAssumption
  <1>3. Max(Asked(r)) \in Asked(r)
    <2>1. Asked(r) \subseteq Nat /\ r \in Nat
      BY <1>1, <1>2
    <2>2. \A q \in Asked(r) : q <= r
      BY <1>1, <2>1
    <2> QED
      BY <1>1, <2>1, <2>2, MaxExists
  <1> QED
    BY <1>1, <1>3

\* What is noted of a reporter's answer, and what triage then makes of a report.
LEMMA NotedTyped ==
    ASSUME TypeOK, NEW r \in Reports
    PROVE  Noted(r) \in [Reports -> BugRecords]
  <1>1. \A q \in Reports : Heard(bug[q]) \in BugRecords
    <2> TAKE q \in Reports
    <2>1. Seen(bug[q]) \in BugRecords
      BY Typed, BugHelpers DEF States, Deferrals
    <2> QED
      BY <2>1 DEF Heard, BugRecords
  <1> QED
    BY <1>1, Typed DEF Noted

LEMMA PrOfMin ==
    ASSUME TypeOK, NEW S, S \subseteq Reports, S # {}
    PROVE  bug[Min(S)].pr \in PRs \union {None}
  <1>1. S \subseteq Nat
    BY ReportAssumption
  <1>2. Min(S) \in Reports
    BY <1>1, MinExists
  <1> QED
    BY <1>2, Typed DEF BugRecords

LEMMA ChangedTyped ==
    ASSUME NEW b \in [Reports -> BugRecords], NEW r, NEW s \in States, NEW p \in PRs \union {None}
    PROVE  /\ [b EXCEPT ![r] = Confirmed(@)] \in [Reports -> BugRecords]
           /\ [b EXCEPT ![r] = Seen(@)] \in [Reports -> BugRecords]
           /\ [b EXCEPT ![r] = Hold(@)] \in [Reports -> BugRecords]
           /\ [b EXCEPT ![r] = Upserted(@, s, p)] \in [Reports -> BugRecords]
           /\ [b EXCEPT ![r] = Upserted([@ EXCEPT !.why = "other"], s, p)] \in [Reports -> BugRecords]
           /\ [b EXCEPT ![r] = Because(@, s, "other")] \in [Reports -> BugRecords]
           /\ [b EXCEPT ![r] = [@ EXCEPT !.state = s, !.why = "other"]] \in [Reports -> BugRecords]
           /\ \A q \in Reports : Seen([b[q] EXCEPT !.state = s, !.why = "other"]) \in BugRecords
  <1>1. "other" \in Deferrals
    BY DEF Deferrals
  <1>2. ASSUME NEW c \in BugRecords
        PROVE  /\ Confirmed(c) \in BugRecords /\ Seen(c) \in BugRecords /\ Hold(c) \in BugRecords
               /\ Upserted(c, s, p) \in BugRecords /\ Because(c, s, "other") \in BugRecords
               /\ [c EXCEPT !.state = s, !.why = "other"] \in BugRecords
               /\ Upserted([c EXCEPT !.why = "other"], s, p) \in BugRecords
               /\ Seen([c EXCEPT !.state = s, !.why = "other"]) \in BugRecords
    <2>1. [c EXCEPT !.why = "other"] \in BugRecords /\ [c EXCEPT !.state = s, !.why = "other"] \in BugRecords
      BY <1>1, BugHelpers
    <2> QED
      BY <1>1, <2>1, BugHelpers
  <1>3. [b EXCEPT ![r] = Confirmed(@)] \in [Reports -> BugRecords]
    BY <1>2
  <1>4. [b EXCEPT ![r] = Seen(@)] \in [Reports -> BugRecords]
    BY <1>2
  <1>5. [b EXCEPT ![r] = Hold(@)] \in [Reports -> BugRecords]
    BY <1>2
  <1>6. [b EXCEPT ![r] = Upserted(@, s, p)] \in [Reports -> BugRecords]
    BY <1>2
  <1>7. [b EXCEPT ![r] = Upserted([@ EXCEPT !.why = "other"], s, p)] \in [Reports -> BugRecords]
    BY <1>2
  <1>8. [b EXCEPT ![r] = Because(@, s, "other")] \in [Reports -> BugRecords]
    BY <1>2
  <1>9. [b EXCEPT ![r] = [@ EXCEPT !.state = s, !.why = "other"]] \in [Reports -> BugRecords]
    BY <1>2
  <1>10. \A q \in Reports : Seen([b[q] EXCEPT !.state = s, !.why = "other"]) \in BugRecords
    BY <1>2
  <1> QED
    BY <1>3, <1>4, <1>5, <1>6, <1>7, <1>8, <1>9, <1>10

LEMMA FiledTyped ==
    ASSUME TypeOK, NEW r \in Reports, NEW b \in [Reports -> BugRecords]
    PROVE  Filed(r, Verdict(r), b) \in [Reports -> BugRecords]
  <1> DEFINE v == Verdict(r)
             F == [Reports -> BugRecords]
  <1>1. bug \in F
    BY Typed
  <1>2. None \in PRs \union {None}
    OBVIOUS
  <1>3. CASE v = "works"
    BY <1>1, <1>2, <1>3, ChangedTyped, StateNames DEF Filed
  <1>4. CASE v = "reopen"
    BY <1>2, <1>4, ChangedTyped, StateNames DEF Filed
  <1>5. CASE v = "skip"
    BY <1>5 DEF Filed
  <1>6. CASE v = "feature"
    BY <1>2, <1>6, ChangedTyped, StateNames DEF Filed
  <1>7. CASE v = "release"
    BY <1>2, <1>7, ChangedTyped, StateNames DEF Filed
  <1>8. CASE v = "again"
    BY <1>2, <1>8, ChangedTyped, StateNames DEF Filed
  <1>9. CASE v = "link"
    <2>1. Linkable(r) # {} /\ Linkable(r) \subseteq Reports
      BY <1>9, VerdictNames DEF Linkable, In
    <2>2. bug[Min(Linkable(r))].pr \in PRs \union {None}
      BY <2>1, PrOfMin
    <2> QED
      BY <1>9, <2>2, ChangedTyped, StateNames DEF Filed
  <1>10. CASE v = "duplicate"
    <2>1. Twins(r) \subseteq Reports
      BY DEF Twins, In
    <2>2. (IF Twins(r) = {} THEN None ELSE bug[Min(Twins(r))].pr) \in PRs \union {None}
      BY <2>1, PrOfMin
    <2> QED
      BY <1>10, <2>2, ChangedTyped, StateNames DEF Filed
  <1>11. CASE v \in {"deferred", "regression"}
    BY <1>2, <1>11, ChangedTyped, StateNames DEF Filed
  <1>12. CASE v = "question"
    BY <1>2, <1>12, ChangedTyped, StateNames DEF Filed
  <1>13. CASE v \in {"unjudged", "vague"}
    BY <1>2, <1>13, ChangedTyped, StateNames DEF Filed
  <1>14. CASE v = "open"
    BY <1>2, <1>14, ChangedTyped, StateNames DEF Filed
  <1> QED
    BY <1>3, <1>4, <1>5, <1>6, <1>7, <1>8, <1>9, <1>10, <1>11, <1>12, <1>13, <1>14, VerdictNames

LEMMA TriageTyped ==
    ASSUME TypeOK, NEW r \in Reports, Triage(r)
    PROVE  TypeOK'
  <1>1. replied' \subseteq Reports
    BY AskedInReports, Typed DEF Triage
  <1>2. row' \in [Reports -> RowRecords]
    BY RowChanged DEF Triage
  <1>3. bug' \in [Reports -> BugRecords]
    BY NotedTyped, FiledTyped DEF Triage
  <1>4. JobOK(job')
    BY LoopStep DEF Triage, Running, Ask
  <1> QED
    BY <1>1, <1>2, <1>3, <1>4, Typed, WorkKeeps DEF Triage

LEMMA LapTyped ==
    ASSUME TypeOK, Fetch \/ StartRouter \/ Decide \/ Dispatch \/ LapEnd
    PROVE  TypeOK'
  <1>1. CASE Fetch
    <2>1. PICK new \in SUBSET {r \in Reports : class[r] = None} :
             /\ \E c \in [new -> Classes] : class' = [r \in Reports |-> IF r \in new THEN c[r] ELSE class[r]]
             /\ lap' = new
      BY <1>1 DEF Fetch
    <2>2. PICK c \in [new -> Classes] : class' = [r \in Reports |-> IF r \in new THEN c[r] ELSE class[r]]
      BY <2>1
    <2>3. \A r \in new : c[r] \in ClassSet /\ c[r] # None
      BY <2>2, ReportAssumption
    <2>4. \A r \in Reports : class[r] \in ClassSet \union {None}
      BY DEF TypeOK
    <2>5. class' \in [Reports -> ClassSet \union {None}]
      BY <2>2, <2>3, <2>4
    <2>6. lap' \subseteq Reports /\ \A r \in lap' : class'[r] # None
      BY <2>1, <2>2, <2>3
    <2>7. JobOK(job')
      BY <1>1, LoadJob DEF Fetch
    <2> QED
      BY <1>1, <2>5, <2>6, <2>7 DEF Fetch, TypeOK, JobOK, database, ghosts, counts
  <1>2. CASE StartRouter
    <2>1. JobOK(job')
      <3>1. "triage" \in Loops \ {"fix", "opened", "refuse", "ask", "answer", "closing"}
        BY DEF Loops
      <3> QED
        BY <1>2, <3>1, LoopStarts, Typed DEF StartRouter
    <2> QED
      BY <1>2, <2>1, Typed, WorkKeeps DEF StartRouter, database
  <1>3. CASE Decide
    <2>1. bug' \in [Reports -> BugRecords]
      <3>1. PICK live \in BOOLEAN :
               bug' = [r \in Reports |->
                    LET b == IF live /\ Unreadable(r) THEN CameBack(bug[r]) ELSE Deferred(r) IN
                    IF r \in Handled THEN b ELSE Escalated(b)]
        BY <1>3 DEF Decide
      <3>2. ASSUME NEW r \in Reports
            PROVE  Deferred(r) \in BugRecords
        <4>1. bug[r] \in BugRecords
          BY Typed
        <4>2. done[r] \in {"detail", "unreach", "other"} => done[r] \in Deferrals
          BY DEF Deferrals
        <4> QED
          BY <4>1, <4>2, BugHelpers, StateNames DEF Deferred
      <3>3. ASSUME NEW r \in Reports
            PROVE  LET b == IF live /\ Unreadable(r) THEN CameBack(bug[r]) ELSE Deferred(r) IN
                   b \in BugRecords /\ Escalated(b) \in BugRecords
        <4>1. CameBack(bug[r]) \in BugRecords
          BY Typed, BugHelpers DEF States, Deferrals
        <4>2. \A b \in BugRecords : Escalated(b) \in BugRecords
          BY BugHelpers DEF States, Deferrals
        <4> QED
          BY <3>2, <4>1, <4>2
      <3>4. \A r \in Reports : bug'[r] \in BugRecords
        BY <3>1, <3>3
      <3> QED
        BY <3>1, <3>4
    <2>2. JobOK(job')
      <3>1. Offered' \ lap \in SUBSET Reports /\ Offered' \intersect lap \in SUBSET Reports
        <4>1. lap' = lap
          BY <1>3 DEF Decide
        <4> QED
          BY <4>1, Typed DEF Offered, Fresh, Backlog, In
      <3>2. "route" \in Loops \ {"fix", "opened", "refuse", "ask", "answer", "closing"}
        BY DEF Loops
      <3> QED
        <4> DEFINE j(S, K) == [At("route") EXCEPT !.todo = S, !.kept = K]
        <4>1. \A S, K \in SUBSET Reports : JobOK(j(S, K))
          BY <3>2, LoopStarts
        <4>2. job' = At("work") \/ job' = j(Offered' \ lap, Offered' \intersect lap)
          BY <1>3 DEF Decide
        <4> HIDE DEF j
        <4> QED
          BY <3>1, <4>1, <4>2, LoadJob
    <2> QED
      BY <1>3, <2>1, <2>2, Typed, WorkKeeps DEF Decide
  <1>4. CASE Dispatch
    <2>1. JobOK(job')
      <3> DEFINE old == job.kept \ lap
      <3>1. job.kept \subseteq Nat
        BY Typed, ReportAssumption
      <3>2. job.kept # {} => Min(job.kept) \in Reports
        BY <3>1, MinExists, Typed
      <3>3. old # {} => Min(old) \in Reports
        <4>1. old \subseteq Nat /\ old \subseteq Reports
          BY <3>1, Typed
        <4> QED
          BY <4>1, MinExists
      <3>4. \A r \in Reports : JobOK([At("fix") EXCEPT !.r = r])
        BY ReportAssumption DEF At, JobRecords, JobOK, Loops
      <3> QED
        BY <1>4, <3>2, <3>3, <3>4, LoadJob DEF Dispatch
    <2> QED
      BY <1>4, <2>1, Typed, WorkKeeps DEF Dispatch, database
  <1>5. CASE LapEnd
    <2>1. bug' \in [Reports -> BugRecords]
      BY <1>5, RenderedTyped DEF LapEnd
    <2>2. JobOK(job')
      BY <1>5, LoadJob DEF LapEnd
    <2> QED
      BY <1>5, <2>1, <2>2, ForgetTyped DEF LapEnd, TypeOK, JobOK, ghosts, counts
  <1> QED
    BY <1>1, <1>2, <1>3, <1>4, <1>5

\* A job that posts for the report in hand, or goes on with another step of its task.
LEMMA TaskPosts ==
    ASSUME TypeOK, NEW r \in Reports, NEW l \in {"answer", "ask"}, Post(At(l), r)
    PROVE  JobOK(job')
  <1>1. At(l) \in JobRecords /\ At(l).at = l
    BY StartJob DEF Loops
  <1> QED
    BY <1>1, PostKeeps

LEMMA TasksTyped ==
    ASSUME TypeOK,
           \/ \E r \in Reports : AnswerQuestion(r) \/ Recheck(r)
           \/ TaskDeferred \/ LoopBreaker \/ TaskAsks \/ OpenPr \/ CreatePr \/ RefusePr
    PROVE  TypeOK'
  <1>1. ASSUME NEW r \in Reports, AnswerQuestion(r)
        PROVE  TypeOK'
    <2>1. CASE bug' = [bug EXCEPT ![r] = Because(@, "deferred", "other")] /\ UNCHANGED <<job, row>>
      <3>1. bug' \in [Reports -> BugRecords]
        BY <2>1, Typed, ChangedTyped, StateNames
      <3> QED
        BY <1>1, <2>1, <3>1, Typed, WorkKeeps DEF AnswerQuestion
    <2>2. CASE row' = [row EXCEPT ![r].pending = TRUE] /\ Post(At("answer"), r) /\ UNCHANGED bug
      <3>1. row' \in [Reports -> RowRecords]
        BY <2>2, RowsKept
      <3> QED
        BY <1>1, <2>2, <3>1, TaskPosts, Typed, WorkKeeps DEF AnswerQuestion
    <2> QED
      BY <1>1, <2>1, <2>2 DEF AnswerQuestion
  <1>2. ASSUME NEW r \in Reports, Recheck(r)
        PROVE  TypeOK'
    <2>1. JobOK(job')
      <3>1. JobOK([Without(job, {r}) EXCEPT !.kept = @ \union {r}])
        <4> DEFINE w == Without(job, {r})
        <4>1. JobOK(w) /\ w \in JobRecords
          BY Typed, JobHelpers DEF JobOK
        <4> HIDE DEF w
        <4>2. \A K \in SUBSET Reports : JobOK([w EXCEPT !.kept = K])
          BY <4>1 DEF JobOK, JobRecords
        <4>3. w.kept \union {r} \in SUBSET Reports
          BY <4>1 DEF JobRecords
        <4>4. JobOK([w EXCEPT !.kept = @ \union {r}])
          BY <4>2, <4>3
        <4> QED
          BY <4>4 DEF w
      <3> QED
        BY <1>2, <3>1, LoopStep DEF Recheck, Running, Ask
    <2>2. bug' \in [Reports -> BugRecords]
      BY <1>2, HeldTyped, Typed DEF Recheck
    <2>3. faults' \in 0..MaxFaults
      <3>1. Fault("fetch") \/ faults' = faults
        BY <1>2 DEF Recheck
      <3> QED
        BY <3>1, FaultTyped, Typed
    <2> QED
      BY <1>2, <2>1, <2>2, <2>3, Typed, WorkKeeps DEF Recheck
  <1>3. \A r, o : o \in Outcomes => [done EXCEPT ![r] = o] \in [Reports -> Outcomes]
    BY Typed
  <1>4. {"other", "unreach", "retry", "detail", "pr"} \subseteq Outcomes
    BY DEF Outcomes
  <1>5. CASE TaskDeferred
    <2>1. done' \in [Reports -> Outcomes]
      BY <1>3, <1>4, <1>5 DEF TaskDeferred
    <2> QED
      BY <1>5, <2>1, LoadJob, Typed, WorkKeeps DEF TaskDeferred, database
  <1>6. CASE LoopBreaker
    <2>1. done' \in [Reports -> Outcomes]
      BY <1>3, <1>4, <1>6 DEF LoopBreaker
    <2>2. bug' \in [Reports -> BugRecords]
      <3>1. \A r \in Reports : [bug[r] EXCEPT !.state = "deferred", !.why = "other"] \in BugRecords
        BY BugFields, StateNames
      <3>2. \/ bug' = bug
            \/ bug' = [bug EXCEPT ![job.r] = [@ EXCEPT !.state = "deferred", !.why = "other"]]
        BY <1>6, Typed DEF LoopBreaker
      <3>3. job.r \in Reports
        BY <1>6, Typed DEF LoopBreaker, Running, JobOK, JobRecords
      <3> QED
        BY <3>1, <3>2, <3>3, BugsKept, Typed
    <2> QED
      BY <1>6, <2>1, <2>2, LoadJob, Typed, WorkKeeps DEF LoopBreaker
  <1>7. CASE TaskAsks
    <2>1. done' = [done EXCEPT ![job.r] = "detail"]
      BY <1>7 DEF TaskAsks
    <2>2. bug' = [bug EXCEPT ![job.r] = Hold(@)] \/ bug' = bug
      BY <1>7 DEF TaskAsks
    <2>3. Post(At("ask"), job.r) \/ job' = At("work")
      BY <1>7 DEF TaskAsks, Ask
    <2>4. job.r \in Reports
      BY <1>7, Typed DEF TaskAsks, Running, JobOK, JobRecords
    <2>5. JobOK(job')
      BY <2>3, <2>4, TaskPosts, LoadJob
    <2>6. bug' \in [Reports -> BugRecords] /\ done' \in [Reports -> Outcomes]
      BY <1>3, <1>4, <2>1, <2>2, HeldTyped, Typed
    <2> QED
      BY <1>7, <2>5, <2>6, Typed, WorkKeeps DEF TaskAsks
  <1>8. CASE OpenPr
    <2>1. PICK p \in PRs : /\ pull' = [pull EXCEPT ![p].gh = "open"]
                           /\ job' = [job EXCEPT !.at = "opened", !.p = p]
      BY <1>8 DEF OpenPr
    <2>2. pull' \in [PRs -> PullRecords]
      <3>1. \A q \in PullRecords : [q EXCEPT !.gh = "open"] \in PullRecords
        BY DEF PullRecords
      <3> QED
        BY <2>1, <3>1, Typed
    <2>3. JobOK(job')
      <3>1. p # None
        BY ReportAssumption
      <3> QED
        BY <1>8, <2>1, <3>1, Typed DEF OpenPr, Running, JobOK, JobRecords, Loops
    <2> QED
      BY <1>8, <2>2, <2>3 DEF OpenPr, TypeOK, JobOK, context, ghosts, counts
  <1>9. CASE CreatePr
    <2>1. job.p \in PRs
      BY <1>9, Typed DEF CreatePr, Running, JobOK, JobRecords
    <2>2. bug' \in [Reports -> BugRecords]
      BY <1>9, <2>1, Typed, ChangedTyped, StateNames DEF CreatePr
    <2>3. done' \in [Reports -> Outcomes] /\ tries' \in [Reports -> Nat]
      BY <1>3, <1>4, <1>9, Counted, Typed DEF CreatePr
    <2> QED
      BY <1>9, <2>2, <2>3, LoadJob, Typed, WorkKeeps DEF CreatePr
  <1>10. CASE RefusePr
    <2>1. pull' \in [PRs -> PullRecords]
      <3>1. \A q \in PullRecords : [q EXCEPT !.gh = "closed"] \in PullRecords
        BY DEF PullRecords
      <3> QED
        BY <1>10, <3>1, Typed DEF RefusePr
    <2>2. done' \in [Reports -> Outcomes]
      BY <1>3, <1>4, <1>10 DEF RefusePr
    <2>3. job.r \in Reports /\ job.p # None /\ job \in JobRecords
      BY <1>10, Typed DEF RefusePr, Running, JobOK, JobRecords
    <2>4. JobOK(job')
      <3>1. /\ [job EXCEPT !.at = "refuse"] \in JobRecords
            /\ [job EXCEPT !.at = "refuse"].p = job.p
        BY <2>3 DEF JobRecords, Loops
      <3> QED
        BY <1>10, <2>3, <3>1, PostKeeps, LoadJob DEF RefusePr, Ask
    <2>5. bug' \in [Reports -> BugRecords]
      BY <1>10, HeldTyped, Typed DEF RefusePr
    <2> QED
      BY <1>10, <2>1, <2>2, <2>4, <2>5 DEF RefusePr, TypeOK, JobOK, ghosts, counts
  <1> QED
    BY <1>1, <1>2, <1>5, <1>6, <1>7, <1>8, <1>9, <1>10

LEMMA StepTyped == TypeOK /\ [Next]_vars => TypeOK'
  <1> SUFFICES ASSUME TypeOK, [Next]_vars PROVE TypeOK'
    OBVIOUS
  <1>1. CASE LoadState
    BY <1>1, SyncTyped, StartsTyped, EndsTyped, LoopsTyped DEF LoadState
  <1>2. CASE Lap
    BY <1>2, TriageTyped, LapTyped, TasksTyped DEF Lap
  <1>3. CASE UNCHANGED vars
    BY <1>3 DEF vars, database, context, ghosts, counts, TypeOK
  <1> QED
    BY <1>1, <1>2, <1>3, PeopleTyped, StoreTyped, CrashTyped, AnsweredTyped DEF Next

-------------------------------------------------------------------------------
(* What the monitor goes on with *)

LEMMA JobShapes ==
    /\ \A l : /\ At(l).at = l /\ At(l).todo = {} /\ At(l).kept = {} /\ At(l).r = None
    /\ \A l, S : LET j == [At(l) EXCEPT !.todo = S] IN
          j.at = l /\ j.todo = S /\ j.kept = {} /\ j.r = None
    /\ \A l, S, K : LET j == [At(l) EXCEPT !.todo = S, !.kept = K] IN
          j.at = l /\ j.todo = S /\ j.kept = K /\ j.r = None
    /\ \A l, S, f : LET j == [At(l) EXCEPT !.todo = S, !.of = f] IN
          j.at = l /\ j.todo = S /\ j.kept = {} /\ j.r = None
    /\ \A l, S, p : LET j == [At(l) EXCEPT !.p = p, !.todo = S] IN
          j.at = l /\ j.p = p /\ j.todo = S /\ j.kept = {} /\ j.r = None
    /\ \A l, r : LET j == [At(l) EXCEPT !.r = r] IN
          j.at = l /\ j.todo = {} /\ j.kept = {} /\ j.r = r
  BY DEF At

LEMMA WithoutShape ==
    ASSUME TypeOK, NEW S
    PROVE  LET j == Without(job, S) IN
           /\ j.at = job.at /\ j.todo = job.todo \ S /\ j.kept = job.kept /\ j.r = job.r
           /\ j \in JobRecords
  BY Typed DEF Without, JobRecords

LEMMA BackShape ==
    ASSUME TypeOK
    PROVE  /\ Back.at = job.at /\ Back.todo = job.todo /\ Back.kept = job.kept /\ Back.r = None
           /\ Back \in JobRecords
  BY Typed DEF Back, JobRecords

LEMMA PostShape ==
    ASSUME NEW l \in JobRecords, NEW q, Post(l, q)
    PROVE  job'.at = l.at /\ job'.todo = l.todo /\ job'.kept = l.kept /\ job'.r = q
  BY DEF Post, JobRecords

\* Triage and the batch leave LOAD_STATE alone.
LEMMA LapAt ==
    ASSUME TypeOK, Lap
    PROVE  job' = At("load") \/ job'.at \in {"work", "triage", "route", "fix", "opened", "ask", "refuse", "answer"}
  <1>1. CASE Fetch \/ LapEnd \/ TaskDeferred \/ LoopBreaker \/ CreatePr
    BY <1>1, JobShapes DEF Fetch, LapEnd, TaskDeferred, LoopBreaker, CreatePr
  <1>2. CASE StartRouter
    BY <1>2, JobShapes DEF StartRouter
  <1>3. CASE Decide
    <2>1. job' = At("work") \/ \E S, K : job' = [At("route") EXCEPT !.todo = S, !.kept = K]
      BY <1>3 DEF Decide
    <2>2. ASSUME NEW S, NEW K, job' = [At("route") EXCEPT !.todo = S, !.kept = K]
          PROVE  job'.at = "route"
      BY <2>2 DEF At
    <2>3. At("work").at = "work"
      BY JobShapes
    <2> QED
      BY <2>1, <2>2, <2>3, Zenon
  <1>4. CASE Dispatch
    <2>1. job' = At("work") \/ \E r : job' = [At("fix") EXCEPT !.r = r]
      BY <1>4 DEF Dispatch
    <2>2. ASSUME NEW r, job' = [At("fix") EXCEPT !.r = r]
          PROVE  job'.at = "fix"
      BY <2>2 DEF At
    <2>3. At("work").at = "work"
      BY JobShapes
    <2> QED
      BY <2>1, <2>2, <2>3, Zenon
  <1>5. ASSUME NEW q \in Reports, Triage(q) \/ Recheck(q)
        PROVE  job'.at \in {"triage", "route"}
    <2>1. /\ job.at \in {"triage", "route"}
          /\ \/ job' = [Without(job, {q}) EXCEPT !.kept = @ \union {q}]
             \/ job' = Without(job, {q}) \/ Post(Without(job, {q}), q)
      <3>1. CASE Triage(q)
        BY <1>5, <3>1 DEF Triage, Ask, Running
      <3>2. CASE Recheck(q)
        BY <1>5, <3>2 DEF Recheck, Ask, Running
      <3> QED
        BY <1>5, <3>1, <3>2
    <2>2. Without(job, {q}) \in JobRecords /\ Without(job, {q}).at = job.at
      BY WithoutShape
    <2>3. CASE job' = [Without(job, {q}) EXCEPT !.kept = @ \union {q}]
      <3>1. \A j \in JobRecords : [j EXCEPT !.kept = @ \union {q}].at = j.at
        BY DEF JobRecords
      <3> QED
        BY <2>1, <2>2, <2>3, <3>1
    <2>4. CASE job' = Without(job, {q}) \/ Post(Without(job, {q}), q)
      BY <2>1, <2>2, <2>4, PostShape
    <2> QED
      BY <2>1, <2>3, <2>4
  <1>6. ASSUME NEW q \in Reports, AnswerQuestion(q)
        PROVE  job'.at \in {"work", "answer"}
    <2>1. job.at = "work" /\ (job' = job \/ Post(At("answer"), q))
      BY <1>6 DEF AnswerQuestion, Running
    <2>2. At("answer") \in JobRecords /\ At("answer").at = "answer"
      BY StartJob DEF Loops
    <2> QED
      BY <2>1, <2>2, PostShape
  <1>7. CASE TaskAsks
    <2>1. job' = At("work") \/ Post(At("ask"), job.r)
      BY <1>7 DEF TaskAsks, Ask
    <2>2. At("ask") \in JobRecords /\ At("ask").at = "ask"
      BY StartJob DEF Loops
    <2> QED
      BY <2>1, <2>2, JobShapes, PostShape
  <1>8. CASE OpenPr
    <2>1. \E p \in PRs : job' = [job EXCEPT !.at = "opened", !.p = p]
      BY <1>8 DEF OpenPr
    <2> QED
      BY <2>1, Typed DEF JobRecords
  <1>9. CASE RefusePr
    <2> DEFINE j == [job EXCEPT !.at = "refuse"]
    <2>1. job' = At("work") \/ Post(j, job.r)
      BY <1>9 DEF RefusePr, Ask
    <2>2. j \in JobRecords /\ j.at = "refuse"
      BY Typed DEF JobRecords, Loops
    <2> HIDE DEF j
    <2> QED
      BY <2>1, <2>2, JobShapes, PostShape
  <1> QED
    BY <1>1, <1>2, <1>3, <1>4, <1>5, <1>6, <1>7, <1>8, <1>9 DEF Lap

-------------------------------------------------------------------------------
(* One reply per report: the account of what was said *)

\* The monitor has a reply to report r out, or half out.
Sending(r) == job.send # "no" /\ job.at # "chase" /\ job.r = r
\* The replies it knows of: while one is out, that one if the forum has it, and else what is
\* written down.  A reply is only begun when none is written down, or what is was excused.
Replies(r) == IF Sending(r) THEN IF job.send = "stored" THEN 1 ELSE 0
              ELSE IF row[r].posted THEN 1 ELSE 0
Accounted == \A r \in Reports : said[r] <= excused[r] + Replies(r)

\* A draft that has been sent waits no more; if it is on the list of a flush all the same, a
\* person sent it behind the flush's back, and sending it again says what is excused already.
Sent(r) == row[r].posted /\ row[r].own
Drafts ==
    /\ \A r \in Reports : Sent(r) => ~row[r].pending
    /\ job.at = "flush" =>
          /\ \A r \in job.todo : Sent(r) => said[r] <= excused[r]
          /\ job.send # "no" => job.r \notin job.todo

\* What is written down stays written down.
KeepsPosted == \A r \in Reports : row[r].posted => row'[r].posted

LEMMA Quiet ==
    ASSUME TypeOK, Accounted, KeepsPosted, said' = said, excused' = excused,
           \/ job'.send = job.send /\ job'.at = job.at /\ job'.r = job.r
           \/ job.send = "no" /\ job'.send = "no"
    PROVE  Accounted'
  BY DEF Accounted, KeepsPosted, TypeOK, Sending, Replies

LEMMA Sends ==
    ASSUME TypeOK, Accounted, KeepsPosted, said' = said, excused' = excused,
           NEW r \in Reports, job.send = "no", job'.send = "sent", job'.r = r,
           job'.at = "chase" \/ ~row[r].posted \/ said[r] <= excused[r]
    PROVE  Accounted'
  BY DEF Accounted, KeepsPosted, TypeOK, Sending, Replies

LEMMA Answers ==
    ASSUME TypeOK, Accounted, KeepsPosted, said' = said,
           NEW ok \in BOOLEAN, Answer(ok), job'.send = "no",
           ok => row'[job.r].posted
    PROVE  Accounted'
  <1>1. job.r \in Reports /\ excused \in [Reports -> Nat] /\ said \in [Reports -> Nat]
    BY AnswerTyped, Typed
  <1>2. CASE ok
    <2>1. job.send = "stored" /\ excused' = excused
      BY <1>2 DEF Answer
    <2> QED
      BY <1>1, <1>2, <2>1 DEF Accounted, KeepsPosted, Sending, Replies
  <1>3. CASE ~ok /\ job.send = "sent"
    <2>1. excused' = excused
      BY <1>3 DEF Answer
    <2> QED
      BY <1>1, <1>3, <2>1 DEF Accounted, KeepsPosted, Sending, Replies
  <1>4. CASE ~ok /\ job.send = "stored"
    <2>1. excused' = IF job.at = "chase" THEN excused ELSE [excused EXCEPT ![job.r] = @ + 1]
      BY <1>4 DEF Answer
    <2>2. \A r \in Reports : excused'[r] = IF job.at # "chase" /\ r = job.r THEN excused[r] + 1 ELSE excused[r]
      BY <1>1, <2>1
    <2> QED
      BY <1>1, <1>4, <2>2 DEF Accounted, KeepsPosted, Sending, Replies
  <1> QED
    BY <1>2, <1>3, <1>4 DEF Answer

\* How the rows of drafts change.
LEMMA PostedKept ==
    ASSUME TypeOK, NEW r,
           \/ row' = row
           \/ row' = [row EXCEPT ![r] = Cancelled(@)]
           \/ row' = [row EXCEPT ![r].pending = TRUE]
           \/ row' = [row EXCEPT ![r].posted = TRUE, ![r].own = FALSE]
           \/ row' = [row EXCEPT ![r] = Posted(@)]
    PROVE  KeepsPosted
  <1>1. \A q \in Reports : row[q] \in RowRecords
    BY Typed
  <1>2. CASE row' = row
    BY <1>2 DEF KeepsPosted
  <1>3. CASE row' = [row EXCEPT ![r] = Cancelled(@)]
    BY <1>1, <1>3, Typed, RowHelpers DEF KeepsPosted
  <1>4. CASE row' = [row EXCEPT ![r].pending = TRUE]
    BY <1>4, Typed DEF KeepsPosted, RowRecords
  <1>5. CASE row' = [row EXCEPT ![r].posted = TRUE, ![r].own = FALSE]
    BY <1>5, Typed DEF KeepsPosted, RowRecords
  <1>6. CASE row' = [row EXCEPT ![r] = Posted(@)]
    BY <1>1, <1>6, Typed, RowHelpers DEF KeepsPosted
  <1> QED
    BY <1>2, <1>3, <1>4, <1>5, <1>6

LEMMA InitAccounted == Init => Accounted
  BY DEF Init, Accounted, Replies, Sending, At

LEMMA Recorded ==
    ASSUME TypeOK, NEW r \in Reports, NEW ok \in BOOLEAN, Record(r, ok)
    PROVE  KeepsPosted /\ (ok => row'[r].posted)
  BY PostedKept, Typed DEF Record, RowRecords

LEMMA IdleJobs ==
    /\ \A l \in Loops : At(l).send = "no" /\ [At(l) EXCEPT !.todo = {}].send = "no"
    /\ At("load").send = "no" /\ At("work").send = "no"
    /\ \A l, S, K : [At(l) EXCEPT !.todo = S, !.kept = K].send = "no"
    /\ \A l, S : [At(l) EXCEPT !.todo = S].send = "no"
    /\ \A l, S, f : [At(l) EXCEPT !.todo = S, !.of = f].send = "no"
    /\ \A l, S, p : [At(l) EXCEPT !.p = p, !.todo = S].send = "no"
    /\ \A l, r : [At(l) EXCEPT !.r = r].send = "no"
  BY DEF At

LEMMA PeopleAccounted ==
    ASSUME TypeOK, Accounted, People
    PROVE  Accounted'
  <1>1. CASE GitHub \/ Week \/ Status
    <2>1. row' = row /\ job' = job /\ said' = said /\ excused' = excused
      BY <1>1 DEF GitHub, Week, Status
    <2> QED
      BY <2>1, Quiet DEF KeepsPosted
  <1>2. ASSUME NEW r \in Reports, Dashboard(r)
        PROVE  Accounted'
    <2>1. row' = row /\ job' = job /\ said' = said /\ excused' = excused
      BY <1>2 DEF Dashboard
    <2> QED
      BY <2>1, Quiet DEF KeepsPosted
  <1>3. ASSUME NEW r \in Reports, DashboardDraft(r)
        PROVE  Accounted'
    <2>1. CASE row' = [row EXCEPT ![r] = Cancelled(@)] /\ UNCHANGED <<said, excused>>
      <3>1. KeepsPosted
        BY <2>1, PostedKept
      <3> QED
        BY <1>3, <2>1, <3>1, Quiet DEF DashboardDraft
    <2>2. CASE /\ row' = [row EXCEPT ![r] = Posted(@)]
               /\ said' = [said EXCEPT ![r] = @ + 1] /\ excused' = [excused EXCEPT ![r] = @ + 1]
      <3>1. KeepsPosted /\ job' = job
        BY <1>3, <2>2, PostedKept DEF DashboardDraft
      <3>2. \A q \in Reports : \/ said'[q] = said[q] /\ excused'[q] = excused[q]
                               \/ said'[q] = said[q] + 1 /\ excused'[q] = excused[q] + 1
        BY <2>2, Typed
      <3>3. \A q \in Reports : said[q] \in Nat /\ excused[q] \in Nat
        BY Typed
      <3> QED
        BY <3>1, <3>2, <3>3 DEF Accounted, KeepsPosted, Sending, Replies
    <2> QED
      BY <1>3, <2>1, <2>2 DEF DashboardDraft
  <1> QED
    BY <1>1, <1>2, <1>3 DEF People

LEMMA StoreAccounted ==
    ASSUME TypeOK, Accounted, Store
    PROVE  Accounted'
  <1>1. /\ job.send = "sent" /\ job'.send = "stored" /\ job'.at = job.at /\ job'.r = job.r
        /\ row' = row /\ excused' = excused
    BY Typed DEF Store, database, JobRecords
  <1>2. \A q \in Reports : said'[q] = IF job.at # "chase" /\ q = job.r THEN said[q] + 1 ELSE said[q]
    BY Typed DEF Store
  <1>3. \A q \in Reports : said[q] \in Nat /\ excused[q] \in Nat
    BY Typed
  <1> QED
    BY <1>1, <1>2, <1>3 DEF Accounted, Sending, Replies

LEMMA CrashAccounted ==
    ASSUME TypeOK, Accounted, Crash
    PROVE  Accounted'
  <1>1. row' = row /\ said' = said /\ job'.send = "no"
    BY IdleJobs DEF Crash, database
  <1>2. \A q \in Reports : excused'[q] = IF job.send = "stored" /\ job.at # "chase" /\ q = job.r
                                         THEN excused[q] + 1 ELSE excused[q]
    BY Typed DEF Crash
  <1>3. \A q \in Reports : said[q] \in Nat /\ excused[q] \in Nat
    BY Typed
  <1> QED
    BY <1>1, <1>2, <1>3 DEF Accounted, Sending, Replies

LEMMA LoadAccounted ==
    ASSUME TypeOK, Accounted, Drafts, LoadState
    PROVE  Accounted'
  <1>1. CASE (\E p \in PRs : SyncPr(p)) \/ SyncClosed
    <2>1. /\ row' = row /\ said' = said /\ excused' = excused
          /\ job.send = "no" /\ job'.send = "no"
      <3>1. ASSUME NEW p \in PRs, SyncPr(p)
            PROVE  /\ row' = row /\ said' = said /\ excused' = excused
                   /\ job.send = "no" /\ job'.send = "no"
        <4>1. job' = job \/ job' = [At("closing") EXCEPT !.p = p, !.todo = Dropped(p)]
          BY <3>1 DEF SyncPr
        <4>2. row' = row /\ said' = said /\ excused' = excused /\ job.send = "no"
          BY <3>1 DEF SyncPr, Running
        <4> QED
          BY <4>1, <4>2 DEF At
      <3>2. CASE SyncClosed
        BY <3>2, IdleJobs DEF SyncClosed, Running
      <3> QED
        BY <1>1, <3>1, <3>2
    <2> QED
      BY <2>1, Quiet DEF KeepsPosted
  <1>2. CASE StartScan \/ StartDeployed \/ StartFlush \/ StartChase \/ StartDirect
    <2>1. /\ row' = row /\ said' = said /\ excused' = excused
          /\ job.send = "no" /\ job'.send = "no"
      <3>1. row' = row /\ said' = said /\ excused' = excused /\ job.send = "no"
        BY <1>2 DEF StartScan, StartDeployed, StartFlush, StartChase, StartDirect, Begin, Running, database
      <3>2. \/ \E S, K : job' = [At("scanning") EXCEPT !.todo = S, !.kept = K]
            \/ \E S, f : job' = [At("deployed") EXCEPT !.todo = S, !.of = f]
            \/ \E l, S : job' = [At(l) EXCEPT !.todo = S]
        <4>1. CASE StartScan
          BY <4>1, Zenon DEF StartScan
        <4>2. CASE StartDeployed
          BY <4>2, Zenon DEF StartDeployed
        <4>3. CASE StartFlush
          BY <4>3, Zenon DEF StartFlush, Begin
        <4>4. CASE StartChase
          BY <4>4, Zenon DEF StartChase, Begin
        <4>5. CASE StartDirect
          BY <4>5, Zenon DEF StartDirect, Begin
        <4> QED
          BY <1>2, <4>1, <4>2, <4>3, <4>4, <4>5
      <3> QED
        BY <3>1, <3>2 DEF At
    <2> QED
      BY <2>1, Quiet DEF KeepsPosted
  <1>3. CASE EndScan
    <2>1. KeepsPosted
      <3>1. row' = row \/ \E r \in Reports : row' = [row EXCEPT ![r] = Cancelled(@)]
        BY <1>3, Typed DEF EndScan
      <3> QED
        BY <3>1, PostedKept DEF KeepsPosted
    <2>2. said' = said /\ excused' = excused /\ job.send = "no" /\ job'.send = "no"
      BY <1>3, IdleJobs DEF EndScan, Running
    <2> QED
      BY <2>1, <2>2, Quiet
  <1>4. CASE EndDeployed \/ EndFlush \/ EndChase \/ EndDirect
    <2>1. /\ row' = row /\ said' = said /\ excused' = excused
          /\ job.send = "no" /\ job'.send = "no"
      BY <1>4, IdleJobs DEF EndDeployed, EndFlush, EndChase, EndDirect, Running, database
    <2> QED
      BY <2>1, Quiet DEF KeepsPosted
  <1>5. ASSUME NEW r \in Reports, Deployed(r) \/ Flush(r) \/ Chase(r) \/ Direct(r)
        PROVE  Accounted'
    <2>1. /\ said' = said /\ excused' = excused /\ job.send = "no"
          /\ job.at \notin {"opened", "refuse", "closing"}
      BY <1>5 DEF Deployed, Flush, Chase, Direct, Running
    <2>2. KeepsPosted
      <3>1. row' = row \/ row' = [row EXCEPT ![r] = Cancelled(@)]
        BY <1>5 DEF Deployed, Flush, SendDraft, Chase, Direct
      <3>2. CASE row' = row
        BY <3>2 DEF KeepsPosted
      <3>3. CASE row' = [row EXCEPT ![r] = Cancelled(@)]
        BY <3>3, PostedKept
      <3> QED
        BY <3>1, <3>2, <3>3
    <2>3. \/ \E S : job' = Without(job, S)
          \/ Post(Without(job, {r}), r) /\ (~row[r].posted \/ said[r] <= excused[r])
          \/ Post(job, r) /\ job.at = "chase"
      <3>1. CASE Flush(r)
        BY <3>1 DEF Flush, SendDraft, Running, Drafts, Sent
      <3>2. CASE Deployed(r) \/ Chase(r) \/ Direct(r)
        BY <3>2 DEF Deployed, Chase, Direct, HasAny, HasLive, Running
      <3> QED
        BY <1>5, <3>1, <3>2
    <2>4. CASE \E S : job' = Without(job, S)
      BY <2>1, <2>2, <2>4, Typed, JobHelpers, Quiet
    <2>5. CASE Post(Without(job, {r}), r) /\ (~row[r].posted \/ said[r] <= excused[r])
      <3>1. job'.send = "sent" /\ job'.r = r
        BY <2>1, <2>5, Typed, JobHelpers, PostKeeps DEF JobOK
      <3> QED
        BY <2>1, <2>2, <2>5, <3>1, Sends
    <2>6. CASE Post(job, r) /\ job.at = "chase"
      <3>1. job'.send = "sent" /\ job'.r = r /\ job'.at = "chase"
        BY <2>1, <2>6, Typed, PostKeeps
      <3> QED
        BY <2>1, <2>2, <2>6, <3>1, Sends
    <2> QED
      BY <2>3, <2>4, <2>5, <2>6
  <1> QED
    BY <1>1, <1>2, <1>3, <1>4, <1>5 DEF LoadState

LEMMA AnsweredAccounted ==
    ASSUME TypeOK, Accounted, NEW ok \in BOOLEAN, Answered(ok)
    PROVE  Accounted'
  <1>1. Answer(ok) /\ said' = said
    BY DEF Answered, AnsweredDeployed, AnsweredDraft, AnsweredChase, AnsweredDirect, AnsweredTriage,
           AnsweredRecheck, AnsweredAsk, AnsweredRefuse, Work
  <1>2. job.r \in Reports
    BY <1>1, AnswerTyped
  <1>3. KeepsPosted /\ (ok => row'[job.r].posted)
    <2>1. CASE AnsweredDraft(ok)
      <3>1. CASE ok
        <4>1. row' = [row EXCEPT ![job.r] = Posted(@)]
          BY <2>1, <3>1 DEF AnsweredDraft
        <4> QED
          BY <1>2, <4>1, PostedKept, RowHelpers, Typed
      <3>2. CASE ~ok
        BY <2>1, <3>2 DEF AnsweredDraft, KeepsPosted
      <3> QED
        BY <3>1, <3>2
    <2>2. CASE Record(job.r, ok)
      BY <1>2, <2>2, Recorded
    <2> QED
      BY <2>1, <2>2 DEF Answered, AnsweredDeployed, AnsweredChase, AnsweredDirect, AnsweredTriage,
                        AnsweredRecheck, AnsweredAsk, AnsweredRefuse
  <1>4. job'.send = "no"
    <2>1. Back.send = "no" /\ \A F : [Back EXCEPT !.failed = F].send = "no"
      BY Typed DEF Back, JobRecords
    <2>2. \A S : Without(Back, S).send = "no"
      BY <2>1 DEF Without, Back
    <2>3. CASE AnsweredDeployed(ok)
      BY <2>1, <2>3 DEF AnsweredDeployed
    <2>4. CASE ~AnsweredDeployed(ok)
      BY <2>1, <2>2, <2>4, IdleJobs, ZenonT(30)
         DEF Answered, AnsweredDraft, AnsweredChase, AnsweredDirect, AnsweredTriage,
             AnsweredRecheck, AnsweredAsk, AnsweredRefuse
    <2> QED
      BY <2>3, <2>4
  <1> QED
    BY <1>1, <1>3, <1>4, Answers

\* A step at work that says nothing: it goes on with its loop, or with another.
LEMMA WorkQuiet ==
    ASSUME TypeOK, Accounted, KeepsPosted, said' = said, excused' = excused, job.send = "no",
           job'.send = "no"
    PROVE  Accounted'
  BY Quiet

\* A step at work that says something to a reporter who has had no reply.
LEMMA WorkSends ==
    ASSUME TypeOK, Accounted, KeepsPosted, said' = said, excused' = excused, job.send = "no",
           NEW l \in JobRecords, l.at \in {"opened", "refuse", "closing"} => l.p # None,
           NEW r \in Reports, Post(l, r), ~row[r].posted
    PROVE  Accounted'
  <1>1. job'.send = "sent" /\ job'.r = r
    BY PostKeeps
  <1> QED
    BY <1>1, Sends

LEMMA LapAccounted ==
    ASSUME TypeOK, Accounted, Lap
    PROVE  Accounted'
  <1>1. CASE Fetch \/ StartRouter \/ Decide \/ Dispatch \/ LapEnd
    <2>1. row' = row /\ said' = said /\ excused' = excused /\ job.send = "no"
      BY <1>1 DEF Fetch, StartRouter, Decide, Dispatch, LapEnd, Running, Work, database
    <2>2. job'.send = "no"
      <3>1. CASE Fetch
        BY <3>1 DEF Fetch, At
      <3>2. CASE StartRouter
        BY <3>2 DEF StartRouter, At
      <3>3. CASE Decide
        <4> DEFINE j(S, K) == [At("route") EXCEPT !.todo = S, !.kept = K]
        <4>1. \A S, K : j(S, K).send = "no"
          BY DEF At
        <4>2. job' = At("work") \/ job' = j(Offered' \ lap, Offered' \intersect lap)
          BY <3>3 DEF Decide
        <4> HIDE DEF j
        <4> QED
          BY <4>1, <4>2, IdleJobs
      <3>4. CASE Dispatch
        <4>1. job' = At("work") \/ \E r : job' = [At("fix") EXCEPT !.r = r]
          BY <3>4 DEF Dispatch
        <4> QED
          BY <4>1 DEF At
      <3>5. CASE LapEnd
        BY <3>5 DEF LapEnd, At
      <3> QED
        BY <1>1, <3>1, <3>2, <3>3, <3>4, <3>5
    <2> QED
      BY <2>1, <2>2, WorkQuiet DEF KeepsPosted
  <1>2. ASSUME NEW r \in Reports, Triage(r)
        PROVE  Accounted'
    <2>1. said' = said /\ excused' = excused /\ job.send = "no" /\ job.at = "triage"
      BY <1>2 DEF Triage, Running, Work
    <2>2. KeepsPosted
      BY <1>2, PostedKept DEF Triage
    <2>3. CASE Ask(Without(job, {r}), r)
      <3>1. Without(job, {r}) \in JobRecords /\ Without(job, {r}).at = "triage"
        BY <2>1, Typed, JobHelpers DEF JobOK
      <3> QED
        BY <2>1, <2>2, <2>3, <3>1, WorkSends DEF Ask
    <2>4. CASE job' = Without(job, {r})
      BY <2>1, <2>2, <2>4, Typed, JobHelpers, WorkQuiet
    <2> QED
      BY <1>2, <2>3, <2>4 DEF Triage
  <1>3. ASSUME NEW r \in Reports, AnswerQuestion(r)
        PROVE  Accounted'
    <2>1. said' = said /\ excused' = excused /\ job.send = "no" /\ ~row[r].posted
      BY <1>3 DEF AnswerQuestion, Running, Work, HasLive
    <2>2. CASE UNCHANGED <<job, row>>
      BY <2>1, <2>2, WorkQuiet DEF KeepsPosted
    <2>3. CASE row' = [row EXCEPT ![r].pending = TRUE] /\ Post(At("answer"), r)
      <3>1. At("answer") \in JobRecords /\ At("answer").at = "answer"
        BY StartJob DEF Loops
      <3>2. KeepsPosted
        BY <2>3, PostedKept
      <3> QED
        BY <2>1, <2>3, <3>1, <3>2, WorkSends
    <2> QED
      BY <1>3, <2>2, <2>3 DEF AnswerQuestion
  <1>4. ASSUME NEW r \in Reports, Recheck(r)
        PROVE  Accounted'
    <2>1. /\ said' = said /\ excused' = excused /\ job.send = "no" /\ job.at = "route"
          /\ row' = row /\ KeepsPosted
      BY <1>4 DEF Recheck, Running, Work, KeepsPosted
    <2>2. Without(job, {r}) \in JobRecords /\ Without(job, {r}).at = "route" /\ Without(job, {r}).send = "no"
      BY <2>1, Typed, JobHelpers DEF JobOK
    <2>3. CASE Ask(Without(job, {r}), r)
      BY <2>1, <2>2, <2>3, WorkSends DEF Ask
    <2>4. CASE job' = [Without(job, {r}) EXCEPT !.kept = @ \union {r}] \/ job' = Without(job, {r})
      <3>1. job'.send = "no"
        BY <2>2, <2>4 DEF JobRecords
      <3> QED
        BY <2>1, <3>1, WorkQuiet
    <2> QED
      BY <1>4, <2>3, <2>4 DEF Recheck
  <1>5. CASE TaskDeferred \/ LoopBreaker \/ CreatePr
    <2>1. /\ said' = said /\ excused' = excused /\ job.send = "no" /\ row' = row
          /\ job'.send = "no"
      BY <1>5, IdleJobs DEF TaskDeferred, LoopBreaker, CreatePr, Running, Work, database
    <2> QED
      BY <2>1, WorkQuiet DEF KeepsPosted
  <1>6. CASE TaskAsks
    <2>1. /\ said' = said /\ excused' = excused /\ job.send = "no" /\ row' = row /\ KeepsPosted
          /\ job.r \in Reports
      BY <1>6, Typed DEF TaskAsks, Running, Work, KeepsPosted, JobOK, JobRecords
    <2>2. CASE Ask(At("ask"), job.r)
      <3>1. At("ask") \in JobRecords /\ At("ask").at = "ask"
        BY StartJob DEF Loops
      <3> QED
        BY <2>1, <2>2, <3>1, WorkSends DEF Ask
    <2>3. CASE job' = At("work")
      BY <2>1, <2>3, IdleJobs, WorkQuiet
    <2> QED
      BY <1>6, <2>2, <2>3 DEF TaskAsks
  <1>7. CASE OpenPr
    <2>1. /\ said' = said /\ excused' = excused /\ job.send = "no" /\ row' = row
          /\ job'.send = "no"
      BY <1>7, Typed DEF OpenPr, Running, JobRecords
    <2> QED
      BY <2>1, WorkQuiet DEF KeepsPosted
  <1>8. CASE RefusePr
    <2>1. /\ said' = said /\ excused' = excused /\ job.send = "no" /\ row' = row /\ KeepsPosted
          /\ job.r \in Reports /\ job.p # None /\ job \in JobRecords
      BY <1>8, Typed DEF RefusePr, Running, KeepsPosted, JobOK, JobRecords
    <2>2. CASE Ask([job EXCEPT !.at = "refuse"], job.r)
      <3>1. /\ [job EXCEPT !.at = "refuse"] \in JobRecords
            /\ [job EXCEPT !.at = "refuse"].p # None
        BY <2>1 DEF JobRecords, Loops
      <3> QED
        BY <2>1, <2>2, <3>1, WorkSends DEF Ask
    <2>3. CASE job' = At("work")
      BY <2>1, <2>3, IdleJobs, WorkQuiet
    <2> QED
      BY <1>8, <2>2, <2>3 DEF RefusePr
  <1> QED
    BY <1>1, <1>2, <1>3, <1>4, <1>5, <1>6, <1>7, <1>8 DEF Lap

LEMMA StepAccounted == TypeOK /\ Accounted /\ Drafts /\ [Next]_vars => Accounted'
  <1> SUFFICES ASSUME TypeOK, Accounted, Drafts, [Next]_vars PROVE Accounted'
    OBVIOUS
  <1>1. CASE UNCHANGED vars
    <2>1. row' = row /\ job' = job /\ said' = said /\ excused' = excused
      BY <1>1 DEF vars, database
    <2> QED
      BY <2>1, Quiet DEF KeepsPosted
  <1> QED
    BY <1>1, PeopleAccounted, StoreAccounted, CrashAccounted, LoadAccounted, LapAccounted,
       AnsweredAccounted DEF Next

\* What a step makes of the row of a draft.
Reply(w) == [w EXCEPT !.posted = TRUE, !.own = FALSE]
RowMoves(w, v) ==
    \/ v \in {w, Cancelled(w), Posted(w), Reply(w)}
    \/ ~w.posted /\ v = [w EXCEPT !.pending = TRUE]

LEMMA RowsMove ==
    ASSUME TypeOK, [Next]_vars, NEW r \in Reports
    PROVE  RowMoves(row[r], row'[r])
  <1>1. ASSUME NEW q, NEW ok, \/ row' = row
                              \/ row' = [row EXCEPT ![q] = Cancelled(@)]
                              \/ row' = [row EXCEPT ![q] = Posted(@)]
                              \/ Record(q, ok)
        PROVE  row'[r] \in {row[r], Cancelled(row[r]), Posted(row[r]), Reply(row[r])}
    BY <1>1, Typed DEF Record, Reply
  <1>2. CASE People
    <2>1. \E q : row' \in {row, [row EXCEPT ![q] = Cancelled(@)], [row EXCEPT ![q] = Posted(@)]}
      BY <1>2 DEF People, GitHub, Week, Status, Dashboard, DashboardDraft
    <2> QED
      BY <1>1, <2>1 DEF RowMoves
  <1>3. CASE Store \/ Crash \/ UNCHANGED vars
    BY <1>3 DEF Store, Crash, vars, database, RowMoves
  <1>4. CASE LoadState
    <2>1. \E q : row' = row \/ row' = [row EXCEPT ![q] = Cancelled(@)]
      BY <1>4 DEF LoadState, SyncPr, SyncClosed, StartScan, EndScan, StartDeployed, EndDeployed, StartFlush,
                  EndFlush, StartChase, EndChase, StartDirect, EndDirect, Deployed, Flush, SendDraft, Chase,
                  Direct, database
    <2> QED
      BY <1>1, <2>1 DEF RowMoves
  <1>5. ASSUME NEW ok \in BOOLEAN, Answered(ok)
        PROVE  RowMoves(row[r], row'[r])
    <2>1. \/ row' = row
          \/ row' = [row EXCEPT ![job.r] = Posted(@)]
          \/ Record(job.r, ok)
      BY <1>5 DEF Answered, AnsweredDeployed, AnsweredDraft, AnsweredChase, AnsweredDirect, AnsweredTriage,
                  AnsweredRecheck, AnsweredAsk, AnsweredRefuse
    <2> QED
      BY <1>1, <2>1 DEF RowMoves
  <1>6. ASSUME NEW q \in Reports, AnswerQuestion(q)
        PROVE  RowMoves(row[r], row'[r])
    <2>1. \/ row' = row
          \/ ~row[q].posted /\ row' = [row EXCEPT ![q] = [row[q] EXCEPT !.pending = TRUE]]
      BY <1>6 DEF AnswerQuestion, HasLive
    <2> QED
      BY <2>1, Typed DEF RowMoves
  <1>7. CASE Lap /\ ~\E q \in Reports : AnswerQuestion(q)
    <2>1. \E q : row' = row \/ row' = [row EXCEPT ![q] = Cancelled(@)]
      BY <1>7 DEF Lap, Fetch, StartRouter, Decide, Dispatch, LapEnd, Triage, Recheck, TaskDeferred,
                  LoopBreaker, TaskAsks, OpenPr, CreatePr, RefusePr, database
    <2> QED
      BY <1>1, <2>1 DEF RowMoves
  <1> QED
    BY <1>2, <1>3, <1>4, <1>5, <1>6, <1>7 DEF Next

\* Whatever is done to a row, a draft that has been sent does not wait, and a report that has a
\* draft of any kind goes on having one.
LEMMA RowMovesKeep ==
    ASSUME NEW w \in RowRecords, NEW v, RowMoves(w, v)
    PROVE  /\ (w.posted /\ w.own => ~w.pending) => (v.posted /\ v.own => ~v.pending)
           /\ w.posted \/ w.pending \/ w.rejected > 0 => v.posted \/ v.pending \/ v.rejected > 0
  <1>1. CASE v = Cancelled(w)
    <2>1. CASE ~w.pending
      BY <1>1, <2>1 DEF Cancelled
    <2>2. CASE w.pending
      <3>1. v.posted = w.posted /\ v.own = w.own /\ v.pending = FALSE
            /\ v.rejected = (IF w.rejected < 2 THEN w.rejected + 1 ELSE w.rejected)
        BY <1>1, <2>2 DEF Cancelled, RowRecords
      <3>2. w.rejected \in 0..2
        BY DEF RowRecords
      <3> QED
        BY <3>1, <3>2
    <2> QED
      BY <2>1, <2>2
  <1>2. CASE v = Posted(w)
    BY <1>2 DEF Posted, RowRecords
  <1>3. CASE v = Reply(w)
    BY <1>3 DEF Reply, RowRecords
  <1>4. CASE ~w.posted /\ v = [w EXCEPT !.pending = TRUE]
    BY <1>4 DEF RowRecords
  <1> QED
    BY <1>1, <1>2, <1>3, <1>4 DEF RowMoves

\* LOAD_STATE goes from loop to loop by way of "load", and what comes back of a reply stays in its loop.
LEMMA LoadAt ==
    ASSUME TypeOK, LoadState
    PROVE  \/ job'.at \in {"load", "closing", "scanning", "chase", "direct"}
           \/ job'.at = "deployed" /\ (StartDeployed \/ \E q \in Reports : Deployed(q))
           \/ job'.at = "flush" /\ (StartFlush \/ \E q \in Reports : Flush(q))
  <1>1. CASE \/ SyncClosed \/ EndScan \/ EndDeployed \/ EndFlush \/ EndChase \/ EndDirect
    BY <1>1, JobShapes DEF SyncClosed, EndScan, EndDeployed, EndFlush, EndChase, EndDirect
  <1>2. ASSUME NEW p \in PRs, SyncPr(p)
        PROVE  job'.at \in {"load", "closing"}
    <2>1. job.at = "load" /\ (job' = job \/ job' = [At("closing") EXCEPT !.p = p, !.todo = Dropped(p)])
      BY <1>2 DEF SyncPr, Running
    <2>2. [At("closing") EXCEPT !.p = p, !.todo = Dropped(p)].at = "closing"
      BY JobShapes
    <2> QED
      BY <2>1, <2>2
  <1>3. StartScan => job'.at = "scanning"
    BY JobShapes DEF StartScan
  <1>4. StartDeployed => job'.at = "deployed"
    <2>1. \A S, f : [At("deployed") EXCEPT !.todo = S, !.of = f].at = "deployed"
      BY JobShapes
    <2> QED
      BY <2>1, Zenon DEF StartDeployed
  <1>5. /\ StartFlush => job'.at = "flush"
        /\ StartChase => job'.at = "chase"
        /\ StartDirect => job'.at = "direct"
    <2>1. \A l, S : [At(l) EXCEPT !.todo = S].at = l
      BY JobShapes
    <2> QED
      BY <2>1, Zenon DEF StartFlush, StartChase, StartDirect, Begin
  <1>6. ASSUME NEW q \in Reports, Deployed(q) \/ Flush(q) \/ Chase(q) \/ Direct(q)
        PROVE  job'.at = job.at
    <2>1. (\E S : job' = Without(job, S) \/ Post(Without(job, S), q)) \/ Post(job, q)
      BY <1>6 DEF Deployed, Flush, Chase, Direct, SendDraft
    <2> QED
      BY <2>1, WithoutShape, PostShape, Typed
  <1>7. /\ \A q \in Reports : Deployed(q) => job.at = "deployed"
        /\ \A q \in Reports : Flush(q) => job.at = "flush"
        /\ \A q \in Reports : Chase(q) => job.at = "chase"
        /\ \A q \in Reports : Direct(q) => job.at = "direct"
    BY DEF Deployed, Flush, Chase, Direct, Running
  <1> QED
    BY <1>1, <1>2, <1>3, <1>4, <1>5, <1>6, <1>7 DEF LoadState

LEMMA AnsweredAt ==
    ASSUME TypeOK, NEW ok \in BOOLEAN, Answered(ok)
    PROVE  job'.at = job.at \/ job' = At("work")
  <1>1. \/ \E S : job' = Without(Back, S) \/ job' = [Back EXCEPT !.failed = S]
        \/ job' = Back \/ job' = At("work")
    BY DEF Answered, AnsweredDeployed, AnsweredDraft, AnsweredChase, AnsweredDirect, AnsweredTriage,
           AnsweredRecheck, AnsweredAsk, AnsweredRefuse
  <1>2. \A S : Without(Back, S).at = Back.at /\ [Back EXCEPT !.failed = S].at = Back.at
    BY BackShape DEF Without, JobRecords
  <1> QED
    BY <1>1, <1>2, BackShape

\* A flush is begun as one, and goes on through its own steps.
LEMMA FlushSteps ==
    ASSUME TypeOK, [Next]_vars, job'.at = "flush"
    PROVE  /\ ~Crash /\ ~Lap
           /\ LoadState => StartFlush \/ \E q \in Reports : Flush(q)
           /\ \A ok \in BOOLEAN : Answered(ok) => AnsweredDraft(ok) /\ job.at = "flush"
  <1>1. ~Crash /\ ~Lap
    BY LapAt, JobShapes DEF Crash
  <1>2. LoadState => StartFlush \/ \E q \in Reports : Flush(q)
    BY LoadAt
  <1>3. ASSUME NEW ok \in BOOLEAN, Answered(ok)
        PROVE  AnsweredDraft(ok) /\ job.at = "flush"
    <2>1. job.at = "flush"
      BY <1>3, AnsweredAt, JobShapes
    <2> QED
      BY <1>3, <2>1 DEF Answered, AnsweredDeployed, AnsweredChase, AnsweredDirect, AnsweredTriage,
                        AnsweredRecheck, AnsweredAsk, AnsweredRefuse
  <1> QED
    BY <1>1, <1>2, <1>3

\* The list of a flush is made of drafts that wait.  What is sent or turned down behind its back
\* is a person's doing, and excused; what it sends itself is off the list by then.
LEMMA FlushDrafts ==
    ASSUME TypeOK, Accounted, Drafts, [Next]_vars, job'.at = "flush", NEW r \in job'.todo, Sent(r)'
    PROVE  said'[r] <= excused'[r]
  <1>0. /\ said \in [Reports -> Nat] /\ excused \in [Reports -> Nat] /\ row \in [Reports -> RowRecords]
        /\ job.todo \subseteq Reports
    BY Typed
  <1>1. ASSUME job.at = "flush", r \in job.todo, row'[r] = row[r], said'[r] = said[r],
               excused[r] <= excused'[r] \/ excused' = excused
        PROVE  said'[r] <= excused'[r]
    <2>1. said[r] <= excused[r]
      BY <1>1 DEF Drafts, Sent
    <2>2. r \in Reports /\ said[r] \in Nat /\ excused[r] \in Nat
      BY <1>0, <1>1
    <2>3. CASE excused' = excused
      BY <1>1, <2>1, <2>3
    <2>4. CASE excused[r] <= excused'[r]
      <3>1. excused'[r] \in Nat
        BY <2>2, StepTyped DEF TypeOK
      <3> QED
        BY <1>1, <2>1, <2>2, <2>4, <3>1
    <2> QED
      BY <1>1, <2>3, <2>4
  <1>2. CASE People \/ UNCHANGED vars
    <2>1. job' = job
      BY <1>2 DEF People, GitHub, Week, Status, Dashboard, DashboardDraft, vars
    <2>2. CASE UNCHANGED <<row, said, excused>>
      BY <1>1, <2>1, <2>2
    <2>3. ASSUME NEW q \in Reports, DashboardDraft(q)
          PROVE  said'[r] <= excused'[r]
      <3>1. CASE r # q
        <4>1. row'[r] = row[r] /\ said'[r] = said[r] /\ excused'[r] = excused[r]
          BY <1>0, <2>1, <2>3, <3>1 DEF DashboardDraft
        <4>2. excused[r] <= excused'[r]
          BY <1>0, <2>1, <4>1
        <4> QED
          BY <1>1, <2>1, <4>1, <4>2
      <3>2. CASE r = q /\ row' = [row EXCEPT ![q] = Cancelled(@)] /\ UNCHANGED <<said, excused>>
        <4>1. row'[r] = Cancelled(row[r]) /\ row[r].pending
          BY <1>0, <2>3, <3>2 DEF DashboardDraft
        <4>2. Cancelled(row[r]).posted = row[r].posted /\ Cancelled(row[r]).own = row[r].own
          BY <1>0, <3>2 DEF Cancelled, RowRecords
        <4> QED
          BY <3>2, <4>1, <4>2 DEF Sent, Drafts
      <3>3. CASE /\ r = q /\ row' = [row EXCEPT ![q] = Posted(@)]
                 /\ said' = [said EXCEPT ![q] = @ + 1] /\ excused' = [excused EXCEPT ![q] = @ + 1]
        <4>1. row'[r] = Posted(row[r]) /\ row[r].pending /\ ~Sent(r)
          BY <1>0, <2>3, <3>3 DEF DashboardDraft, Drafts
        <4>2. ~row[r].posted
          BY <1>0, <3>3, <4>1 DEF Sent, Posted, RowRecords
        <4>3. ~Sending(r)
          BY <2>1 DEF Drafts, Sending
        <4>4. said[r] <= excused[r]
          <5>1. said[r] <= excused[r] + 0
            BY <3>3, <4>2, <4>3 DEF Accounted, Replies
          <5> QED
            BY <1>0, <3>3, <5>1
        <4>5. said'[r] = said[r] + 1 /\ excused'[r] = excused[r] + 1
          BY <1>0, <3>3
        <4> QED
          BY <1>0, <3>3, <4>4, <4>5
      <3> QED
        BY <2>3, <3>1, <3>2, <3>3 DEF DashboardDraft
    <2>4. \/ UNCHANGED <<row, said, excused>> \/ \E q \in Reports : DashboardDraft(q)
      BY <1>2 DEF People, GitHub, Week, Status, Dashboard, vars, database
    <2> QED
      BY <2>2, <2>3, <2>4
  <1>3. CASE Store
    <2>1. /\ job.send = "sent" /\ job'.at = job.at /\ job'.todo = job.todo /\ job'.r = job.r
          /\ row' = row /\ excused' = excused
      BY <1>3, Typed DEF Store, JobRecords, database
    <2>2. said'[r] = said[r]
      BY <1>0, <1>3, <2>1 DEF Store, Drafts
    <2> QED
      BY <1>1, <2>1, <2>2
  <1>4. CASE StartFlush
    <2>1. job'.todo = {q \in Reports : row[q].pending} /\ row' = row
      BY <1>4, JobShapes DEF StartFlush, Begin, database
    <2> QED
      BY <2>1 DEF Drafts, Sent
  <1>5. ASSUME NEW q \in Reports, Flush(q)
        PROVE  said'[r] <= excused'[r]
    <2>1. /\ job.at = "flush" /\ UNCHANGED <<said, excused>>
          /\ row' = row \/ row' = [row EXCEPT ![q] = Cancelled(@)]
          /\ job' = Without(job, {q}) \/ Post(Without(job, {q}), q)
      BY <1>5 DEF Flush, SendDraft, Running
    <2>2. job'.todo = job.todo \ {q}
      BY <2>1, WithoutShape, PostShape
    <2>3. row'[r] = row[r]
      BY <1>0, <2>1, <2>2
    <2> QED
      BY <1>1, <2>1, <2>2, <2>3
  <1>6. ASSUME NEW ok \in BOOLEAN, Answered(ok)
        PROVE  said'[r] <= excused'[r]
    <2>1. AnsweredDraft(ok) /\ job.at = "flush"
      BY <1>6, FlushSteps
    <2>2. job.send # "no" /\ job.r \notin job.todo /\ job'.todo = job.todo
      BY <2>1, AnswerTyped, BackShape DEF AnsweredDraft, Drafts
    <2>3. row'[r] = row[r] /\ said'[r] = said[r]
      BY <1>0, <2>1, <2>2 DEF AnsweredDraft
    <2>4. excused'[r] = excused[r]
      <3>1. excused' = excused \/ excused' = [excused EXCEPT ![job.r] = @ + 1]
        BY <2>1 DEF AnsweredDraft, Answer
      <3> QED
        BY <1>0, <2>2, <3>1
    <2>5. excused[r] <= excused'[r]
      BY <1>0, <2>2, <2>4
    <2> QED
      BY <1>1, <2>1, <2>2, <2>3, <2>5
  <1> QED
    BY <1>2, <1>3, <1>4, <1>5, <1>6, FlushSteps DEF Next

LEMMA DraftsStep == TypeOK /\ Accounted /\ Drafts /\ [Next]_vars => Drafts'
  <1> SUFFICES ASSUME TypeOK, Accounted, Drafts, [Next]_vars PROVE Drafts'
    OBVIOUS
  <1>1. ASSUME NEW r \in Reports, Sent(r)'
        PROVE  ~row'[r].pending
    <2>1. row[r] \in RowRecords /\ RowMoves(row[r], row'[r])
      BY RowsMove, Typed
    <2>2. row[r].posted /\ row[r].own => ~row[r].pending
      BY DEF Drafts, Sent
    <2> QED
      BY <1>1, <2>1, <2>2, RowMovesKeep DEF Sent
  <1>2. ASSUME job'.at = "flush", job'.send # "no"
        PROVE  job'.r \notin job'.todo
    <2>1. CASE job' = job
      BY <1>2, <2>1 DEF Drafts
    <2>2. CASE Store
      <3>1. job.send = "sent" /\ job'.at = job.at /\ job'.todo = job.todo /\ job'.r = job.r
        BY <2>2, Typed DEF Store, JobRecords
      <3> QED
        BY <1>2, <3>1 DEF Drafts
    <2>3. CASE StartFlush
      <3>1. [At("flush") EXCEPT !.todo = {q \in Reports : row[q].pending}].send = "no"
        BY DEF At
      <3> QED
        BY <1>2, <2>3, <3>1 DEF StartFlush, Begin
    <2>4. ASSUME NEW q \in Reports, Flush(q)
          PROVE  job'.r \notin job'.todo
      <3>1. job.send = "no" /\ (job' = Without(job, {q}) \/ Post(Without(job, {q}), q))
        BY <2>4 DEF Flush, SendDraft, Running
      <3>2. Without(job, {q}).send = "no"
        BY <3>1, Typed DEF Without, JobRecords
      <3>3. job'.r = q /\ job'.todo = job.todo \ {q}
        BY <1>2, <3>1, <3>2, WithoutShape, PostShape
      <3> QED
        BY <3>3
    <2>5. ASSUME NEW ok \in BOOLEAN, Answered(ok)
          PROVE  FALSE
      <3>1. AnsweredDraft(ok) /\ job.at = "flush"
        BY <1>2, <2>5, FlushSteps
      <3>2. Back.send = "no"
        BY Typed DEF Back, JobRecords
      <3> QED
        BY <1>2, <3>1, <3>2 DEF AnsweredDraft
    <2>6. People \/ UNCHANGED vars => job' = job
      BY DEF People, GitHub, Week, Status, Dashboard, DashboardDraft, vars
    <2> QED
      BY <1>2, <2>1, <2>2, <2>3, <2>4, <2>5, <2>6, FlushSteps DEF Next
  <1> QED
    BY <1>1, <1>2, FlushDrafts DEF Drafts

LEMMA Inductive == Spec => [](TypeOK /\ Accounted)
  <1>1. Init => TypeOK /\ Accounted /\ Drafts
    <2>1. Init => Drafts
      BY JobShapes DEF Init, Drafts, Sent
    <2> QED
      BY <2>1, InitTyped, InitAccounted
  <1>2. TypeOK /\ Accounted /\ Drafts /\ [Next]_vars => (TypeOK /\ Accounted /\ Drafts)'
    BY StepTyped, StepAccounted, DraftsStep
  <1> QED
    BY <1>1, <1>2, PTL DEF Spec

\* However the monitor's passes, people and faults interleave, every row stays well formed, and
\* a call that is out is about a report.
THEOREM Typing == Spec => []TypeOK
  BY Inductive, PTL

\* Whoever is to send it, and whatever is pressed, lost or killed in between, a report gets one
\* reply that the monitor could know of: askReporterOnDiscourse, the deployed pass, the direct
\* pass and sendDraft all look at what is written down, and nothing is written off.
THEOREM OneReply == Spec => []OneReplyPerPost
  <1>1. TypeOK /\ Accounted => OneReplyPerPost
    <2> SUFFICES ASSUME TypeOK, Accounted PROVE OneReplyPerPost
      OBVIOUS
    <2>1. \A r \in Reports : said[r] \in Nat /\ excused[r] \in Nat
      BY Typed
    <2> QED
      BY <2>1 DEF Accounted, Replies, OneReplyPerPost
  <1> QED
    BY Inductive, <1>1, PTL

-------------------------------------------------------------------------------
(* Nobody who answered is closed for want of an answer *)

\* A reporter who has answered has no reminder against the report the answer was noted for.
AnswerNoted == \A r \in Reports : r \in replied => bug[r].chased \in {"no", "cannot"}

\* A record that keeps what is known of the reminder, and is not closed for want of an answer.
Kept(b, c) == c.chased = b.chased /\ (c.state = "no-reply" => b.state = "no-reply")
AllKept == \A r \in Reports : Kept(bug[r], bug'[r])

LEMMA SeenKeeps ==
    ASSUME NEW b, NEW c \in BugRecords, Kept(b, c)
    PROVE  Kept(b, Seen(c))
  <1>1. Seen(c).chased = c.chased /\ Seen(c).state = c.state
    BY DEF Seen, BugRecords
  <1> QED
    BY <1>1 DEF Kept

LEMMA SetKeeps ==
    ASSUME NEW b, NEW c \in BugRecords, Kept(b, c), NEW s \in States \ {"no-reply"}, NEW why \in Deferrals,
           NEW p \in PRs \union {None}
    PROVE  /\ Kept(b, [c EXCEPT !.state = s, !.why = why])
           /\ Kept(b, [c EXCEPT !.state = s])
           /\ Kept(b, [c EXCEPT !.why = why])
           /\ Kept(b, [c EXCEPT !.pr = p])
           /\ \A n \in Nat : Kept(b, [c EXCEPT !.state = s, !.pr = p, !.why = why, !.rejections = n])
           /\ \A n \in Nat : Kept(b, [c EXCEPT !.state = s, !.why = why, !.back = n])
  BY DEF Kept, BugRecords

LEMMA UpsertKeeps ==
    ASSUME NEW b, NEW c \in BugRecords, Kept(b, c), NEW s \in States \ {"no-reply"}, NEW p \in PRs \union {None}
    PROVE  Kept(b, Upserted(c, s, p))
  <1>1. [c EXCEPT !.state = s, !.pr = IF p = None THEN @ ELSE p] \in BugRecords
    BY DEF BugRecords
  <1>2. Kept(b, [c EXCEPT !.state = s, !.pr = IF p = None THEN @ ELSE p])
    BY DEF Kept, BugRecords
  <1> QED
    BY <1>1, <1>2, SeenKeeps DEF Upserted

LEMMA BecauseKeeps ==
    ASSUME NEW b, NEW c \in BugRecords, Kept(b, c), NEW s \in States \ {"no-reply"}, NEW why \in Deferrals
    PROVE  Kept(b, Because(c, s, why))
  <1>1. None \in PRs \union {None}
    OBVIOUS
  <1>2. Upserted(c, s, None) \in BugRecords /\ Kept(b, Upserted(c, s, None))
    BY <1>1, BugHelpers, UpsertKeeps
  <1> QED
    BY <1>2, SetKeeps, <1>1 DEF Because

LEMMA OthersKeep ==
    ASSUME NEW b, NEW c \in BugRecords, Kept(b, c)
    PROVE  /\ Kept(b, Hold(c)) /\ Kept(b, Reopened(c)) /\ Kept(b, Confirmed(c)) /\ Kept(b, Fixed(c))
           /\ Kept(b, CameBack(c)) /\ Kept(b, Escalated(c))
  <1>1. /\ "other" \in Deferrals /\ None \in PRs \union {None}
        /\ {"needs-detail", "deferred", "open", "confirmed", "fixed"} \subseteq States \ {"no-reply"}
    BY DEF Deferrals, States
  <1>2. Kept(b, Hold(c)) /\ Kept(b, Escalated(c))
    <2>1. Kept(b, Because(c, "needs-detail", "other")) /\ Kept(b, Because(c, "deferred", "other"))
      BY <1>1, BecauseKeeps
    <2> QED
      BY <2>1 DEF Hold, Escalated
  <1>3. Kept(b, Reopened(c))
    <2> DEFINE d(n) == [c EXCEPT !.state = "open", !.pr = None, !.why = "other", !.rejections = n]
    <2>1. \A n \in Nat : d(n) \in BugRecords
      BY <1>1 DEF BugRecords
    <2>2. \A n \in Nat : Kept(b, d(n))
      BY <1>1, SetKeeps
    <2>3. c.rejections + 1 \in Nat
      BY DEF BugRecords
    <2>4. Reopened(c) = Seen(d(c.rejections + 1))
      BY DEF Reopened
    <2> HIDE DEF d
    <2> QED
      BY <2>1, <2>2, <2>3, <2>4, SeenKeeps
  <1>4. Kept(b, Confirmed(c))
    <2>1. [c EXCEPT !.state = "confirmed", !.why = "other"] \in BugRecords
      BY <1>1, BugHelpers
    <2>2. Kept(b, [c EXCEPT !.state = "confirmed", !.why = "other"])
      BY <1>1, SetKeeps
    <2> QED
      BY <2>1, <2>2, SeenKeeps DEF Confirmed
  <1>5. Kept(b, Fixed(c))
    <2>1. [c EXCEPT !.state = "fixed"] \in BugRecords
      BY <1>1, BugHelpers
    <2>2. Kept(b, [c EXCEPT !.state = "fixed"])
      BY <1>1, SetKeeps
    <2> QED
      BY <2>1, <2>2, SeenKeeps DEF Fixed
  <1>6. Kept(b, CameBack(c))
    <2>1. c.back + 1 \in Nat
      BY DEF BugRecords
    <2> QED
      BY <1>1, <2>1, SetKeeps DEF CameBack
  <1> QED
    BY <1>2, <1>3, <1>4, <1>5, <1>6

LEMMA SameKept ==
    ASSUME bug' = bug
    PROVE  AllKept
  BY DEF AllKept, Kept

LEMMA OneKept ==
    ASSUME TypeOK, NEW r, NEW b, r \in Reports => Kept(bug[r], b), bug' = [bug EXCEPT ![r] = b]
    PROVE  AllKept
  BY DEF AllKept, Kept, TypeOK

LEMMA RenderedKept ==
    ASSUME TypeOK, bug' = Rendered
    PROVE  AllKept
  <1>1. \A r \in Reports : Kept(bug[r], bug[r]) /\ bug[r] \in BugRecords
    BY Typed DEF Kept
  <1>2. \A r \in Reports : Kept(bug[r], Fixed(bug[r]))
    BY <1>1, OthersKeep
  <1> QED
    BY <1>1, <1>2 DEF Rendered, AllKept

\* A step that closes a report for want of an answer, nobody having pressed anything, closes one
\* that nobody answered for.
ClosesRightly ==
    \A r \in Reports :
       bug[r].state # "no-reply" /\ bug'[r].state = "no-reply" /\ r \notin touched' => r \notin replied

LEMMA KeptSuffices ==
    ASSUME AnswerNoted, AllKept, replied' = replied
    PROVE  AnswerNoted' /\ ClosesRightly
  BY DEF AnswerNoted, AllKept, Kept, ClosesRightly

\* Reports, as the passes rewrite them all.
LEMMA BugKept ==
    ASSUME TypeOK, NEW r \in Reports
    PROVE  bug[r] \in BugRecords /\ Kept(bug[r], bug[r])
  BY Typed DEF Kept

LEMMA PeopleNoted ==
    ASSUME TypeOK, AnswerNoted, People
    PROVE  AnswerNoted' /\ ClosesRightly
  <1>1. CASE GitHub
    <2>1. bug' = bug /\ replied' = replied
      BY <1>1 DEF GitHub, ghosts
    <2> QED
      BY <2>1, SameKept, KeptSuffices
  <1>2. CASE Status
    <2>1. bug' = Rendered /\ replied' = replied
      BY <1>2 DEF Status, ghosts
    <2> QED
      BY <2>1, RenderedKept, KeptSuffices
  <1>3. CASE Week
    <2>1. replied' = replied
      BY <1>3 DEF Week, ghosts
    <2>2. \A r \in Reports : /\ bug'[r].state = bug[r].state
                             /\ bug'[r].chased \in {bug[r].chased, IF bug[r].chased = "sent" THEN "late" ELSE bug[r].chased}
      <3>1. PICK stale \in SUBSET {r \in Reports : bug[r].age = "quiet"} :
               bug' = [r \in Reports |->
                    IF bug[r].state = "none" THEN bug[r] ELSE
                    [bug[r] EXCEPT !.age = IF @ = "stale" \/ r \in stale THEN "stale" ELSE "quiet",
                                   !.chased = IF @ = "sent" THEN "late" ELSE @]]
        BY <1>3 DEF Week
      <3>2. ASSUME NEW r \in Reports
            PROVE  /\ bug'[r].state = bug[r].state
                   /\ bug'[r].chased \in {bug[r].chased, IF bug[r].chased = "sent" THEN "late" ELSE bug[r].chased}
        <4>1. bug[r] \in BugRecords
          BY Typed
        <4>2. CASE bug[r].state = "none"
          BY <3>1, <4>2
        <4>3. CASE bug[r].state # "none"
          BY <3>1, <4>1, <4>3 DEF BugRecords
        <4> QED
          BY <4>2, <4>3
      <3> QED
        BY <3>2
    <2> QED
      BY <2>1, <2>2 DEF AnswerNoted, ClosesRightly
  <1>4. ASSUME NEW r \in Reports, Dashboard(r)
        PROVE  AnswerNoted' /\ ClosesRightly
    <2>1. replied' = replied /\ r \in touched'
      BY <1>4 DEF Dashboard, Pressed
    <2>2. \A q \in Reports : /\ q # r => bug'[q] = bug[q]
                             /\ bug'[q].chased = bug[q].chased
      <3>1. bug[r] \in BugRecords
        BY Typed
      <3>2. \A s \in Clicks : Upserted(bug[r], s, None).chased = bug[r].chased
        <4>1. \A s : /\ [bug[r] EXCEPT !.state = s, !.pr = IF None = None THEN @ ELSE None].chased = bug[r].chased
          BY <3>1 DEF BugRecords
        <4>2. ASSUME NEW s \in Clicks
              PROVE  Upserted(bug[r], s, None).chased = bug[r].chased
          <5>1. [bug[r] EXCEPT !.state = s, !.pr = IF None = None THEN @ ELSE None] \in BugRecords
            BY <3>1, ReportAssumption DEF BugRecords
          <5>2. \A c \in BugRecords : Seen(c).chased = c.chased
            BY DEF Seen, BugRecords
          <5> QED
            BY <4>1, <5>1, <5>2 DEF Upserted
        <4> QED
          BY <4>2
      <3>3. \A p \in PRs : [Because(bug[r], "fix-queued", "other") EXCEPT !.pr = p, !.rejections = 0].chased
                              = bug[r].chased
        <4>1. "fix-queued" \in States \ {"no-reply"} /\ "other" \in Deferrals /\ Kept(bug[r], bug[r])
          BY DEF States, Deferrals, Kept
        <4>2. /\ Kept(bug[r], Because(bug[r], "fix-queued", "other"))
              /\ Because(bug[r], "fix-queued", "other") \in BugRecords
          BY <3>1, <4>1, BecauseKeeps, BugFields
        <4> QED
          BY <4>2 DEF Kept, BugRecords
      <3>4. CASE bug' = [bug EXCEPT ![r].state = "open", ![r].why = "other"]
        BY <3>1, <3>4, Typed DEF BugRecords
      <3>5. CASE \E s \in Clicks : bug' = [bug EXCEPT ![r] = Upserted(bug[r], s, None)]
        BY <3>2, <3>5, Typed
      <3>6. CASE \E p \in PRs : bug' = [bug EXCEPT ![r] = [Because(bug[r], "fix-queued", "other")
                                                          EXCEPT !.pr = p, !.rejections = 0]]
        BY <3>3, <3>6, Typed
      <3> QED
        BY <1>4, <3>4, <3>5, <3>6 DEF Dashboard
    <2> QED
      BY <2>1, <2>2 DEF AnswerNoted, ClosesRightly
  <1>5. ASSUME NEW r \in Reports, DashboardDraft(r)
        PROVE  AnswerNoted' /\ ClosesRightly
    <2>1. bug' = bug /\ replied' = replied
      BY <1>5 DEF DashboardDraft
    <2> QED
      BY <2>1, SameKept, KeptSuffices
  <1> QED
    BY <1>1, <1>2, <1>3, <1>4, <1>5 DEF People

LEMMA MarkKept ==
    ASSUME TypeOK, NEW r, NEW s \in States \ {"no-reply"},
           bug' = [bug EXCEPT ![r].state = s, ![r].why = "other"]
    PROVE  AllKept
  <1>1. r \in Reports => Kept(bug[r], [bug[r] EXCEPT !.state = s, !.why = "other"])
    BY BugKept, SetKeeps DEF Deferrals
  <1>2. bug' = [bug EXCEPT ![r] = [bug[r] EXCEPT !.state = s, !.why = "other"]]
    BY Typed
  <1> QED
    BY <1>1, <1>2, OneKept

LEMMA HoldKept ==
    ASSUME TypeOK, NEW r, bug' = bug \/ bug' = [bug EXCEPT ![r] = Hold(@)]
    PROVE  AllKept
  <1>1. r \in Reports => Kept(bug[r], Hold(bug[r]))
    BY BugKept, OthersKeep
  <1>2. CASE bug' = bug
    BY <1>2, SameKept
  <1>3. CASE bug' = [bug EXCEPT ![r] = Hold(@)]
    BY <1>1, <1>3, OneKept
  <1> QED
    BY <1>2, <1>3

LEMMA OpenStates ==
    {"open", "fixed", "off-topic", "investigating", "deferred", "needs-detail", "question",
     "feature-request", "duplicate", "fix-queued", "confirmed"} \subseteq States \ {"no-reply"}
  BY DEF States

LEMMA LoadNoted ==
    ASSUME TypeOK, AnswerNoted, LoadState
    PROVE  AnswerNoted' /\ ClosesRightly
  <1>1. CASE \/ \E p \in PRs : SyncPr(p)
             \/ StartScan \/ StartDeployed \/ EndDeployed \/ StartFlush \/ EndFlush \/ StartChase
             \/ StartDirect \/ EndDirect \/ \E r \in Reports : Deployed(r) \/ Flush(r)
    <2>1. bug' = bug /\ replied' = replied
      BY <1>1 DEF SyncPr, StartScan, StartDeployed, EndDeployed, StartFlush, EndFlush, StartChase,
                  StartDirect, EndDirect, Deployed, Flush, database
    <2> QED
      BY <2>1, SameKept, KeptSuffices
  <1>2. CASE SyncClosed
    <2>1. PICK wontfix \in BOOLEAN :
             bug' = [r \in Reports |->
                        IF r \notin job.todo THEN bug[r]
                        ELSE IF wontfix THEN [Because(bug[r], "deferred", "other") EXCEPT !.pr = None]
                        ELSE Reopened(bug[r])]
      BY <1>2 DEF SyncClosed
    <2>2. ASSUME NEW r \in Reports
          PROVE  /\ Kept(bug[r], bug[r]) /\ Kept(bug[r], Reopened(bug[r]))
                 /\ Kept(bug[r], [Because(bug[r], "deferred", "other") EXCEPT !.pr = None])
      <3>1. "other" \in Deferrals /\ None \in PRs \union {None}
        BY DEF Deferrals
      <3>2. /\ Because(bug[r], "deferred", "other") \in BugRecords
            /\ Kept(bug[r], Because(bug[r], "deferred", "other"))
        BY <3>1, BugKept, BugFields, BecauseKeeps, OpenStates
      <3>3. Kept(bug[r], [Because(bug[r], "deferred", "other") EXCEPT !.pr = None])
        BY <3>1, <3>2, SetKeeps, OpenStates
      <3> QED
        BY <3>3, BugKept, OthersKeep
    <2>3. AllKept
      BY <2>1, <2>2 DEF AllKept
    <2> QED
      BY <1>2, <2>3, KeptSuffices DEF SyncClosed
  <1>3. CASE EndScan
    <2>1. \/ bug' = bug
          \/ \E r, s : /\ s \in {"fixed", "off-topic", "investigating"}
                       /\ bug' = [bug EXCEPT ![r].state = s, ![r].why = "other"]
      BY <1>3 DEF EndScan
    <2>2. AllKept
      BY <2>1, SameKept, MarkKept, OpenStates
    <2> QED
      BY <1>3, <2>2, KeptSuffices DEF EndScan
  <1>4. ASSUME NEW r \in Reports, Chase(r)
        PROVE  AnswerNoted' /\ ClosesRightly
    <2>1. replied' = replied /\ (bug' = bug \/ bug' = [bug EXCEPT ![r].chased = "cannot"])
      BY <1>4 DEF Chase
    <2>2. CASE bug' = bug
      BY <2>1, <2>2, SameKept, KeptSuffices
    <2>3. CASE bug' = [bug EXCEPT ![r].chased = "cannot"]
      <3>1. \A q \in Reports : /\ bug'[q].state = bug[q].state
                               /\ bug'[q].chased \in {bug[q].chased, "cannot"}
        BY <2>3, Typed DEF BugRecords
      <3> QED
        BY <2>1, <3>1 DEF AnswerNoted, ClosesRightly
    <2> QED
      BY <2>1, <2>2, <2>3
  <1>5. CASE EndChase
    <2>1. replied' = replied
      BY <1>5 DEF EndChase
    <2>2. ASSUME NEW r \in Reports
          PROVE  \/ bug'[r] = bug[r]
                 \/ bug[r].chased = "late" /\ bug'[r].chased = "late"
      BY <1>5, Typed DEF EndChase, BugRecords
    <2> QED
      BY <2>1, <2>2 DEF AnswerNoted, ClosesRightly
  <1>6. ASSUME NEW r \in Reports, Direct(r)
        PROVE  AnswerNoted' /\ ClosesRightly
    <2>1. replied' = replied /\ (bug' = bug \/ MarkFixed(r))
      BY <1>6 DEF Direct
    <2>2. AllKept
      BY <2>1, SameKept, MarkKept, OpenStates DEF MarkFixed
    <2> QED
      BY <2>1, <2>2, KeptSuffices
  <1> QED
    BY <1>1, <1>2, <1>3, <1>4, <1>5, <1>6 DEF LoadState

LEMMA AnsweredNoted ==
    ASSUME TypeOK, AnswerNoted, NEW ok \in BOOLEAN, Answered(ok)
    PROVE  AnswerNoted' /\ ClosesRightly
  <1>1. CASE AnsweredChase(ok)
    <2> DEFINE covered == IF ok THEN Siblings(job.r) ELSE {}
    <2>1. /\ bug' = [r \in Reports |-> IF r \in covered
                                       THEN [bug[r] EXCEPT !.chased = "sent", !.since = FALSE] ELSE bug[r]]
          /\ replied' = {q \in replied : \A r \in covered : ReporterOf[q] # ReporterOf[r]}
      BY <1>1 DEF AnsweredChase
    <2>2. ASSUME NEW r \in Reports
          PROVE  /\ bug'[r].state = bug[r].state
                 /\ r \in replied' => r \in replied /\ bug'[r] = bug[r]
      <3> HIDE DEF covered
      <3>1. bug'[r].state = bug[r].state
        BY <2>1, Typed DEF BugRecords
      <3>2. r \in replied' => r \in replied /\ r \notin covered
        BY <2>1
      <3> QED
        BY <2>1, <3>1, <3>2
    <2> QED
      BY <2>2 DEF AnswerNoted, ClosesRightly
  <1>2. CASE ~AnsweredChase(ok)
    <2>1. replied' = replied
      BY <1>2 DEF Answered, AnsweredDeployed, AnsweredDraft, AnsweredDirect, AnsweredTriage,
                  AnsweredRecheck, AnsweredAsk, AnsweredRefuse
    <2>2. \/ bug' = bug \/ bug' = [bug EXCEPT ![job.r] = Hold(@)]
          \/ MarkFixed(job.r)
      BY <1>2 DEF Answered, AnsweredDeployed, AnsweredDraft, AnsweredDirect, AnsweredTriage,
                  AnsweredRecheck, AnsweredAsk, AnsweredRefuse
    <2>3. AllKept
      BY <2>2, HoldKept, MarkKept, OpenStates DEF MarkFixed
    <2> QED
      BY <2>1, <2>3, KeptSuffices
  <1> QED
    BY <1>1, <1>2

\* Whatever triage makes of the reports, it keeps what noteReporterReply left.
LEMMA FiledKept ==
    ASSUME TypeOK, NEW r \in Reports, NEW b \in [Reports -> BugRecords], NEW q \in Reports
    PROVE  /\ Verdict(r) # "works" => Kept(b[q], Filed(r, Verdict(r), b)[q])
           /\ Verdict(r) = "works" => Kept(bug[q], Filed(r, Verdict(r), b)[q])
  <1> DEFINE v == Verdict(r)
             F == Filed(r, v, b)
  <1>1. b[q] \in BugRecords /\ Kept(b[q], b[q]) /\ "other" \in Deferrals /\ None \in PRs \union {None}
    BY DEF Kept, Deferrals
  <1>2. ASSUME NEW s \in States \ {"no-reply"}, NEW p \in PRs \union {None}
        PROVE  /\ Kept(b[q], Seen(b[q])) /\ Kept(b[q], Hold(b[q])) /\ Kept(b[q], Upserted(b[q], s, p))
               /\ Kept(b[q], Because(b[q], s, "other"))
               /\ Kept(b[q], [b[q] EXCEPT !.state = s, !.why = "other"])
               /\ Kept(b[q], Seen([b[q] EXCEPT !.state = s, !.why = "other"]))
               /\ Kept(b[q], Upserted([b[q] EXCEPT !.why = "other"], s, p))
    <2>1. [b[q] EXCEPT !.why = "other"] \in BugRecords /\ [b[q] EXCEPT !.state = s, !.why = "other"] \in BugRecords
      BY <1>1, BugHelpers
    <2>2. Kept(b[q], [b[q] EXCEPT !.why = "other"]) /\ Kept(b[q], [b[q] EXCEPT !.state = s, !.why = "other"])
      BY <1>1, SetKeeps
    <2> QED
      BY <1>1, <2>1, <2>2, SeenKeeps, UpsertKeeps, BecauseKeeps, OthersKeep
  <1>3. CASE v = "works"
    <2>1. Kept(bug[q], bug[q]) /\ Kept(bug[q], Confirmed(bug[q]))
      BY BugKept, OthersKeep
    <2>2. F = [bug EXCEPT ![Max(Works(r))] = Confirmed(@)]
      BY <1>3 DEF Filed
    <2>3. F[q] \in {bug[q], Confirmed(bug[q])}
      BY <2>2, Typed
    <2> QED
      BY <1>3, <2>1, <2>3
  <1>4. CASE v \in {"reopen", "skip", "feature", "release", "again", "deferred", "regression", "question",
                    "unjudged", "vague", "open"}
    <2>1. F[q] \in {b[q], Seen(b[q]), Hold(b[q]), Upserted(b[q], "feature-request", None),
                    Upserted(b[q], "question", None), Upserted(b[q], "open", None),
                    Because(b[q], "deferred", "other"), [b[q] EXCEPT !.state = "open", !.why = "other"],
                    Seen([b[q] EXCEPT !.state = "open", !.why = "other"])}
      <3>1. CASE v = "reopen"
        BY <3>1 DEF Filed
      <3>2. CASE v \in {"skip", "again"}
        BY <3>2 DEF Filed
      <3>3. CASE v \in {"feature", "question", "open"}
        BY <3>3 DEF Filed
      <3>4. CASE v = "release"
        BY <3>4 DEF Filed
      <3>5. CASE v \in {"deferred", "regression"}
        BY <3>5 DEF Filed
      <3>6. CASE v \in {"unjudged", "vague"}
        BY <3>6 DEF Filed
      <3> QED
        BY <1>4, <3>1, <3>2, <3>3, <3>4, <3>5, <3>6
    <2>2. /\ Kept(b[q], b[q]) /\ Kept(b[q], Seen(b[q])) /\ Kept(b[q], Hold(b[q]))
          /\ Kept(b[q], Upserted(b[q], "feature-request", None))
      BY <1>1, <1>2, OpenStates
    <2>3. Kept(b[q], Upserted(b[q], "question", None)) /\ Kept(b[q], Upserted(b[q], "open", None))
      BY <1>1, <1>2, OpenStates
    <2>4. /\ Kept(b[q], Because(b[q], "deferred", "other"))
          /\ Kept(b[q], [b[q] EXCEPT !.state = "open", !.why = "other"])
          /\ Kept(b[q], Seen([b[q] EXCEPT !.state = "open", !.why = "other"]))
      BY <1>2, OpenStates
    <2>5. Kept(b[q], F[q])
      <3> HIDE DEF F
      <3> QED
        BY <2>1, <2>2, <2>3, <2>4
    <2>6. v # "works"
      BY <1>4
    <2> QED
      BY <2>5, <2>6
  <1>5. CASE v = "link"
    <2> DEFINE p == bug[Min(Linkable(r))].pr
    <2>1. p \in PRs \union {None}
      <3>1. Linkable(r) # {} /\ Linkable(r) \subseteq Reports
        BY <1>5, VerdictNames DEF Linkable, In
      <3> QED
        BY <3>1, PrOfMin
    <2>2. F[q] \in {b[q], Upserted(b[q], "fix-queued", p)}
      BY <1>5 DEF Filed
    <2> HIDE DEF p
    <2> QED
      BY <1>1, <1>2, <1>5, <2>1, <2>2, OpenStates
  <1>6. CASE v = "duplicate"
    <2> DEFINE p == IF Twins(r) = {} THEN None ELSE bug[Min(Twins(r))].pr
    <2>1. p \in PRs \union {None}
      <3>1. Twins(r) \subseteq Reports
        BY DEF Twins, In
      <3> QED
        BY <3>1, PrOfMin
    <2>2. F[q] \in {b[q], Upserted([b[q] EXCEPT !.why = "other"], "duplicate", p)}
      BY <1>6 DEF Filed
    <2> HIDE DEF p
    <2> QED
      BY <1>1, <1>2, <1>6, <2>1, <2>2, OpenStates
  <1> QED
    BY <1>3, <1>4, <1>5, <1>6, VerdictNames

LEMMA TriageNoted ==
    ASSUME TypeOK, AnswerNoted, NEW r \in Reports, Triage(r)
    PROVE  AnswerNoted' /\ ClosesRightly
  <1>1. ASSUME NEW q \in Reports
        PROVE  /\ Noted(r)[q].state = bug[q].state
               /\ ~(Adds(r) /\ q = Max(Asked(r))) => Noted(r)[q].chased = bug[q].chased
               /\ Adds(r) /\ q = Max(Asked(r)) => Noted(r)[q].chased \in {"no", "cannot"}
    <2>1. /\ Heard(bug[q]).state = bug[q].state
          /\ Heard(bug[q]).chased \in {"no", "cannot"}
      <3>1. Seen(bug[q]) \in BugRecords /\ Seen(bug[q]).state = bug[q].state
        <4>1. bug[q] \in BugRecords
          BY Typed
        <4>2. Seen(bug[q]) \in BugRecords
          BY <4>1, BugHelpers DEF States, Deferrals
        <4>3. Seen(bug[q]).state = bug[q].state
          BY <4>1 DEF Seen, BugRecords
        <4> QED
          BY <4>2, <4>3
      <3> QED
        BY <3>1 DEF Heard, BugRecords
    <2> QED
      BY <2>1, Typed DEF Noted
  <1>2. Noted(r) \in [Reports -> BugRecords]
    BY NotedTyped
  <1>3. CASE Verdict(r) = "works"
    <2>1. replied' = replied /\ bug' = Filed(r, Verdict(r), Noted(r))
      BY <1>3 DEF Triage
    <2>2. AllKept
      BY <1>2, <1>3, <2>1, FiledKept DEF AllKept
    <2> QED
      BY <2>1, <2>2, KeptSuffices
  <1>4. CASE Verdict(r) # "works"
    <2>1. replied' = IF Adds(r) THEN replied \union {Max(Asked(r))} ELSE replied
      BY <1>4 DEF Triage
    <2>2. \A q \in Reports : Kept(Noted(r)[q], bug'[q])
      <3>1. bug' = Noted(r) \/ bug' = Filed(r, Verdict(r), Noted(r))
        BY DEF Triage
      <3>2. CASE bug' = Noted(r)
        BY <3>2 DEF Kept
      <3>3. CASE bug' = Filed(r, Verdict(r), Noted(r))
        BY <1>2, <1>4, <3>3, FiledKept
      <3> QED
        BY <3>1, <3>2, <3>3
    <2>3. \A q \in Reports : /\ bug'[q].chased = Noted(r)[q].chased
                             /\ bug'[q].state = "no-reply" => bug[q].state = "no-reply"
      BY <1>1, <2>2 DEF Kept
    <2> QED
      BY <1>1, <2>1, <2>3 DEF AnswerNoted, ClosesRightly
  <1> QED
    BY <1>3, <1>4

LEMMA LapNoted ==
    ASSUME TypeOK, AnswerNoted, Lap
    PROVE  AnswerNoted' /\ ClosesRightly
  <1>1. CASE Fetch \/ StartRouter \/ Dispatch \/ TaskDeferred \/ OpenPr
    <2>1. bug' = bug /\ replied' = replied
      BY <1>1 DEF Fetch, StartRouter, Dispatch, TaskDeferred, OpenPr, database, ghosts
    <2> QED
      BY <2>1, SameKept, KeptSuffices
  <1>2. CASE LapEnd
    <2>1. bug' = Rendered /\ replied' = replied
      BY <1>2 DEF LapEnd, ghosts
    <2> QED
      BY <2>1, RenderedKept, KeptSuffices
  <1>3. CASE Decide
    <2>1. PICK live \in BOOLEAN :
             bug' = [r \in Reports |->
                    LET b == IF live /\ Unreadable(r) THEN CameBack(bug[r]) ELSE Deferred(r) IN
                    IF r \in Handled THEN b ELSE Escalated(b)]
      BY <1>3 DEF Decide
    <2>2. ASSUME NEW r \in Reports
          PROVE  /\ Deferred(r) \in BugRecords /\ CameBack(bug[r]) \in BugRecords
                 /\ Kept(bug[r], Deferred(r)) /\ Kept(bug[r], CameBack(bug[r]))
      <3>1. done[r] \in {"detail", "unreach", "other"} => done[r] \in Deferrals
        BY DEF Deferrals
      <3>2. CameBack(bug[r]) \in BugRecords
        BY BugKept, BugHelpers DEF States, Deferrals
      <3>3. Deferred(r) \in BugRecords
        BY <3>1, BugKept, BugHelpers, StateNames DEF Deferred
      <3>4. Kept(bug[r], Deferred(r))
        BY <3>1, BugKept, BecauseKeeps, OpenStates DEF Deferred
      <3> QED
        BY <3>2, <3>3, <3>4, BugKept, OthersKeep
    <2>3. AllKept
      <3>1. \A r \in Reports : Kept(bug[r], Escalated(Deferred(r))) /\ Kept(bug[r], Escalated(CameBack(bug[r])))
        BY <2>2, OthersKeep
      <3> QED
        BY <2>1, <2>2, <3>1 DEF AllKept
    <2> QED
      BY <1>3, <2>3, KeptSuffices DEF Decide
  <1>4. ASSUME NEW r \in Reports, AnswerQuestion(r)
        PROVE  AnswerNoted' /\ ClosesRightly
    <2>1. Kept(bug[r], Because(bug[r], "deferred", "other"))
      BY BugKept, BecauseKeeps, OpenStates DEF Deferrals
    <2>2. replied' = replied /\ (bug' = bug \/ bug' = [bug EXCEPT ![r] = Because(@, "deferred", "other")])
      BY <1>4 DEF AnswerQuestion
    <2>3. AllKept
      BY <2>1, <2>2, SameKept, OneKept
    <2> QED
      BY <2>2, <2>3, KeptSuffices
  <1>5. ASSUME NEW r \in Reports, Recheck(r)
        PROVE  AnswerNoted' /\ ClosesRightly
    <2>1. replied' = replied /\ (bug' = bug \/ bug' = [bug EXCEPT ![r] = Hold(@)])
      BY <1>5 DEF Recheck
    <2> QED
      BY <2>1, HoldKept, KeptSuffices
  <1>6. CASE TaskAsks \/ RefusePr
    <2>1. bug' = bug \/ bug' = [bug EXCEPT ![job.r] = Hold(@)]
      BY <1>6 DEF TaskAsks, RefusePr
    <2>2. replied' = replied
      BY <1>6 DEF TaskAsks, RefusePr, ghosts
    <2> QED
      BY <2>1, <2>2, HoldKept, KeptSuffices
  <1>7. CASE LoopBreaker
    <2>1. /\ replied' = replied
          /\ bug' = bug \/ bug' = [bug EXCEPT ![job.r].state = "deferred", ![job.r].why = "other"]
      BY <1>7 DEF LoopBreaker
    <2>2. AllKept
      BY <2>1, SameKept, MarkKept, OpenStates
    <2> QED
      BY <2>1, <2>2, KeptSuffices
  <1>8. CASE CreatePr
    <2>1. /\ replied' = replied /\ job.p \in PRs
          /\ bug' = [bug EXCEPT ![job.r] = Upserted(@, "fix-queued", job.p)]
      BY <1>8, Typed DEF CreatePr, Running, JobOK, JobRecords
    <2>2. job.r \in Reports => Kept(bug[job.r], Upserted(bug[job.r], "fix-queued", job.p))
      BY <2>1, BugKept, UpsertKeeps, OpenStates
    <2>3. AllKept
      BY <2>1, <2>2, OneKept
    <2> QED
      BY <2>1, <2>3, KeptSuffices
  <1> QED
    BY <1>1, <1>2, <1>3, <1>4, <1>5, <1>6, <1>7, <1>8, TriageNoted DEF Lap

LEMMA StepNoted == TypeOK /\ AnswerNoted /\ [Next]_vars => AnswerNoted' /\ ClosesRightly
  <1> SUFFICES ASSUME TypeOK, AnswerNoted, [Next]_vars PROVE AnswerNoted' /\ ClosesRightly
    OBVIOUS
  <1>1. CASE Store \/ Crash \/ UNCHANGED vars
    <2>1. bug' = bug /\ replied' = replied
      BY <1>1 DEF Store, Crash, vars, database, ghosts
    <2> QED
      BY <2>1, SameKept, KeptSuffices
  <1> QED
    BY <1>1, PeopleNoted, LoadNoted, LapNoted, AnsweredNoted DEF Next

\* A reporter who has answered since the reminder is not taken to have gone quiet: closeNoReply
\* only closes a report whose reminder still stands, and noteReporterReply has taken it back.
THEOREM NotClosed == Spec => AnsweredNotClosed
  <1>1. Init => AnswerNoted
    BY DEF Init, AnswerNoted
  <1>2. TypeOK /\ AnswerNoted /\ [Next]_vars => AnswerNoted'
    BY StepNoted
  <1>3. TypeOK /\ AnswerNoted /\ [Next]_vars =>
          [\A r \in Reports :
             bug[r].state # "no-reply" /\ bug'[r].state = "no-reply" /\ r \notin touched' => r \notin replied]_vars
    BY StepNoted DEF ClosesRightly
  <1> QED
    BY Typing, <1>1, <1>2, <1>3, PTL DEF Spec, AnsweredNotClosed

-------------------------------------------------------------------------------
(* What a step makes of a report's record *)

\* The parts of a record that say where the report stands.
Standing(b) == <<b.state, b.pr, b.rejections, b.why>>
WithState(b, s) == <<s, b.pr, b.rejections, b.why>>
WithReason(b, s, why) == <<s, b.pr, b.rejections, why>>

LEMMA SeenStanding ==
    ASSUME NEW b \in BugRecords
    PROVE  /\ Standing(Seen(b)) = Standing(b) /\ Standing(Heard(b)) = Standing(b)
           /\ Seen(b) \in BugRecords
  <1>1. Standing(Seen(b)) = Standing(b)
    BY DEF Seen, BugRecords, Standing
  <1>2. Seen(b) \in BugRecords
    BY BugHelpers DEF States, Deferrals
  <1>3. Standing(Heard(b)) = Standing(Seen(b))
    BY <1>2 DEF Heard, BugRecords, Standing
  <1> QED
    BY <1>1, <1>2, <1>3

LEMMA SetStanding ==
    ASSUME NEW b \in BugRecords, NEW s \in States, NEW why \in Deferrals, NEW p \in PRs \union {None}
    PROVE  /\ Standing([b EXCEPT !.state = s]) = WithState(b, s)
           /\ Standing([b EXCEPT !.state = s, !.why = why]) = WithReason(b, s, why)
           /\ Standing(Upserted(b, s, p)) = <<s, IF p = None THEN b.pr ELSE p, b.rejections, b.why>>
           /\ Standing(Because(b, s, why)) = WithReason(b, s, why)
           /\ Standing(Upserted([b EXCEPT !.why = why], s, p))
                = <<s, IF p = None THEN b.pr ELSE p, b.rejections, why>>
           /\ Standing(Seen([b EXCEPT !.state = s, !.why = why])) = WithReason(b, s, why)
  <1>1. /\ Standing([b EXCEPT !.state = s]) = WithState(b, s)
        /\ Standing([b EXCEPT !.state = s, !.why = why]) = WithReason(b, s, why)
    BY DEF Standing, WithState, WithReason, BugRecords
  <1>2. \A c \in BugRecords, q \in PRs \union {None} :
           Standing(Upserted(c, s, q)) = <<s, IF q = None THEN c.pr ELSE q, c.rejections, c.why>>
    <2> TAKE c \in BugRecords, q \in PRs \union {None}
    <2>1. /\ [c EXCEPT !.state = s, !.pr = IF q = None THEN @ ELSE q] \in BugRecords
          /\ Standing([c EXCEPT !.state = s, !.pr = IF q = None THEN @ ELSE q])
               = <<s, IF q = None THEN c.pr ELSE q, c.rejections, c.why>>
      BY DEF BugRecords, Standing
    <2> QED
      BY <2>1, SeenStanding DEF Upserted
  <1>3. Standing(Because(b, s, why)) = WithReason(b, s, why)
    <2>1. Upserted(b, s, None) \in BugRecords
      BY BugHelpers
    <2>2. Standing(Upserted(b, s, None)) = WithState(b, s)
      BY <1>2 DEF WithState
    <2> QED
      BY <2>1, <2>2 DEF Because, Standing, WithState, WithReason, BugRecords
  <1>4. [b EXCEPT !.why = why] \in BugRecords /\ [b EXCEPT !.state = s, !.why = why] \in BugRecords
    BY DEF BugRecords
  <1>5. Standing(Upserted([b EXCEPT !.why = why], s, p)) = <<s, IF p = None THEN b.pr ELSE p, b.rejections, why>>
    BY <1>2, <1>4 DEF BugRecords
  <1>6. Standing(Seen([b EXCEPT !.state = s, !.why = why])) = WithReason(b, s, why)
    BY <1>1, <1>4, SeenStanding
  <1> QED
    BY <1>1, <1>2, <1>3, <1>5, <1>6

LEMMA UpsertStanding ==
    ASSUME NEW b \in BugRecords, NEW s \in States, NEW p \in PRs \union {None}
    PROVE  /\ Standing(Upserted(b, s, p)) = <<s, IF p = None THEN b.pr ELSE p, b.rejections, b.why>>
           /\ Standing(Upserted([b EXCEPT !.why = "other"], s, p))
                = <<s, IF p = None THEN b.pr ELSE p, b.rejections, "other">>
           /\ Standing(Because(b, s, "other")) = WithReason(b, s, "other")
  BY SetStanding DEF Deferrals

LEMMA MarkStanding ==
    ASSUME NEW b \in BugRecords
    PROVE  /\ Standing(Hold(b)) = WithReason(b, "needs-detail", "other")
           /\ Standing(Confirmed(b)) = WithReason(b, "confirmed", "other")
           /\ Standing(Fixed(b)) = WithState(b, "fixed")
           /\ Standing(CameBack(b)) = WithReason(b, "open", "other")
           /\ Standing(Reopened(b)) = <<"open", None, b.rejections + 1, "other">>
  <1>1. "other" \in Deferrals
    BY DEF Deferrals
  <1>2. Standing(Hold(b)) = WithReason(b, "needs-detail", "other")
    BY <1>1, SetStanding, StateNames DEF Hold
  <1>3. Standing(Confirmed(b)) = WithReason(b, "confirmed", "other")
    BY <1>1, SetStanding, StateNames DEF Confirmed
  <1>4. Standing(Fixed(b)) = WithState(b, "fixed")
    <2>1. [b EXCEPT !.state = "fixed"] \in BugRecords
      BY StateNames, BugHelpers, <1>1
    <2>2. Standing([b EXCEPT !.state = "fixed"]) = WithState(b, "fixed")
      BY SetStanding, StateNames, <1>1
    <2> QED
      BY <2>1, <2>2, SeenStanding DEF Fixed
  <1>5. Standing(CameBack(b)) = WithReason(b, "open", "other")
    BY DEF CameBack, Standing, WithReason, BugRecords
  <1>6. Standing(Reopened(b)) = <<"open", None, b.rejections + 1, "other">>
    <2> DEFINE c == [b EXCEPT !.state = "open", !.pr = None, !.why = "other", !.rejections = @ + 1]
    <2>1. b.rejections + 1 \in Nat
      BY DEF BugRecords
    <2>2. c \in BugRecords /\ Standing(c) = <<"open", None, b.rejections + 1, "other">>
      BY <1>1, <2>1, StateNames DEF BugRecords, Standing
    <2> HIDE DEF c
    <2>3. Standing(Seen(c)) = Standing(c)
      BY <2>2, SeenStanding
    <2> QED
      BY <2>2, <2>3 DEF Reopened, c
  <1> QED
    BY <1>2, <1>3, <1>4, <1>5, <1>6

\* A report given up on, or taken on, or settled: its last pull request may be one that reviewers
\* turned down without the rejection being counted, and the monitor does not offer it again.
Parked(b) == b.state \in {"investigating", "off-topic"} \union Settled \/ (b.state = "deferred" /\ b.why = "other")

\* Of n pull requests accepted for a report, all but the one it has were rejected and counted.
Owing(b, n) ==
    /\ n <= b.rejections + 1
    /\ b.pr = None /\ ~Parked(b) => n <= b.rejections

\* The states in which a report waits for its pull request to go live.
Queued == {"fix-queued", "fixed"}

\* A step that leaves the pull request and the count alone and takes nothing up again; and one
\* that may take a report up, or give it a pull request.
Tame(b, c) ==
    /\ c.rejections = b.rejections /\ c.pr = b.pr
    /\ b.state \in Settled => c.state \in Settled
    /\ b.state \in Queued => c.state \in Queued
    /\ Parked(b) => Parked(c)
Mild(b, c) == c.rejections = b.rejections /\ (c.pr = b.pr \/ c.pr # None)

LEMMA TameMoves ==
    ASSUME NEW b, NEW c, NEW s, NEW why,
           \/ Standing(c) = Standing(b)
           \/ /\ Standing(c) \in {WithState(b, s), WithReason(b, s, why)}
              /\ s = "fixed" \/ (b.state \notin Queued /\ (s \in Settled \/ ~Parked(b)))
           \/ /\ Standing(c) = WithReason(b, s, why)
              /\ s \in {"investigating", "off-topic"} /\ b.state \notin Settled \union Queued
    PROVE  Tame(b, c)
  BY DEF Tame, Parked, Standing, WithState, WithReason, Settled, Queued

LEMMA MildMoves ==
    ASSUME NEW b, NEW c, NEW s, NEW why, NEW p,
           Standing(c) \in {<<s, p, b.rejections, why>>, WithReason(b, s, why), WithState(b, s)},
           p = b.pr \/ p # None
    PROVE  Mild(b, c)
  BY DEF Mild, Standing, WithState, WithReason

LEMMA Owes ==
    ASSUME NEW b \in BugRecords, NEW c \in BugRecords, NEW n \in Nat, Owing(b, n)
    PROVE  /\ Tame(b, c) => Owing(c, n) /\ Mild(b, c)
           /\ Mild(b, c) /\ (n <= b.rejections \/ b.pr # None) => Owing(c, n)
  BY DEF Tame, Mild, Owing, BugRecords

-------------------------------------------------------------------------------
(* People *)

\* What people and time do to a report nobody has changed on the dashboard: nothing, but that a
\* render finds it fixed once its pull request has merged.
LEMMA RenderedStanding ==
    ASSUME TypeOK, NEW r \in Reports, bug' = Rendered
    PROVE  \/ bug'[r] = bug[r]
           \/ /\ bug[r].state = "fix-queued" /\ Standing(bug'[r]) = WithState(bug[r], "fixed")
              /\ \E p \in PRs : bug[r].pr = p /\ pull[p].known = "MERGED"
  <1>1. bug[r] \in BugRecords
    BY Typed
  <1>2. Standing(Fixed(bug[r])) = WithState(bug[r], "fixed")
    BY <1>1, MarkStanding
  <1> QED
    BY <1>2 DEF Rendered

LEMMA WeekStanding ==
    ASSUME TypeOK, NEW r \in Reports, Week
    PROVE  /\ Standing(bug'[r]) = Standing(bug[r])
           /\ bug[r].state = "none" => bug'[r] = bug[r]
  <1>1. PICK stale \in SUBSET {q \in Reports : bug[q].age = "quiet"} :
           bug' = [q \in Reports |->
                IF bug[q].state = "none" THEN bug[q] ELSE
                [bug[q] EXCEPT !.age = IF @ = "stale" \/ q \in stale THEN "stale" ELSE "quiet",
                               !.chased = IF @ = "sent" THEN "late" ELSE @]]
    BY DEF Week
  <1>2. \A b \in BugRecords : \A x, y : Standing([b EXCEPT !.age = x, !.chased = y]) = Standing(b)
    BY DEF Standing, BugRecords
  <1>3. bug[r] \in BugRecords
    BY Typed
  <1>4. CASE bug[r].state = "none"
    BY <1>1, <1>4
  <1>5. CASE bug[r].state # "none"
    <2>1. PICK x, y : bug'[r] = [bug[r] EXCEPT !.age = x, !.chased = y]
      BY <1>1, <1>5
    <2>2. Standing([bug[r] EXCEPT !.age = x, !.chased = y]) = Standing(bug[r])
      BY <1>2, <1>3
    <2> QED
      BY <1>5, <2>1, <2>2
  <1> QED
    BY <1>4, <1>5

LEMMA PeopleSteps ==
    ASSUME TypeOK, People, NEW r \in Reports
    PROVE  /\ r \in touched' \/ Standing(bug'[r]) = Standing(bug[r])
              \/ /\ bug[r].state = "fix-queued" /\ Standing(bug'[r]) = WithState(bug[r], "fixed")
                 /\ \E p \in PRs : bug[r].pr = p /\ pull[p].known = "MERGED"
           /\ bug[r].state = "none" => bug'[r] = bug[r]
           /\ row'[r].pending => row[r].pending
  <1>1. CASE GitHub
    BY <1>1 DEF GitHub
  <1>2. CASE Week
    BY <1>2, WeekStanding DEF Week
  <1>3. CASE Status
    BY <1>3, RenderedStanding DEF Status
  <1>4. ASSUME NEW q \in Reports, Dashboard(q)
        PROVE  /\ q \in touched' /\ bug[q].state # "none" /\ row' = row
               /\ r # q => bug'[r] = bug[r]
    BY <1>4, Typed DEF Dashboard, Pressed
  <1>5. ASSUME NEW q \in Reports, DashboardDraft(q)
        PROVE  bug' = bug /\ (row'[r].pending => row[r].pending)
    <2>1. \A w \in RowRecords : ~Posted(w).pending /\ (Cancelled(w).pending => w.pending)
      BY DEF Posted, Cancelled, RowRecords
    <2> QED
      BY <1>5, <2>1, Typed DEF DashboardDraft
  <1> QED
    BY <1>1, <1>2, <1>3, <1>4, <1>5 DEF People

\* Besides, they leave alone what the monitor is in the middle of, and its lap.
LEMMA PeopleLeave ==
    ASSUME TypeOK, People
    PROVE  /\ touched \subseteq touched' /\ UNCHANGED <<job, class, lap, done, tries>>
           /\ \A p \in PRs : pull'[p].known = pull[p].known
  <1>1. touched \subseteq touched' /\ UNCHANGED <<job, class, lap, done, tries>>
    BY DEF People, GitHub, Week, Status, Dashboard, DashboardDraft, Pressed, context, ghosts
  <1>2. CASE GitHub
    <2>1. PICK p \in PRs, g \in {"merged", "closed", "wontfix", "live"} : pull' = [pull EXCEPT ![p].gh = g]
      BY <1>2 DEF GitHub
    <2> QED
      BY <1>1, <2>1, Typed DEF PullRecords
  <1>3. CASE ~GitHub
    BY <1>1, <1>3 DEF People, Week, Status, Dashboard, DashboardDraft
  <1> QED
    BY <1>2, <1>3

-------------------------------------------------------------------------------
(* LOAD_STATE, and what is recorded of a reply *)

\* The reports the monitor is in the middle of.
InHand(r) == r \in job.todo \union job.kept \/ r = job.r

\* A report is marked with a state, for no reason in particular.
Marked(q, s) == bug' = [bug EXCEPT ![q].state = s, ![q].why = "other"]

LEMMA MarkedStanding ==
    ASSUME TypeOK, NEW q, NEW s \in States, Marked(q, s), NEW r \in Reports
    PROVE  /\ r # q => bug'[r] = bug[r]
           /\ r = q => Standing(bug'[r]) = WithReason(bug[r], s, "other")
  <1>1. bug'[r] = IF r = q THEN [bug[r] EXCEPT !.state = s, !.why = "other"] ELSE bug[r]
    BY Typed DEF Marked
  <1>2. bug[r] \in BugRecords
    BY Typed
  <1>3. Standing([bug[r] EXCEPT !.state = s, !.why = "other"]) = WithReason(bug[r], s, "other")
    BY <1>2, SetStanding DEF Deferrals
  <1> QED
    BY <1>1, <1>3

LEMMA LoadSteps ==
    ASSUME TypeOK, LoadState, ~SyncClosed, NEW r \in Reports
    PROVE  /\ Tame(bug[r], bug'[r])
           /\ ~InHand(r) /\ bug[r].state = "none" => bug'[r] = bug[r]
  <1>0. ASSUME bug'[r] = bug[r]
        PROVE  Tame(bug[r], bug'[r])
    BY <1>0 DEF Tame
  <1>1. CASE \/ \E p \in PRs : SyncPr(p)
             \/ StartScan \/ StartDeployed \/ EndDeployed \/ StartFlush \/ EndFlush \/ StartChase
             \/ StartDirect \/ EndDirect \/ \E q \in Reports : Deployed(q) \/ Flush(q)
    <2>1. bug' = bug
      BY <1>1 DEF SyncPr, StartScan, StartDeployed, EndDeployed, StartFlush, EndFlush, StartChase,
                  StartDirect, EndDirect, Deployed, Flush, database
    <2> QED
      BY <1>0, <2>1
  <1>2. CASE EndScan
    <2>1. CASE bug' = bug
      BY <1>0, <2>1
    <2>2. CASE \E q \in job.kept : Marked(q, "fixed")
      <3>1. PICK q \in job.kept : Marked(q, "fixed")
        BY <2>2
      <3>2. /\ r # q => bug'[r] = bug[r]
            /\ r = q => Standing(bug'[r]) = WithReason(bug[r], "fixed", "other")
        BY <3>1, MarkedStanding, StateNames
      <3> QED
        BY <1>0, <3>1, <3>2, TameMoves DEF InHand
    <2>3. CASE \E q \in job.todo, s \in {"off-topic", "investigating"} :
                  bug[q].state \notin Settled \union {"fix-queued"} /\ Marked(q, s)
      <3>1. PICK q \in job.todo, s \in {"off-topic", "investigating"} :
                  bug[q].state \notin Settled \union {"fix-queued"} /\ Marked(q, s)
        BY <2>3
      <3>2. /\ r # q => bug'[r] = bug[r]
            /\ r = q => Standing(bug'[r]) = WithReason(bug[r], s, "other")
        BY <3>1, MarkedStanding, StateNames
      <3> QED
        BY <1>0, <3>1, <3>2, TameMoves DEF InHand, Settled, Queued
    <2> QED
      BY <1>2, <2>1, <2>2, <2>3 DEF EndScan, Marked
  <1>3. ASSUME NEW q \in Reports, Chase(q)
        PROVE  Standing(bug'[r]) = Standing(bug[r]) /\ (~InHand(r) => bug'[r] = bug[r])
    <2>1. bug' = bug \/ (q \in job.todo /\ bug' = [bug EXCEPT ![q].chased = "cannot"])
      BY <1>3 DEF Chase
    <2>2. bug[r] \in BugRecords
      BY Typed
    <2>3. Standing([bug[r] EXCEPT !.chased = "cannot"]) = Standing(bug[r])
      BY <2>2 DEF Standing, BugRecords
    <2>4. r # q \/ bug' = bug => bug'[r] = bug[r]
      BY <2>1, Typed
    <2>5. r = q /\ bug' # bug => bug'[r] = [bug[r] EXCEPT !.chased = "cannot"] /\ InHand(r)
      BY <2>1, Typed DEF InHand
    <2> QED
      BY <2>3, <2>4, <2>5
  <1>4. CASE EndChase
    <2>1. bug'[r] = bug[r] \/ (r \in Waiting /\ bug'[r] = [bug[r] EXCEPT !.state = "no-reply", !.why = "other"])
      BY <1>4 DEF EndChase
    <2>2. bug[r] \in BugRecords
      BY Typed
    <2>3. Standing([bug[r] EXCEPT !.state = "no-reply", !.why = "other"]) = WithReason(bug[r], "no-reply", "other")
      BY <2>2, SetStanding, StateNames DEF Deferrals
    <2>4. r \in Waiting => bug[r].state \notin Queued \union {"none"} /\ ~Parked(bug[r])
      BY DEF Waiting, In, Parked, Settled, Queued
    <2> QED
      BY <1>0, <2>1, <2>3, <2>4, TameMoves
  <1>5. ASSUME NEW q \in Reports, Direct(q)
        PROVE  /\ bug'[r] = bug[r] \/ Standing(bug'[r]) = WithReason(bug[r], "fixed", "other")
               /\ ~InHand(r) => bug'[r] = bug[r]
    <2>1. bug' = bug \/ (q \in job.todo /\ Marked(q, "fixed"))
      BY <1>5 DEF Direct, MarkFixed, Marked
    <2>2. CASE bug' = bug
      BY <2>2
    <2>3. CASE q \in job.todo /\ Marked(q, "fixed")
      BY <2>3, MarkedStanding, StateNames DEF InHand
    <2> QED
      BY <2>1, <2>2, <2>3
  <1>6. ASSUME NEW q \in Reports, Chase(q) \/ Direct(q)
        PROVE  Tame(bug[r], bug'[r])
    BY <1>0, <1>3, <1>5, <1>6, TameMoves
  <1> QED
    BY <1>1, <1>2, <1>3, <1>4, <1>5, <1>6 DEF LoadState

LEMMA AnsweredSteps ==
    ASSUME TypeOK, NEW ok \in BOOLEAN, Answered(ok), NEW r \in Reports
    PROVE  /\ \/ Tame(bug[r], bug'[r])
              \/ r = job.r /\ Mild(bug[r], bug'[r]) /\ job.at \in {"triage", "route", "ask", "refuse"}
           /\ ~InHand(r) => bug'[r] = bug[r]
           /\ \/ bug'[r] = bug[r] \/ job.at \in {"chase", "direct"}
              \/ r = job.r /\ job.at \in {"triage", "route", "ask", "refuse"}
  <1>1. bug[r] \in BugRecords
    BY Typed
  <1>2. CASE AnsweredDeployed(ok) \/ AnsweredDraft(ok)
    <2>1. bug' = bug
      BY <1>2 DEF AnsweredDeployed, AnsweredDraft
    <2> QED
      BY <2>1 DEF Tame
  <1>3. CASE AnsweredChase(ok)
    <2>1. bug'[r] = bug[r] \/ (r \in job.todo /\ bug'[r] = [bug[r] EXCEPT !.chased = "sent", !.since = FALSE])
      BY <1>3 DEF AnsweredChase, Siblings
    <2>2. Standing([bug[r] EXCEPT !.chased = "sent", !.since = FALSE]) = Standing(bug[r])
      BY <1>1 DEF Standing, BugRecords
    <2>3. job.at = "chase"
      BY <1>3 DEF AnsweredChase
    <2> QED
      BY <2>1, <2>2, <2>3, TameMoves DEF InHand
  <1>4. CASE AnsweredDirect(ok)
    <2>1. bug' = bug \/ Marked(job.r, "fixed")
      BY <1>4 DEF AnsweredDirect, MarkFixed, Marked
    <2>2. CASE bug' = bug
      BY <2>2 DEF Tame
    <2>3. CASE Marked(job.r, "fixed")
      <3>1. job.at = "direct"
        BY <1>4 DEF AnsweredDirect
      <3>2. /\ r # job.r => bug'[r] = bug[r]
            /\ r = job.r => Standing(bug'[r]) = WithReason(bug[r], "fixed", "other")
        BY <2>3, MarkedStanding, StateNames
      <3> QED
        BY <3>1, <3>2, TameMoves DEF InHand
    <2> QED
      BY <2>1, <2>2, <2>3
  <1>5. CASE AnsweredTriage(ok) \/ AnsweredRecheck(ok) \/ AnsweredAsk(ok) \/ AnsweredRefuse(ok)
    <2>1. /\ bug' = bug \/ bug' = [bug EXCEPT ![job.r] = Hold(@)]
          /\ job.at \in {"triage", "route", "ask", "refuse"}
      BY <1>5 DEF AnsweredTriage, AnsweredRecheck, AnsweredAsk, AnsweredRefuse
    <2>2. CASE bug' = bug
      BY <2>2 DEF Tame
    <2>3. CASE bug' = [bug EXCEPT ![job.r] = Hold(@)]
      <3>1. bug'[r] = IF r = job.r THEN Hold(bug[r]) ELSE bug[r]
        BY <2>3, Typed
      <3>2. Standing(Hold(bug[r])) = WithReason(bug[r], "needs-detail", "other")
        BY <1>1, MarkStanding
      <3>3. Mild(bug[r], Hold(bug[r]))
        BY <3>2, MildMoves
      <3> QED
        BY <2>1, <3>1, <3>3 DEF InHand, Tame
    <2> QED
      BY <2>1, <2>2, <2>3
  <1> QED
    BY <1>2, <1>3, <1>4, <1>5 DEF Answered

-------------------------------------------------------------------------------
(* Triage and the batch *)

\* Where a feature request is filed, and stays.
Wish == {"none", "feature-request"}

LEMMA AskedAmong ==
    ASSUME TypeOK, NEW q \in Reports, Adds(q)
    PROVE  Max(Asked(q)) \in Asked(q)
  <1>1. Asked(q) \subseteq Reports /\ Asked(q) # {} /\ \A x \in Asked(q) : x < q
    BY DEF Asked, Earlier, Waiting, In, Adds
  <1>2. Asked(q) \subseteq Nat /\ q \in Nat
    BY <1>1, ReportAssumption
  <1>3. \A x \in Asked(q) : x <= q
    BY <1>1, <1>2
  <1> QED
    BY <1>1, <1>2, <1>3, MaxExists

LEMMA WorksAmong ==
    ASSUME TypeOK, NEW q \in Reports, Verdict(q) = "works"
    PROVE  Max(Works(q)) \in In({"open", "investigating", "deferred", "needs-detail"})
  <1>1. Works(q) # {}
    BY DEF Verdict
  <1>2. Works(q) \subseteq Nat /\ q \in Nat /\ \A x \in Works(q) : x <= q
    <2>1. Works(q) \subseteq Reports /\ \A x \in Works(q) : x < q
      BY DEF Works, Earlier, In
    <2>2. Reports \subseteq Nat
      BY ReportAssumption
    <2>3. ASSUME NEW x \in Works(q)
          PROVE  x \in Nat /\ x <= q
      <3>1. x \in Nat /\ q \in Nat /\ x < q
        BY <2>1, <2>2
      <3> QED
        BY <3>1
    <2> QED
      BY <2>2, <2>3
  <1>3. Max(Works(q)) \in Works(q)
    BY <1>1, <1>2, MaxExists
  <1> QED
    BY <1>3 DEF Works, Earlier

\* What is noted of an answer changes nothing about where the report stands, and is about one
\* that waits for its reporter.
Awaited(b) == b.state \notin Wish \union Queued /\ ~Parked(b)

LEMMA NotedStanding ==
    ASSUME TypeOK, NEW q \in Reports, NEW r \in Reports
    PROVE  /\ Noted(q)[r] \in BugRecords
           /\ \/ Noted(q)[r] = bug[r]
              \/ Standing(Noted(q)[r]) = Standing(bug[r]) /\ Awaited(bug[r])
  <1>1. Noted(q)[r] \in BugRecords /\ bug[r] \in BugRecords
    BY NotedTyped, Typed
  <1>2. CASE ~(Adds(q) /\ r = Max(Asked(q)))
    BY <1>1, <1>2, Typed DEF Noted
  <1>3. CASE Adds(q) /\ r = Max(Asked(q))
    <2>1. Noted(q)[r] = Heard(bug[r])
      BY <1>3, Typed DEF Noted
    <2>2. r \in Asked(q)
      BY <1>3, AskedAmong
    <2>3. Awaited(bug[r])
      BY <2>2 DEF Asked, Earlier, Waiting, In, Awaited, Wish, Parked, Settled, Queued
    <2> QED
      BY <1>1, <2>1, <2>3, SeenStanding
  <1> QED
    BY <1>2, <1>3

\* How a report may come out of the handling of post q: as it was; moved without being taken up
\* again; or, the post's own report if it is not settled, filed.
Filing(q, r, b, c) ==
    \/ c = b
    \/ b.state \notin Wish /\ Tame(b, c)
    \/ r = q /\ b.state \notin Settled /\ Mild(b, c)

LEMMA FiledSteps ==
    ASSUME TypeOK, NEW q \in Reports, NEW r \in Reports, class[q].type # "feature_request"
    PROVE  Filing(q, r, bug[r], Filed(q, Verdict(q), Noted(q))[r])
  <1> DEFINE v == Verdict(q)
             n == Noted(q)
             F == Filed(q, v, n)
  <1> SUFFICES Filing(q, r, bug[r], F[r])
    OBVIOUS
  <1>1. bug[r] \in BugRecords /\ n[r] \in BugRecords /\ n \in [Reports -> BugRecords]
    BY Typed, NotedTyped
  <1> HIDE DEF n
  <1>2. n[r] = bug[r] \/ (Standing(n[r]) = Standing(bug[r]) /\ Awaited(bug[r]))
    BY NotedStanding DEF n
  <1>11. Standing(n[r]) = Standing(bug[r])
    BY <1>2
  <1>3. Filing(q, r, bug[r], n[r])
    BY <1>2, TameMoves DEF Filing, Awaited
  <1>4. v # "feature"
    BY DEF Verdict, Says
  <1>5. CASE v = "works"
    <2>1. F = [bug EXCEPT ![Max(Works(q))] = Confirmed(@)]
      BY <1>5 DEF Filed
    <2>2. F[r] = IF r = Max(Works(q)) THEN Confirmed(bug[r]) ELSE bug[r]
      BY <2>1, Typed
    <2>3. Standing(Confirmed(bug[r])) = WithReason(bug[r], "confirmed", "other")
      BY <1>1, MarkStanding
    <2>4. r = Max(Works(q)) => bug[r].state \notin Wish \union Queued
      BY <1>5, WorksAmong DEF In, Wish, Queued
    <2>5. bug[r].state \notin Queued => Tame(bug[r], Confirmed(bug[r]))
      BY <2>3, TameMoves DEF Settled
    <2> QED
      BY <2>2, <2>4, <2>5 DEF Filing
  <1>6. CASE v = "reopen"
    <2>1. F[r] = IF r = Max(Asked(q)) THEN [n[r] EXCEPT !.state = "open", !.why = "other"] ELSE n[r]
      BY <1>1, <1>6 DEF Filed
    <2>2. CASE r = Max(Asked(q))
      <3>1. Adds(q)
        BY <1>6 DEF Verdict
      <3>2. Awaited(bug[r])
        BY <2>2, <3>1, AskedAmong DEF Asked, Earlier, Waiting, In, Awaited, Wish, Parked, Settled, Queued
      <3>3. Standing([n[r] EXCEPT !.state = "open", !.why = "other"]) = WithReason(n[r], "open", "other")
        BY <1>1, SetStanding, StateNames DEF Deferrals
      <3>4. Standing(F[r]) = WithReason(bug[r], "open", "other")
        BY <1>11, <2>1, <2>2, <3>3 DEF Standing, WithReason
      <3> HIDE DEF F
      <3> QED
        BY <3>2, <3>4, TameMoves DEF Filing, Awaited
    <2>3. CASE r # Max(Asked(q))
      BY <1>3, <2>1, <2>3
    <2> QED
      BY <2>2, <2>3
  <1>7. CASE v = "skip"
    <2>1. F = n
      BY <1>7 DEF Filed
    <2> QED
      BY <1>3, <2>1
  <1>8. CASE v = "release"
    <2>1. F[r] = IF r \in HeldFirst(In({"needs-detail"}))
                 THEN Seen([n[r] EXCEPT !.state = "open", !.why = "other"]) ELSE n[r]
      BY <1>8 DEF Filed
    <2>2. CASE r \in HeldFirst(In({"needs-detail"}))
      <3>1. Awaited(bug[r])
        BY <2>2 DEF HeldFirst, In, Awaited, Wish, Parked, Settled, Queued
      <3>2. Standing(Seen([n[r] EXCEPT !.state = "open", !.why = "other"])) = WithReason(n[r], "open", "other")
        BY <1>1, SetStanding, StateNames DEF Deferrals
      <3>3. Standing(F[r]) = WithReason(bug[r], "open", "other")
        BY <1>11, <2>1, <2>2, <3>2 DEF Standing, WithReason
      <3> HIDE DEF F
      <3> QED
        BY <3>1, <3>3, TameMoves DEF Filing, Awaited
    <2>3. CASE r \notin HeldFirst(In({"needs-detail"}))
      BY <1>3, <2>1, <2>3
    <2> QED
      BY <2>2, <2>3
  <1>9. CASE v = "again"
    <2> DEFINE S == In({"open", "investigating"}) \ {q}
    <2>1. S # {} /\ S \subseteq Nat
      BY <1>9, ReportAssumption DEF Verdict, In
    <2>2. Min(S) \in S
      BY <2>1, MinExists
    <2>3. F[r] = IF r = Min(S) THEN Seen(n[r]) ELSE n[r]
      BY <1>1, <1>9 DEF Filed
    <2>4. CASE r = Min(S)
      <3>1. bug[r].state \notin Wish
        BY <2>2, <2>4 DEF In, Wish
      <3>2. Standing(F[r]) = Standing(bug[r])
        BY <1>1, <1>11, <2>3, <2>4, SeenStanding
      <3> HIDE DEF F
      <3> QED
        BY <3>1, <3>2, TameMoves DEF Filing
    <2>5. CASE r # Min(S)
      BY <1>3, <2>3, <2>5
    <2> QED
      BY <2>4, <2>5
  <1>10. CASE v \in {"link", "duplicate", "deferred", "regression", "question", "unjudged", "vague", "open"}
    <2>1. r # q => F[r] = n[r]
      <3>1. CASE v \in {"link", "duplicate", "deferred"}
        BY <1>1, <3>1 DEF Filed
      <3>2. CASE v \in {"regression", "question", "unjudged", "vague", "open"}
        BY <1>1, <3>2 DEF Filed
      <3> QED
        BY <1>10, <3>1, <3>2
    <2>2. r = q => bug[r].state \notin Settled
      BY <1>10 DEF Verdict, Further
    <2>3. ASSUME r = q
          PROVE  Mild(n[r], F[r])
      <3>1. "other" \in Deferrals /\ None \in PRs \union {None}
        BY DEF Deferrals
      <3>2. CASE v = "link"
        <4> DEFINE p == bug[Min(Linkable(q))].pr
        <4>1. Linkable(q) # {} /\ Linkable(q) \subseteq Reports
          BY <3>2, VerdictNames DEF Linkable, In
        <4>2. p \in PRs \union {None}
          BY <4>1, PrOfMin
        <4>3. F[r] = Upserted(n[r], "fix-queued", p)
          BY <1>1, <2>3, <3>2 DEF Filed
        <4> HIDE DEF p, F
        <4>4. "fix-queued" \in States
          BY StateNames
        <4>5. Standing(F[r]) = <<"fix-queued", IF p = None THEN n[r].pr ELSE p, n[r].rejections, n[r].why>>
          <5>1. Standing(Upserted(n[r], "fix-queued", p))
                  = <<"fix-queued", IF p = None THEN n[r].pr ELSE p, n[r].rejections, n[r].why>>
            BY <1>1, <4>2, <4>4, UpsertStanding
          <5> QED
            BY <4>3, <5>1
        <4> QED
          BY <4>5, MildMoves
      <3>3. CASE v = "duplicate"
        <4> DEFINE p == IF Twins(q) = {} THEN None ELSE bug[Min(Twins(q))].pr
        <4>1. Twins(q) \subseteq Reports
          BY DEF Twins, In
        <4>2. p \in PRs \union {None}
          BY <4>1, PrOfMin
        <4>3. F[r] = Upserted([n[r] EXCEPT !.why = "other"], "duplicate", p)
          BY <1>1, <2>3, <3>3 DEF Filed
        <4> HIDE DEF p, F
        <4>4. Standing(F[r]) = <<"duplicate", IF p = None THEN n[r].pr ELSE p, n[r].rejections, "other">>
          BY <1>1, <4>2, <4>3, UpsertStanding, StateNames
        <4> QED
          BY <4>4, MildMoves
      <3>4. CASE v \in {"question", "open"}
        <4>1. F[r] = Upserted(n[r], v, None)
          BY <1>1, <2>3, <3>4 DEF Filed
        <4> HIDE DEF F
        <4>2. Standing(F[r]) = <<v, n[r].pr, n[r].rejections, n[r].why>>
          BY <1>1, <3>1, <3>4, <4>1, UpsertStanding, StateNames
        <4> QED
          BY <4>2, MildMoves
      <3>5. CASE v \in {"deferred", "regression", "unjudged", "vague"}
        <4>1. PICK s \in {"deferred", "needs-detail"} : F[r] = Because(n[r], s, "other")
          BY <1>1, <2>3, <3>5 DEF Filed, Hold
        <4> HIDE DEF F
        <4>2. s \in States
          BY StateNames
        <4>3. Standing(F[r]) = WithReason(n[r], s, "other")
          BY <1>1, <4>1, <4>2, UpsertStanding
        <4> QED
          BY <4>3, MildMoves
      <3> QED
        BY <1>10, <3>2, <3>3, <3>4, <3>5
    <2>4. CASE r # q
      BY <1>3, <2>1, <2>4
    <2>5. CASE r = q
      <3>1. Mild(bug[r], F[r])
        BY <1>11, <2>3, <2>5 DEF Mild, Standing
      <3> QED
        BY <2>2, <2>5, <3>1 DEF Filing
    <2> QED
      BY <2>4, <2>5
  <1> QED
    BY <1>4, <1>5, <1>6, <1>7, <1>8, <1>9, <1>10, VerdictNames

LEMMA TriageSteps ==
    ASSUME TypeOK, NEW q \in Reports, Triage(q), NEW r \in Reports
    PROVE  /\ class[q].type # "feature_request" => Filing(q, r, bug[r], bug'[r])
           /\ class[q].type = "feature_request" =>
                \/ bug'[r] = bug[r]
                \/ r = q /\ Standing(bug'[r]) = WithState(bug[r], "feature-request")
  <1>1. bug' = Noted(q) \/ bug' = Filed(q, Verdict(q), Noted(q))
    BY DEF Triage
  <1>2. CASE class[q].type # "feature_request"
    <2>1. Filing(q, r, bug[r], Noted(q)[r])
      BY NotedStanding, TameMoves DEF Filing, Awaited
    <2> QED
      BY <1>1, <1>2, <2>1, FiledSteps
  <1>3. CASE class[q].type = "feature_request"
    <2>1. Noted(q) = bug /\ Verdict(q) \in {"skip", "feature"}
      BY <1>3 DEF Noted, Adds, Says, Verdict
    <2>2. bug' = bug \/ bug' = [bug EXCEPT ![q] = Upserted(@, "feature-request", None)]
      BY <1>1, <2>1 DEF Filed
    <2>3. bug[r] \in BugRecords
      BY Typed
    <2>4. CASE bug' = [bug EXCEPT ![q] = Upserted(@, "feature-request", None)]
      <3>1. bug'[r] = IF r = q THEN Upserted(bug[r], "feature-request", None) ELSE bug[r]
        BY <2>4, Typed
      <3>2. "feature-request" \in States /\ None \in PRs \union {None}
        BY StateNames
      <3>3. Standing(Upserted(bug[r], "feature-request", None)) = WithState(bug[r], "feature-request")
        BY <2>3, <3>2, UpsertStanding DEF WithState
      <3> QED
        BY <1>3, <3>1, <3>3
    <2> QED
      BY <1>3, <2>2, <2>4
  <1> QED
    BY <1>2, <1>3

\* The router's bookkeeping takes up a report only from a deferral it may come back from.
LEMMA DecideSteps ==
    ASSUME TypeOK, Decide, NEW r \in Reports
    PROVE  bug'[r] = bug[r] \/ (bug[r].state \notin Wish /\ Tame(bug[r], bug'[r]))
  <1>1. PICK live \in BOOLEAN :
           bug' = [q \in Reports |->
                  LET b == IF live /\ Unreadable(q) THEN CameBack(bug[q]) ELSE Deferred(q) IN
                  IF q \in Handled THEN b ELSE Escalated(b)]
    BY DEF Decide
  <1> DEFINE b == IF live /\ Unreadable(r) THEN CameBack(bug[r]) ELSE Deferred(r)
  <1>2. bug'[r] = b \/ bug'[r] = Escalated(b)
    BY <1>1
  <1>3. bug[r] \in BugRecords /\ CameBack(bug[r]) \in BugRecords
    BY Typed, BugHelpers, StateNames DEF Deferrals
  <1>4. /\ Deferred(r) \in BugRecords
        /\ \/ Deferred(r) = bug[r]
           \/ bug[r].state = "open" /\ Standing(Deferred(r)) = WithReason(bug[r], "deferred", done[r])
    <2>1. CASE bug[r].state = "open" /\ done[r] \in {"detail", "unreach", "other"}
      <3>1. done[r] \in Deferrals /\ "deferred" \in States
        BY <2>1, StateNames DEF Deferrals
      <3>2. Because(bug[r], "deferred", done[r]) \in BugRecords
        BY <1>3, <3>1, BugFields, BugHelpers
      <3>3. Standing(Because(bug[r], "deferred", done[r])) = WithReason(bug[r], "deferred", done[r])
        BY <1>3, <3>1, SetStanding
      <3> QED
        BY <2>1, <3>2, <3>3 DEF Deferred
    <2>2. CASE ~(bug[r].state = "open" /\ done[r] \in {"detail", "unreach", "other"})
      BY <1>3, <2>2 DEF Deferred
    <2> QED
      BY <2>1, <2>2
  <1>5. Unreadable(r) => Awaited(bug[r])
    BY <1>4 DEF Unreadable, Awaited, Parked, Wish, Settled, Queued, Standing, WithReason
  <1>6. /\ b \in BugRecords
        /\ b = bug[r] \/ (Awaited(bug[r]) /\ \E s, why : Standing(b) = WithReason(bug[r], s, why))
    <2>1. CASE live /\ Unreadable(r)
      BY <1>3, <1>5, <2>1, MarkStanding
    <2>2. CASE ~(live /\ Unreadable(r))
      BY <1>4, <2>2 DEF Awaited, Parked, Wish, Settled, Queued
    <2> QED
      BY <2>1, <2>2
  <1> HIDE DEF b
  <1>7. CASE bug'[r] = b
    BY <1>6, <1>7, TameMoves DEF Awaited
  <1>8. CASE bug'[r] = Escalated(b) /\ Escalated(b) # b
    <2>1. Escalated(b) = Because(b, "deferred", "other") /\ b.state = "open"
      BY <1>8 DEF Escalated
    <2>2. "deferred" \in States
      BY StateNames
    <2>3. Standing(bug'[r]) = WithReason(b, "deferred", "other")
      BY <1>6, <1>8, <2>1, <2>2, UpsertStanding
    <2>4. WithReason(b, "deferred", "other") = WithReason(bug[r], "deferred", "other")
      BY <1>6 DEF Standing, WithReason
    <2>5. Awaited(bug[r])
      BY <1>6, <2>1 DEF Awaited, Parked, Wish, Settled, Queued
    <2> QED
      BY <2>3, <2>4, <2>5, TameMoves DEF Awaited
  <1> QED
    BY <1>2, <1>7, <1>8

\* The reports a step of the lap may take up, each by its own path: the post that is filed, the
\* one that is judged again, the one a fix task has in hand.
TakenUp(r) ==
    \/ job.at = "triage" /\ r \in job.todo /\ (bug[r].state \notin Settled \/ class[r].type = "feature_request")
    \/ job.at = "route" /\ r \in job.todo
    \/ job.at \in {"fix", "opened"} /\ r = job.r

LEMMA LapSteps ==
    ASSUME TypeOK, Lap, NEW r \in Reports
    PROVE  \/ bug'[r] = bug[r]
           \/ bug[r].state \notin Wish /\ Tame(bug[r], bug'[r])
           \/ TakenUp(r) /\ Mild(bug[r], bug'[r])
  <1>1. bug[r] \in BugRecords
    BY Typed
  <1>2. CASE Fetch \/ StartRouter \/ Dispatch \/ TaskDeferred \/ OpenPr
    BY <1>2 DEF Fetch, StartRouter, Dispatch, TaskDeferred, OpenPr, database
  <1>3. CASE LapEnd
    <2>1. bug' = Rendered
      BY <1>3 DEF LapEnd
    <2> QED
      BY <2>1, RenderedStanding, TameMoves DEF Wish
  <1>4. CASE Decide
    BY <1>4, DecideSteps
  <1>5. ASSUME NEW q \in Reports, Triage(q)
        PROVE  \/ bug'[r] = bug[r]
               \/ bug[r].state \notin Wish /\ Tame(bug[r], bug'[r])
               \/ TakenUp(r) /\ Mild(bug[r], bug'[r])
    <2>1. job.at = "triage" /\ q \in job.todo
      BY <1>5 DEF Triage, Running
    <2>2. CASE class[q].type # "feature_request"
      BY <1>5, <2>1, <2>2, TriageSteps DEF Filing, TakenUp
    <2>3. CASE class[q].type = "feature_request"
      <3>1. Standing(bug'[r]) = WithState(bug[r], "feature-request") => Mild(bug[r], bug'[r])
        BY MildMoves
      <3> QED
        BY <1>5, <2>1, <2>3, <3>1, TriageSteps DEF TakenUp
    <2> QED
      BY <2>2, <2>3
  <1>6. ASSUME NEW q \in Reports, AnswerQuestion(q)
        PROVE  bug'[r] = bug[r] \/ (bug[r].state \notin Wish /\ Tame(bug[r], bug'[r]))
    <2>1. /\ bug[q].state = "question"
          /\ bug' = bug \/ bug' = [bug EXCEPT ![q] = Because(@, "deferred", "other")]
      BY <1>6 DEF AnswerQuestion
    <2>2. bug'[r] = bug[r] \/ (r = q /\ bug'[r] = Because(bug[r], "deferred", "other"))
      BY <2>1, Typed
    <2>3. "deferred" \in States
      BY StateNames
    <2>4. Standing(Because(bug[r], "deferred", "other")) = WithReason(bug[r], "deferred", "other")
      BY <1>1, <2>3, UpsertStanding
    <2>5. r = q => bug[r].state \notin Wish \union Queued /\ ~Parked(bug[r])
      BY <2>1 DEF Wish, Parked, Settled, Queued
    <2> QED
      BY <2>2, <2>4, <2>5, TameMoves
  <1>7. Mild(bug[r], Hold(bug[r]))
    <2>1. Standing(Hold(bug[r])) = WithReason(bug[r], "needs-detail", "other")
      BY <1>1, MarkStanding
    <2> QED
      BY <2>1, MildMoves
  <1>8. ASSUME NEW q \in Reports, Recheck(q)
        PROVE  bug'[r] = bug[r] \/ (TakenUp(r) /\ Mild(bug[r], bug'[r]))
    <2>1. /\ job.at = "route" /\ q \in job.todo
          /\ bug' = bug \/ bug' = [bug EXCEPT ![q] = Hold(@)]
      BY <1>8 DEF Recheck, Running
    <2>2. bug'[r] = bug[r] \/ (r = q /\ bug'[r] = Hold(bug[r]))
      BY <2>1, Typed
    <2> QED
      BY <1>7, <2>1, <2>2 DEF TakenUp
  <1>9. CASE TaskAsks \/ RefusePr
    <2>1. /\ job.at \in {"fix", "opened"}
          /\ bug' = bug \/ bug' = [bug EXCEPT ![job.r] = Hold(@)]
      BY <1>9 DEF TaskAsks, RefusePr, Running
    <2>2. bug'[r] = bug[r] \/ (r = job.r /\ bug'[r] = Hold(bug[r]))
      BY <2>1, Typed
    <2> QED
      BY <1>7, <2>1, <2>2 DEF TakenUp
  <1>10. CASE LoopBreaker
    <2>1. bug' = bug \/ (bug[job.r].state = "open" /\ Marked(job.r, "deferred"))
      BY <1>10 DEF LoopBreaker, Marked
    <2>2. CASE bug[job.r].state = "open" /\ Marked(job.r, "deferred")
      <3>1. "deferred" \in States
        BY StateNames
      <3>2. /\ r # job.r => bug'[r] = bug[r]
            /\ r = job.r => Standing(bug'[r]) = WithReason(bug[r], "deferred", "other")
        BY <2>2, <3>1, MarkedStanding
      <3>3. r = job.r => bug[r].state \notin Wish \union Queued /\ ~Parked(bug[r])
        BY <2>2 DEF Wish, Parked, Settled, Queued
      <3> QED
        BY <3>2, <3>3, TameMoves
    <2> QED
      BY <2>1, <2>2
  <1>11. CASE CreatePr
    <2>1. /\ job.at = "opened" /\ job.p \in PRs
          /\ bug' = [bug EXCEPT ![job.r] = Upserted(@, "fix-queued", job.p)]
      BY <1>11, Typed DEF CreatePr, Running, JobOK, JobRecords
    <2>2. bug'[r] = bug[r] \/ (r = job.r /\ bug'[r] = Upserted(bug[r], "fix-queued", job.p))
      BY <2>1, Typed
    <2>3. "fix-queued" \in States /\ job.p # None
      BY <2>1, StateNames, ReportAssumption
    <2>4. Standing(Upserted(bug[r], "fix-queued", job.p)) = <<"fix-queued", job.p, bug[r].rejections, bug[r].why>>
      BY <1>1, <2>1, <2>3, UpsertStanding
    <2>5. Mild(bug[r], Upserted(bug[r], "fix-queued", job.p))
      BY <2>3, <2>4, MildMoves
    <2> QED
      BY <2>1, <2>2, <2>5 DEF TakenUp
  <1> QED
    BY <1>2, <1>3, <1>4, <1>5, <1>6, <1>8, <1>9, <1>10, <1>11 DEF Lap

-------------------------------------------------------------------------------
(* From one list to the next *)

\* The loops in which no lap is under way, and those that have reports picked for a fix task.
Lapless == {"load", "closing", "scanning", "direct", "deployed", "flush", "chase"}
Batch == {"route", "fix", "opened", "ask", "refuse"}

\* From one step to the next the monitor keeps to the reports it listed, works on one of them, or
\* turns to other reports by one of a few doors.
Flow ==
    /\ job'.at \in Lapless => (job.at \in Lapless /\ lap' = lap) \/ lap' = {}
    /\ job'.at \notin Lapless => (job.at \notin Lapless /\ lap' = lap) \/ (Fetch /\ job' = At("work"))
    /\ job'.at = "closing" => \/ job' = job /\ (People \/ UNCHANGED vars)
                              \/ \E p \in PRs : /\ SyncPr(p) /\ Known(p) = "CLOSED" /\ job'.p = p
                                                /\ job'.todo = Dropped(p) /\ job'.r = None
    /\ job'.at = "triage" =>
          \/ job'.todo = lap /\ job'.kept = {} /\ job'.r = None
          \/ /\ job.at = "triage" /\ job'.todo \subseteq job.todo /\ job'.kept \subseteq job.kept
             /\ \/ job'.r \in {None, job.r}
                \/ job'.r \in job.todo /\ Verdict(job'.r) = "vague"
    /\ job'.at = "route" =>
          \/ /\ Decide /\ job'.todo = Offered' \ lap /\ job'.kept = Offered' \intersect lap
             /\ job'.r = None
          \/ /\ job.at = "route" /\ job'.todo \subseteq job.todo
             /\ job'.kept \subseteq job.kept \union job.todo /\ job'.r \in {None, job.r} \union job.todo
             /\ job'.r = job.r \/ job'.r \notin job'.todo
    /\ job'.at = "fix" =>
          \/ job.at = "fix" /\ job'.todo = job.todo /\ job'.kept = job.kept /\ job'.r = job.r
          \/ job.at = "route" /\ job'.todo = {} /\ job'.kept = {} /\ job'.r \in job.kept
    /\ job'.at \in {"opened", "ask", "refuse"} =>
          /\ job.at \in {"fix", "opened", "ask", "refuse"} /\ job'.r = job.r
          /\ job'.todo \subseteq job.todo /\ job'.kept \subseteq job.kept

\* In the loops of LOAD_STATE there is nothing to show but that they are such.
LEMMA LaplessFlow ==
    ASSUME job.at \in Lapless, job'.at \in Lapless \ {"closing"}, lap' = lap
    PROVE  Flow
  BY DEF Flow, Lapless

LEMMA SameFlow ==
    ASSUME TypeOK, UNCHANGED <<job, lap>>, job.at # "closing" \/ People \/ UNCHANGED vars
    PROVE  Flow
  BY DEF Flow, Lapless

LEMMA LoadFlow ==
    ASSUME TypeOK, LoadState
    PROVE  Flow
  <1>0. lap' = lap
    BY DEF LoadState, SyncPr, SyncClosed, StartScan, EndScan, StartDeployed, EndDeployed, StartFlush,
           EndFlush, StartChase, EndChase, StartDirect, EndDirect, Deployed, Flush, Chase, Direct, Frame,
           context
  <1>1. ASSUME NEW p \in PRs, SyncPr(p)
        PROVE  Flow
    <2>1. job.at = "load"
      BY <1>1 DEF SyncPr, Running
    <2>2. CASE job' = job
      BY <1>0, <2>1, <2>2, LaplessFlow DEF Lapless
    <2>3. CASE Known(p) = "CLOSED" /\ job' = [At("closing") EXCEPT !.p = p, !.todo = Dropped(p)]
      <3>1. job'.at = "closing" /\ job'.p = p /\ job'.todo = Dropped(p) /\ job'.r = None
        BY <2>3, JobShapes
      <3> QED
        BY <1>0, <1>1, <2>1, <2>3, <3>1 DEF Flow, Lapless
    <2> QED
      BY <1>1, <2>2, <2>3 DEF SyncPr
  <1>2. CASE SyncClosed \/ EndScan \/ EndDeployed \/ EndFlush \/ EndChase \/ EndDirect
    <2>1. job.at \in Lapless /\ job' = At("load")
      BY <1>2 DEF SyncClosed, EndScan, EndDeployed, EndFlush, EndChase, EndDirect, Running, Lapless
    <2> QED
      BY <1>0, <2>1, JobShapes, LaplessFlow DEF Lapless
  <1>3. CASE StartScan \/ StartDeployed \/ StartFlush \/ StartChase \/ StartDirect
    <2>1. job.at = "load"
      BY <1>3 DEF StartScan, StartDeployed, StartFlush, StartChase, StartDirect, Begin, Running
    <2>2. job'.at \in {"scanning", "deployed", "flush", "chase", "direct"}
      <3>1. CASE StartScan
        BY <3>1, JobShapes DEF StartScan
      <3>2. CASE StartDeployed
        <4>1. \E S, f : job' = [At("deployed") EXCEPT !.todo = S, !.of = f]
          BY <3>2 DEF StartDeployed
        <4> QED
          BY <4>1, JobShapes
      <3>3. CASE StartFlush \/ StartChase \/ StartDirect
        <4>1. \E l \in {"flush", "chase", "direct"} : \E S : job' = [At(l) EXCEPT !.todo = S]
          BY <3>3 DEF StartFlush, StartChase, StartDirect, Begin
        <4> QED
          BY <4>1, JobShapes
      <3> QED
        BY <1>3, <3>1, <3>2, <3>3
    <2> QED
      BY <1>0, <2>1, <2>2, LaplessFlow DEF Lapless
  <1>4. ASSUME NEW q \in Reports, Deployed(q) \/ Flush(q) \/ Chase(q) \/ Direct(q)
        PROVE  Flow
    <2>1. job.at \in {"deployed", "flush", "chase", "direct"}
      BY <1>4 DEF Deployed, Flush, Chase, Direct, Running
    <2>2. \E S : job' = Without(job, S) \/ Post(Without(job, S), q) \/ Post(job, q)
      BY <1>4 DEF Deployed, Flush, Chase, Direct, SendDraft
    <2>3. job'.at = job.at
      BY <2>2, WithoutShape, PostShape, Typed
    <2> QED
      BY <1>0, <2>1, <2>3, LaplessFlow DEF Lapless
  <1> QED
    BY <1>1, <1>2, <1>3, <1>4 DEF LoadState

LEMMA AnsweredFlow ==
    ASSUME TypeOK, NEW ok \in BOOLEAN, Answered(ok)
    PROVE  Flow
  <1>0. lap' = lap
    BY DEF Answered, AnsweredDeployed, AnsweredDraft, AnsweredChase, AnsweredDirect, AnsweredTriage,
           AnsweredRecheck, AnsweredAsk, AnsweredRefuse, Frame, Work
  <1>1. CASE AnsweredDeployed(ok) \/ AnsweredChase(ok) \/ AnsweredDirect(ok)
    <2>1. /\ job.at \in {"deployed", "chase", "direct"}
          /\ \/ \E S : job' = Without(Back, S)
             \/ \E S : job' = [Back EXCEPT !.failed = S]
             \/ job' = Back
      BY <1>1 DEF AnsweredDeployed, AnsweredChase, AnsweredDirect
    <2>2. job'.at = job.at
      BY <2>1, BackShape DEF Without, JobRecords
    <2> QED
      BY <1>0, <2>1, <2>2, LaplessFlow DEF Lapless
  <1>2. CASE AnsweredDraft(ok)
    <2>1. CASE job.at = "flush"
      <3>1. job' = Back
        BY <1>2, <2>1 DEF AnsweredDraft
      <3> QED
        BY <1>0, <2>1, <3>1, BackShape, LaplessFlow DEF Lapless
    <2>2. CASE job.at = "answer"
      <3>1. job'.at = "work"
        BY <1>2, <2>2, JobShapes DEF AnsweredDraft
      <3> QED
        BY <1>0, <2>2, <3>1 DEF Flow, Lapless
    <2> QED
      BY <1>2, <2>1, <2>2 DEF AnsweredDraft
  <1>3. CASE AnsweredTriage(ok) \/ AnsweredRecheck(ok)
    <2>1. job.at \in {"triage", "route"} /\ job' = Back
      BY <1>3 DEF AnsweredTriage, AnsweredRecheck
    <2>2. /\ job'.at = job.at /\ job'.todo = job.todo /\ job'.kept = job.kept /\ job'.r = None
          /\ None \notin job.todo
      BY <2>1, BackShape, Typed, ReportAssumption
    <2> QED
      BY <1>0, <2>1, <2>2 DEF Flow, Lapless
  <1>4. CASE AnsweredAsk(ok) \/ AnsweredRefuse(ok)
    <2>1. job.at \in {"ask", "refuse"} /\ job'.at = "work"
      BY <1>4, JobShapes DEF AnsweredAsk, AnsweredRefuse
    <2> QED
      BY <1>0, <2>1 DEF Flow, Lapless
  <1> QED
    BY <1>1, <1>2, <1>3, <1>4 DEF Answered

LEMMA LapFlow ==
    ASSUME TypeOK, Lap
    PROVE  Flow
  <1>1. CASE Fetch
    <2>1. job' = At("work") /\ job'.at = "work"
      BY <1>1, JobShapes DEF Fetch
    <2> QED
      BY <1>1, <2>1 DEF Flow, Lapless
  <1>2. CASE LapEnd
    <2>1. lap' = {} /\ job'.at = "load"
      BY <1>2, JobShapes DEF LapEnd, Forget
    <2> QED
      BY <2>1 DEF Flow, Lapless
  <1>3. CASE StartRouter
    <2>1. /\ job.at = "work" /\ lap' = lap
          /\ job'.at = "triage" /\ job'.todo = lap /\ job'.kept = {} /\ job'.r = None
      BY <1>3, JobShapes DEF StartRouter, Running
    <2> QED
      BY <2>1 DEF Flow, Lapless
  <1>4. ASSUME NEW q \in Reports, Triage(q)
        PROVE  Flow
    <2>1. job.at = "triage" /\ q \in job.todo /\ lap' = lap
      BY <1>4 DEF Triage, Running
    <2>2. job' = Without(job, {q}) \/ (Verdict(q) = "vague" /\ Post(Without(job, {q}), q))
      BY <1>4 DEF Triage, Ask
    <2>3. /\ job'.at = "triage" /\ job'.todo \subseteq job.todo /\ job'.kept = job.kept
          /\ job'.r = job.r \/ (job'.r = q /\ Verdict(q) = "vague")
      BY <2>1, <2>2, WithoutShape, PostShape
    <2> QED
      BY <2>1, <2>3 DEF Flow, Lapless
  <1>5. ASSUME NEW q \in Reports, AnswerQuestion(q)
        PROVE  Flow
    <2>1. job.at = "work" /\ lap' = lap /\ (job' = job \/ Post(At("answer"), q))
      BY <1>5 DEF AnswerQuestion, Running
    <2>2. job'.at \in {"work", "answer"}
      <3>1. At("answer") \in JobRecords /\ At("answer").at = "answer"
        BY StartJob DEF Loops
      <3> QED
        BY <2>1, <3>1, PostShape
    <2> QED
      BY <2>1, <2>2 DEF Flow, Lapless
  <1>6. CASE Decide
    <2>1. job.at = "triage" /\ lap' = lap
      BY <1>6 DEF Decide, Running
    <2>2. \/ job'.at = "work"
          \/ /\ job'.at = "route" /\ job'.todo = Offered' \ lap /\ job'.kept = Offered' \intersect lap
             /\ job'.r = None
      <3> DEFINE j(S, K) == [At("route") EXCEPT !.todo = S, !.kept = K]
      <3>1. job' = At("work") \/ job' = j(Offered' \ lap, Offered' \intersect lap)
        BY <1>6 DEF Decide
      <3>2. \A S, K : j(S, K).at = "route" /\ j(S, K).todo = S /\ j(S, K).kept = K /\ j(S, K).r = None
        BY JobShapes
      <3> HIDE DEF j
      <3> QED
        BY <3>1, <3>2, JobShapes
    <2> QED
      BY <1>6, <2>1, <2>2 DEF Flow, Lapless
  <1>7. ASSUME NEW q \in Reports, Recheck(q)
        PROVE  Flow
    <2>1. job.at = "route" /\ q \in job.todo /\ lap' = lap
      BY <1>7 DEF Recheck, Running
    <2>2. \/ job' = [Without(job, {q}) EXCEPT !.kept = @ \union {q}]
          \/ job' = Without(job, {q})
          \/ Post(Without(job, {q}), q)
      BY <1>7 DEF Recheck, Ask
    <2>3. /\ job'.at = "route" /\ job'.todo \subseteq job.todo /\ job'.kept \subseteq job.kept \union job.todo
          /\ job'.r \in {job.r, q} /\ q \notin job'.todo
      <3>1. CASE job' = [Without(job, {q}) EXCEPT !.kept = @ \union {q}]
        <4>1. \A j \in JobRecords : LET k == [j EXCEPT !.kept = @ \union {q}] IN
                 k.at = j.at /\ k.todo = j.todo /\ k.r = j.r /\ k.kept = j.kept \union {q}
          BY DEF JobRecords
        <4> QED
          BY <2>1, <3>1, <4>1, WithoutShape
      <3>2. CASE job' = Without(job, {q}) \/ Post(Without(job, {q}), q)
        BY <2>1, <3>2, WithoutShape, PostShape
      <3> QED
        BY <2>2, <3>1, <3>2
    <2> QED
      BY <2>1, <2>3 DEF Flow, Lapless
  <1>8. CASE Dispatch
    <2> DEFINE old == job.kept \ lap
    <2>1. job.at = "route" /\ lap' = lap
      BY <1>8 DEF Dispatch, Running
    <2>2. job.kept \subseteq Nat /\ old \subseteq Nat
      BY Typed, ReportAssumption
    <2>3. (old # {} => Min(old) \in job.kept) /\ (job.kept # {} => Min(job.kept) \in job.kept)
      BY <2>2, MinExists
    <2>4. \/ job'.at = "work"
          \/ \E q \in job.kept : job' = [At("fix") EXCEPT !.r = q]
      <3> DEFINE x == IF old # {} THEN Min(old) ELSE Min(job.kept)
      <3>1. job' = IF job.kept = {} THEN At("work") ELSE [At("fix") EXCEPT !.r = x]
        BY <1>8 DEF Dispatch
      <3>2. job.kept # {} => x \in job.kept
        BY <2>3
      <3> HIDE DEF x
      <3> QED
        BY <3>1, <3>2, JobShapes
    <2>5. job'.at = "work" \/ (job'.at = "fix" /\ job'.todo = {} /\ job'.kept = {} /\ job'.r \in job.kept)
      <3>1. CASE \E q \in job.kept : job' = [At("fix") EXCEPT !.r = q]
        <4>1. PICK q \in job.kept : job' = [At("fix") EXCEPT !.r = q]
          BY <3>1
        <4> QED
          BY <4>1, JobShapes
      <3> QED
        BY <2>4, <3>1
    <2> QED
      BY <2>1, <2>5 DEF Flow, Lapless
  <1>9. CASE TaskDeferred \/ LoopBreaker \/ CreatePr
    <2>1. job.at \in {"fix", "opened"} /\ lap' = lap /\ job'.at = "work"
      BY <1>9, JobShapes DEF TaskDeferred, LoopBreaker, CreatePr, Running
    <2> QED
      BY <2>1 DEF Flow, Lapless
  <1>10. CASE TaskAsks
    <2>1. job.at = "fix" /\ lap' = lap /\ (job' = At("work") \/ Post(At("ask"), job.r))
      BY <1>10 DEF TaskAsks, Ask, Running
    <2>2. \/ job'.at = "work"
          \/ job'.at = "ask" /\ job'.todo = {} /\ job'.kept = {} /\ job'.r = job.r
      <3>1. At("ask") \in JobRecords
        BY StartJob DEF Loops
      <3> QED
        BY <2>1, <3>1, PostShape, JobShapes
    <2> QED
      BY <2>1, <2>2 DEF Flow, Lapless
  <1>11. CASE OpenPr
    <2>1. job.at = "fix" /\ lap' = lap /\ \E p \in PRs : job' = [job EXCEPT !.at = "opened", !.p = p]
      BY <1>11 DEF OpenPr, Running, context
    <2>2. job'.at = "opened" /\ job'.todo = job.todo /\ job'.kept = job.kept /\ job'.r = job.r
      BY <2>1, Typed DEF JobRecords
    <2> QED
      BY <2>1, <2>2 DEF Flow, Lapless
  <1>12. CASE RefusePr
    <2>1. job.at = "opened" /\ lap' = lap /\ (job' = At("work") \/ Post([job EXCEPT !.at = "refuse"], job.r))
      BY <1>12 DEF RefusePr, Ask, Running
    <2>2. LET j == [job EXCEPT !.at = "refuse"] IN
          /\ j \in JobRecords /\ j.at = "refuse" /\ j.todo = job.todo /\ j.kept = job.kept
      BY Typed DEF JobRecords, Loops
    <2>3. \/ job'.at = "work"
          \/ job'.at = "refuse" /\ job'.todo = job.todo /\ job'.kept = job.kept /\ job'.r = job.r
      <3>1. CASE Post([job EXCEPT !.at = "refuse"], job.r)
        BY <2>2, <3>1, PostShape
      <3> QED
        BY <2>1, <3>1, JobShapes
    <2> QED
      BY <2>1, <2>3 DEF Flow, Lapless
  <1> QED
    BY <1>1, <1>2, <1>3, <1>4, <1>5, <1>6, <1>7, <1>8, <1>9, <1>10, <1>11, <1>12 DEF Lap

LEMMA NextFlow ==
    ASSUME TypeOK, job.at = "closing" => job.r = None, [Next]_vars
    PROVE  Flow
  <1>1. CASE People
    BY <1>1, SameFlow, PeopleLeave
  <1>2. CASE UNCHANGED vars
    BY <1>2, SameFlow DEF vars, context
  <1>3. CASE Store
    <2>1. lap' = lap /\ job.at # "closing"
      BY <1>3 DEF Store, context, TypeOK
    <2>2. job'.at = job.at /\ job'.todo = job.todo /\ job'.kept = job.kept /\ job'.r = job.r
      BY <1>3, Typed DEF Store, JobRecords
    <2> QED
      BY <2>1, <2>2 DEF Flow, Lapless
  <1>4. CASE Crash
    <2>1. lap' = {} /\ job'.at = "load"
      BY <1>4, JobShapes DEF Crash, Forget
    <2> QED
      BY <2>1 DEF Flow, Lapless
  <1> QED
    BY <1>1, <1>2, <1>3, <1>4, LoadFlow, LapFlow, AnsweredFlow DEF Next

-------------------------------------------------------------------------------
(* What a step leaves alone *)

\* A report of the lap whose fix task has ended stays so marked; what is fetched stays fetched;
\* only create_pr counts a pull request.
LEMMA ContextSteps ==
    ASSUME TypeOK, [Next]_vars
    PROVE  /\ touched \subseteq touched'
           /\ class' = class \/ Fetch \/ lap' = {}
           /\ \A r \in Reports : class'[r] = None => class[r] = None
           /\ tries' = tries \/ CreatePr
           /\ lap' = {} \/ \A r \in Handled : r \in Handled'
           /\ lap' = lap \/ Fetch \/ lap' = {}
  <1>1. CASE People
    BY <1>1, PeopleLeave DEF Handled
  <1>2. CASE Store \/ UNCHANGED vars
    BY <1>2 DEF Store, vars, context, ghosts, Handled
  <1>3. CASE LoadState
    <2>1. UNCHANGED <<class, lap, done, tries>> /\ touched' = touched
      BY <1>3 DEF LoadState, SyncPr, SyncClosed, StartScan, EndScan, StartDeployed, EndDeployed, StartFlush,
                  EndFlush, StartChase, EndChase, StartDirect, EndDirect, Deployed, Flush, Chase, Direct,
                  Frame, context
    <2> QED
      BY <2>1 DEF Handled
  <1>4. ASSUME NEW ok \in BOOLEAN, Answered(ok)
        PROVE  UNCHANGED <<class, lap, done, tries, touched>>
    BY <1>4 DEF Answered, AnsweredDeployed, AnsweredDraft, AnsweredChase, AnsweredDirect, AnsweredTriage,
                AnsweredRecheck, AnsweredAsk, AnsweredRefuse, Frame, Work
  <1>5. CASE Crash \/ LapEnd
    <2>1. Forget /\ tries' = tries /\ touched' = touched
      BY <1>5 DEF Crash, LapEnd, ghosts
    <2>2. ASSUME NEW r \in Reports, class'[r] = None
          PROVE  class[r] = None
      <3>1. \A c \in ClassSet : [c EXCEPT !.type = "other", !.like = "untagged"] \in ClassSet
        BY DEF ClassSet
      <3>2. class[r] = None \/ class'[r] \in ClassSet
        BY <2>1, <3>1 DEF Forget, TypeOK
      <3> QED
        BY <2>2, <3>2, ReportAssumption
    <2> QED
      BY <2>1, <2>2 DEF Forget
  <1>6. CASE Fetch
    <2>1. UNCHANGED <<tries, touched, done>>
      BY <1>6 DEF Fetch, ghosts
    <2>2. ASSUME NEW r \in Reports, class'[r] = None
          PROVE  class[r] = None
      <3>1. PICK new \in SUBSET {q \in Reports : class[q] = None} :
               \E c \in [new -> Classes] : class' = [q \in Reports |-> IF q \in new THEN c[q] ELSE class[q]]
        BY <1>6 DEF Fetch
      <3> QED
        BY <2>2, <3>1, ReportAssumption
    <2> QED
      BY <1>6, <2>1, <2>2 DEF Handled
  <1>7. CASE StartRouter \/ Decide \/ Dispatch \/ \E r \in Reports : Triage(r) \/ AnswerQuestion(r) \/ Recheck(r)
    BY <1>7 DEF StartRouter, Decide, Dispatch, Triage, AnswerQuestion, Recheck, Work, Handled
  <1>8. CASE TaskDeferred \/ LoopBreaker \/ TaskAsks \/ OpenPr \/ CreatePr \/ RefusePr
    <2>1. UNCHANGED <<touched, class, lap>> /\ (tries' = tries \/ CreatePr)
      BY <1>8 DEF TaskDeferred, LoopBreaker, TaskAsks, OpenPr, RefusePr, CreatePr, Work, context, ghosts
    <2>2. \/ done' = done
          \/ \E o \in {"other", "unreach", "retry", "detail", "pr"} : done' = [done EXCEPT ![job.r] = o]
      BY <1>8 DEF TaskDeferred, LoopBreaker, TaskAsks, OpenPr, RefusePr, CreatePr, context
    <2>3. \A r \in Handled : r \in Handled'
      BY <2>2, Typed DEF Handled
    <2> QED
      BY <2>1, <2>3
  <1> QED
    BY <1>1, <1>2, <1>3, <1>4, <1>5, <1>6, <1>7, <1>8 DEF Next, Lap, Handled

\* In a lap, or a batch, a report is in hand because it was, because the lap fetched it, or
\* because the router's queue has it.
LEMMA PickedUp ==
    ASSUME TypeOK, Flow, job'.at \in Batch \union {"triage"}, NEW r \in Reports, InHand(r)'
    PROVE  \/ r \in lap /\ job'.at = "triage"
           \/ Decide /\ r \in Offered' /\ job'.at = "route"
           \/ InHand(r) /\ (job'.at \in Batch => job.at \in Batch)
  <1>0. r # None /\ (r \in job'.todo \/ r \in job'.kept \/ r = job'.r)
    BY ReportAssumption DEF InHand
  <1>1. CASE job'.at = "triage"
    BY <1>0, <1>1 DEF Flow, InHand, Batch
  <1>2. CASE job'.at = "route"
    BY <1>0, <1>2 DEF Flow, InHand, Batch
  <1>3. CASE job'.at = "fix"
    BY <1>0, <1>3 DEF Flow, InHand, Batch
  <1>4. CASE job'.at \in {"opened", "ask", "refuse"}
    BY <1>0, <1>4 DEF Flow, InHand, Batch
  <1> QED
    BY <1>1, <1>2, <1>3, <1>4 DEF Batch

\* LOAD_STATE and what comes back of a reply take in hand only reports that have a row.
LEMMA LoadHands ==
    ASSUME TypeOK, LoadState, NEW r \in Reports, InHand(r)'
    PROVE  InHand(r) \/ bug[r] # NoBug \/ row[r].pending
  <1>0. NoBug.state = "none" /\ NoBug.pr = None /\ None \notin PRs
    BY ReportAssumption DEF NoBug
  <1>1. r # None /\ (r \in job'.todo \/ r \in job'.kept \/ r = job'.r)
    BY ReportAssumption DEF InHand
  <1>2. ASSUME NEW p \in PRs, SyncPr(p)
        PROVE  InHand(r) \/ bug[r] # NoBug
    <2>1. job' = job \/ job' = [At("closing") EXCEPT !.p = p, !.todo = Dropped(p)]
      BY <1>2 DEF SyncPr
    <2>2. CASE job' = job
      BY <1>1, <2>2 DEF InHand
    <2>3. CASE job' = [At("closing") EXCEPT !.p = p, !.todo = Dropped(p)]
      <3>1. job'.todo = Dropped(p) /\ job'.kept = {} /\ job'.r = None
        BY <2>3, JobShapes
      <3> QED
        BY <1>0, <1>1, <3>1 DEF Dropped
    <2> QED
      BY <2>1, <2>2, <2>3
  <1>3. ~(SyncClosed \/ EndScan \/ EndDeployed \/ EndFlush \/ EndChase \/ EndDirect)
    <2>1. ~(job' = At("load"))
      BY <1>1, JobShapes
    <2> QED
      BY <2>1 DEF SyncClosed, EndScan, EndDeployed, EndFlush, EndChase, EndDirect
  <1>4. CASE StartScan
    <2>1. r \in In({"open", "investigating", "deferred", "needs-detail"}) \union In({"open", "investigating"})
      BY <1>1, <1>4, JobShapes DEF StartScan
    <2> QED
      BY <1>0, <2>1 DEF In
  <1>5. CASE StartDeployed
    <2>1. \E f : job' = [At("deployed") EXCEPT !.todo = Due, !.of = f]
      BY <1>5 DEF StartDeployed
    <2>2. r \in In({"fix-queued", "fixed"})
      BY <1>1, <2>1, JobShapes DEF Due
    <2> QED
      BY <1>0, <2>2 DEF In
  <1>6. CASE StartFlush
    <2>1. job' = [At("flush") EXCEPT !.todo = {q \in Reports : row[q].pending}]
      BY <1>6 DEF StartFlush, Begin
    <2> QED
      BY <1>1, <2>1, JobShapes
  <1>7. CASE StartChase \/ StartDirect
    <2>1. \E l : \E S \in {{q \in Waiting : bug[q].age = "quiet" /\ bug[q].chased = "no"},
                           {q \in In({"open", "deferred", "investigating"}) \intersect MasterFixes :
                               bug[q].pr = None}} : job' = [At(l) EXCEPT !.todo = S]
      BY <1>7 DEF StartChase, StartDirect, Begin
    <2>2. r \in Waiting \/ r \in In({"open", "deferred", "investigating"})
      BY <1>1, <2>1, JobShapes
    <2> QED
      BY <1>0, <2>2 DEF Waiting, In
  <1>8. ASSUME NEW q \in Reports, Deployed(q) \/ Flush(q) \/ Chase(q) \/ Direct(q)
        PROVE  InHand(r)
    <2>1. \/ \E S : job' = Without(job, S) \/ Post(Without(job, S), q)
          \/ Post(job, q)
      BY <1>8 DEF Deployed, Flush, Chase, Direct, SendDraft
    <2>2. q \in job.todo
      BY <1>8 DEF Deployed, Flush, Chase, Direct
    <2>3. job'.todo \subseteq job.todo /\ job'.kept = job.kept /\ job'.r \in {job.r, q}
      BY <2>1, WithoutShape, PostShape, Typed
    <2> QED
      BY <1>1, <2>2, <2>3 DEF InHand
  <1> QED
    BY <1>2, <1>3, <1>4, <1>5, <1>6, <1>7, <1>8 DEF LoadState

LEMMA AnsweredHands ==
    ASSUME TypeOK, NEW ok \in BOOLEAN, Answered(ok), NEW r \in Reports, InHand(r)'
    PROVE  InHand(r)
  <1>1. r # None /\ (r \in job'.todo \/ r \in job'.kept \/ r = job'.r)
    BY ReportAssumption DEF InHand
  <1>2. \/ \E S : job' = Without(Back, S) \/ job' = [Back EXCEPT !.failed = S]
        \/ job' = Back \/ job' = At("work")
    BY DEF Answered, AnsweredDeployed, AnsweredDraft, AnsweredChase, AnsweredDirect, AnsweredTriage,
           AnsweredRecheck, AnsweredAsk, AnsweredRefuse
  <1>3. \A j \in JobRecords : \A S :
                                 /\ Without(j, S).todo \subseteq j.todo /\ Without(j, S).kept = j.kept
                                 /\ Without(j, S).r = j.r
    BY DEF Without, JobRecords
  <1>4. CASE job' = At("work")
    <2>1. job'.todo = {} /\ job'.kept = {} /\ job'.r = None
      BY <1>4, JobShapes
    <2> QED
      BY <1>1, <2>1
  <1>5. CASE job' # At("work")
    <2>0. Back \in JobRecords
      BY BackShape
    <2>1. job'.todo \subseteq Back.todo /\ job'.kept = Back.kept /\ job'.r = Back.r
      <3>1. CASE job' = Back
        BY <3>1
      <3>2. CASE \E S : job' = Without(Back, S) \/ job' = [Back EXCEPT !.failed = S]
        <4>1. PICK S : job' = Without(Back, S) \/ job' = [Back EXCEPT !.failed = S]
          BY <3>2
        <4>2. CASE job' = Without(Back, S)
          BY <1>3, <2>0, <4>2
        <4>3. CASE job' = [Back EXCEPT !.failed = S]
          <5> DEFINE j == [Back EXCEPT !.failed = S]
          <5>1. j.todo = Back.todo /\ j.kept = Back.kept /\ j.r = Back.r
            BY <2>0 DEF JobRecords
          <5> HIDE DEF j
          <5> QED
            BY <4>3, <5>1 DEF j
        <4> QED
          BY <4>1, <4>2, <4>3
      <3> QED
        BY <1>2, <1>5, <3>1, <3>2
    <2> QED
      BY <1>1, <2>1, BackShape DEF InHand
  <1> QED
    BY <1>4, <1>5

LEMMA OfferedOpen ==
    ASSUME TypeOK, Decide, NEW r \in Reports, r \in Offered'
    PROVE  /\ r \in lap => r \notin Handled
           /\ r \notin lap => /\ bug'[r].state = "open" /\ bug'[r].pr = None
                              /\ bug'[r].rejections < ESCALATION_THRESHOLD
  <1>1. lap' = lap /\ done' = done
    BY DEF Decide
  <1> QED
    BY <1>1 DEF Offered, Fresh, Backlog, In, Handled

LEMMA LapHands ==
    ASSUME TypeOK, Lap, NEW r \in Reports, InHand(r)'
    PROVE  InHand(r) \/ bug[r] # NoBug \/ r \in lap \/ bug'[r].state = "open"
  <1>1. r # None /\ (r \in job'.todo \/ r \in job'.kept \/ r = job'.r)
    BY ReportAssumption DEF InHand
  <1>2. CASE job'.at \in Batch \union {"triage"}
    BY <1>2, LapFlow, PickedUp, OfferedOpen
  <1>3. CASE job'.at \notin Batch \union {"triage"}
    <2>1. job' # At("work") /\ job' # At("load")
      <3>1. job' = At("work") \/ job' = At("load") => job'.todo = {} /\ job'.kept = {} /\ job'.r = None
        BY JobShapes
      <3> QED
        BY <1>1, <3>1
    <2>2. \E q \in Reports : AnswerQuestion(q)
      <3>1. ~(StartRouter \/ Dispatch \/ TaskAsks \/ OpenPr \/ RefusePr \/ Decide
              \/ \E q \in Reports : Triage(q) \/ Recheck(q))
        <4>1. ASSUME StartRouter
              PROVE  job'.at = "triage"
          BY <4>1, JobShapes DEF StartRouter
        <4>2. ASSUME Dispatch
              PROVE  job'.at = "fix"
          BY <2>1, <4>2, JobShapes DEF Dispatch
        <4>3. ASSUME TaskAsks
              PROVE  job'.at = "ask"
          <5>1. Post(At("ask"), job.r) /\ At("ask") \in JobRecords /\ At("ask").at = "ask"
            BY <2>1, <4>3, StartJob DEF TaskAsks, Ask, Loops
          <5> QED
            BY <5>1, PostShape
        <4>4. ASSUME OpenPr
              PROVE  job'.at = "opened"
          <5>1. \E p \in PRs : job' = [job EXCEPT !.at = "opened", !.p = p]
            BY <4>4 DEF OpenPr
          <5> QED
            BY <5>1, Typed DEF JobRecords
        <4>5. ASSUME RefusePr
              PROVE  job'.at = "refuse"
          <5> DEFINE j == [job EXCEPT !.at = "refuse"]
          <5>1. Post(j, job.r)
            BY <2>1, <4>5 DEF RefusePr, Ask
          <5>2. j \in JobRecords /\ j.at = "refuse"
            BY Typed DEF JobRecords, Loops
          <5> HIDE DEF j
          <5> QED
            BY <5>1, <5>2, PostShape
        <4>6. ASSUME Decide
              PROVE  job'.at = "route"
          <5>1. \E S, K : job' = [At("route") EXCEPT !.todo = S, !.kept = K]
            BY <2>1, <4>6 DEF Decide
          <5> QED
            BY <5>1, JobShapes
        <4>7. ASSUME NEW q \in Reports, Triage(q)
              PROVE  job'.at = "triage"
          <5>1. job.at = "triage" /\ (job' = Without(job, {q}) \/ Post(Without(job, {q}), q))
            BY <4>7 DEF Triage, Ask, Running
          <5> QED
            BY <5>1, WithoutShape, PostShape
        <4>8. ASSUME NEW q \in Reports, Recheck(q)
              PROVE  job'.at = "route"
          <5>1. /\ job.at = "route"
                /\ \/ job' = [Without(job, {q}) EXCEPT !.kept = @ \union {q}]
                   \/ job' = Without(job, {q}) \/ Post(Without(job, {q}), q)
            BY <4>8 DEF Recheck, Ask, Running
          <5>2. \A j \in JobRecords : [j EXCEPT !.kept = @ \union {q}].at = j.at
            BY DEF JobRecords
          <5>3. Without(job, {q}) \in JobRecords /\ Without(job, {q}).at = "route"
            BY <5>1, WithoutShape
          <5>4. CASE Post(Without(job, {q}), q)
            BY <5>3, <5>4, PostShape
          <5> QED
            BY <5>1, <5>2, <5>3, <5>4
        <4> QED
          BY <1>3, <4>1, <4>2, <4>3, <4>4, <4>5, <4>6, <4>7, <4>8 DEF Batch
      <3> QED
        BY <2>1, <3>1 DEF Lap, Fetch, LapEnd, TaskDeferred, LoopBreaker, CreatePr
    <2>3. PICK q \in Reports : AnswerQuestion(q)
      BY <2>2
    <2>4. bug[q].state = "question" /\ (job' = job \/ Post(At("answer"), q))
      BY <2>3 DEF AnswerQuestion
    <2>5. CASE job' = job
      BY <1>1, <2>5 DEF InHand
    <2>6. CASE Post(At("answer"), q)
      <3>1. At("answer") \in JobRecords
        BY StartJob DEF Loops
      <3>2. job'.todo = {} /\ job'.kept = {} /\ job'.r = q
        BY <2>6, <3>1, PostShape, JobShapes
      <3> QED
        BY <1>1, <2>4, <3>2 DEF NoBug
    <2> QED
      BY <2>4, <2>5, <2>6
  <1> QED
    BY <1>2, <1>3

-------------------------------------------------------------------------------
(* Where reports stand, and the monitor's lists *)

\* A post that has not been fetched is nowhere in the monitor.
Unread ==
    \A r \in Reports :
       class[r] = None => bug[r] = NoBug /\ ~row[r].pending /\ tries[r] = 0 /\ ~InHand(r)

\* Triage works through posts of its lap; what the router judges again are reports of the backlog.
OwnLap ==
    /\ job.at \in Lapless => lap = {}
    /\ job.at = "triage" => job.todo \subseteq lap /\ (job.r # None => job.r \in lap)
    /\ job.at = "route" => job.todo \intersect lap = {} /\ job.r \notin lap

\* A feature request of the lap is filed as one, and no fix task is after it.
Features ==
    \A r \in lap :
       class[r].type = "feature_request" =>
          /\ r \in touched \/ bug[r].state \in Wish
          /\ job.at \in Batch \union {"triage"} => job.r # r
          /\ job.at = "route" => r \notin job.kept

\* While the comments of a closed pull request are awaited, nobody but a person settles its reports.
Dropping ==
    job.at = "closing" =>
       /\ job.r = None /\ pull[job.p].known = "CLOSED"
       /\ \A r \in job.todo \ touched : bug[r].pr = job.p /\ bug[r].state \notin Settled

\* A report the router is about to judge again is open, unless a person has changed it.
Judged ==
    job.at = "route" => /\ job.r \notin job.todo
                        /\ \A r \in job.todo \ touched : bug[r].state = "open"

Listed == Unread /\ OwnLap /\ Features /\ Dropping /\ Judged

\* Only a question is given a draft that waits.
LEMMA RowSteps ==
    ASSUME TypeOK, [Next]_vars, NEW r \in Reports, row'[r].pending
    PROVE  row[r].pending \/ bug[r].state = "question"
  <1>1. row[r] \in RowRecords
    BY Typed
  <1>2. \A w \in RowRecords : /\ ~Posted(w).pending /\ (Cancelled(w).pending => w.pending)
                              /\ [w EXCEPT !.posted = TRUE, !.own = FALSE].pending = w.pending
    BY DEF Posted, Cancelled, RowRecords
  <1>3. ASSUME NEW q, NEW ok, \/ row' = row
                              \/ row' = [row EXCEPT ![q] = Cancelled(@)]
                              \/ row' = [row EXCEPT ![q] = Posted(@)]
                              \/ Record(q, ok)
        PROVE  row[r].pending
    <2>1. row'[r] \in {row[r], Cancelled(row[r]), Posted(row[r]), [row[r] EXCEPT !.posted = TRUE, !.own = FALSE]}
      BY <1>3, Typed DEF Record
    <2> QED
      BY <1>1, <1>2, <2>1
  <1>4. CASE People
    BY <1>4, PeopleSteps
  <1>5. CASE Store \/ Crash \/ UNCHANGED vars
    BY <1>5 DEF Store, Crash, vars, database
  <1>6. CASE LoadState
    <2>1. \E q : row' = row \/ row' = [row EXCEPT ![q] = Cancelled(@)]
      BY <1>6 DEF LoadState, SyncPr, SyncClosed, StartScan, EndScan, StartDeployed, EndDeployed, StartFlush,
                  EndFlush, StartChase, EndChase, StartDirect, EndDirect, Deployed, Flush, SendDraft, Chase,
                  Direct, database
    <2> QED
      BY <1>3, <2>1
  <1>7. ASSUME NEW ok \in BOOLEAN, Answered(ok)
        PROVE  row[r].pending
    <2>1. \/ row' = row
          \/ row' = [row EXCEPT ![job.r] = Posted(@)]
          \/ Record(job.r, ok)
      BY <1>7 DEF Answered, AnsweredDeployed, AnsweredDraft, AnsweredChase, AnsweredDirect, AnsweredTriage,
                  AnsweredRecheck, AnsweredAsk, AnsweredRefuse
    <2> QED
      BY <1>3, <2>1
  <1>8. ASSUME NEW q \in Reports, AnswerQuestion(q)
        PROVE  row[r].pending \/ bug[r].state = "question"
    <2>1. r = q \/ row'[r] = row[r]
      BY <1>8, Typed DEF AnswerQuestion
    <2> QED
      BY <1>8, <2>1 DEF AnswerQuestion
  <1>9. CASE Lap /\ ~\E q \in Reports : AnswerQuestion(q)
    <2>1. \E q : row' = row \/ row' = [row EXCEPT ![q] = Cancelled(@)]
      BY <1>9 DEF Lap, Fetch, StartRouter, Decide, Dispatch, LapEnd, Triage, Recheck, TaskDeferred,
                  LoopBreaker, TaskAsks, OpenPr, CreatePr, RefusePr, database
    <2> QED
      BY <1>3, <2>1
  <1> QED
    BY <1>4, <1>5, <1>6, <1>7, <1>8, <1>9 DEF Next

LEMMA UnreadStep ==
    ASSUME TypeOK, Listed, [Next]_vars
    PROVE  Unread'
  <1> SUFFICES ASSUME NEW r \in Reports, class'[r] = None
               PROVE  bug'[r] = NoBug /\ ~row'[r].pending /\ tries'[r] = 0 /\ ~(InHand(r)')
    BY DEF Unread, InHand
  <1>1. class[r] = None
    BY ContextSteps
  <1>2. bug[r] = NoBug /\ ~row[r].pending /\ tries[r] = 0 /\ ~InHand(r) /\ bug[r].state = "none"
    <2>1. NoBug.state = "none"
      BY DEF NoBug
    <2> QED
      BY <1>1, <2>1 DEF Listed, Unread
  <1>3. r \notin lap
    BY <1>1 DEF TypeOK
  <1>4. ~row'[r].pending
    BY <1>2, RowSteps
  <1>5. tries'[r] = 0
    <2>1. ASSUME CreatePr
          PROVE  tries'[r] = tries[r]
      BY <2>1, <1>2, Typed DEF CreatePr, InHand
    <2> QED
      BY <1>2, <2>1, ContextSteps
  <1>6. bug'[r] = bug[r]
    <2>1. CASE People
      BY <1>2, <2>1, PeopleSteps
    <2>2. CASE Store \/ Crash \/ UNCHANGED vars
      BY <2>2 DEF Store, Crash, vars, database
    <2>3. CASE LoadState /\ ~SyncClosed
      BY <1>2, <2>3, LoadSteps
    <2>4. CASE SyncClosed
      BY <1>2, <2>4 DEF SyncClosed, InHand
    <2>5. ASSUME NEW ok \in BOOLEAN, Answered(ok)
          PROVE  bug'[r] = bug[r]
      BY <1>2, <2>5, AnsweredSteps
    <2>6. CASE Lap
      BY <1>2, <2>6, LapSteps DEF Wish, TakenUp, InHand
    <2> QED
      BY <2>1, <2>2, <2>3, <2>4, <2>5, <2>6 DEF Next
  <1>7. ~(InHand(r)')
    <2> SUFFICES ASSUME InHand(r)' PROVE FALSE
      OBVIOUS
    <2>1. job' # job /\ bug'[r].state # "open" /\ r # None
      BY <1>2, <1>6, ReportAssumption DEF InHand
    <2>2. ~People /\ ~UNCHANGED vars
      BY <2>1, PeopleLeave DEF vars
    <2>3. ~Store
      <3>1. Store => job'.todo = job.todo /\ job'.kept = job.kept /\ job'.r = job.r
        BY Typed DEF Store, JobRecords
      <3> QED
        BY <1>2, <3>1 DEF InHand
    <2>4. ~Crash
      <3>1. Crash => job'.todo = {} /\ job'.kept = {} /\ job'.r = None
        BY JobShapes DEF Crash
      <3> QED
        BY <2>1, <3>1 DEF InHand
    <2>5. ~LoadState /\ ~Lap /\ \A ok \in BOOLEAN : ~Answered(ok)
      BY <1>2, <1>3, <2>1, LoadHands, LapHands, AnsweredHands
    <2> QED
      BY <2>2, <2>3, <2>4, <2>5 DEF Next
  <1> QED
    BY <1>2, <1>4, <1>5, <1>6, <1>7

LEMMA OwnLapStep ==
    ASSUME TypeOK, Listed, Flow, [Next]_vars
    PROVE  OwnLap'
  <1>1. None \notin lap /\ OwnLap
    BY Typed, ReportAssumption DEF Listed
  <1>2. job'.at \in Lapless => lap' = {}
    BY <1>1 DEF OwnLap, Flow
  <1>3. job'.at \in {"triage", "route"} => lap' = lap
    <2>1. At("work").at = "work"
      BY JobShapes
    <2> QED
      BY <2>1 DEF Flow, Lapless
  <1>4. job'.at = "triage" => job'.todo \subseteq lap /\ (job'.r # None => job'.r \in lap)
    BY <1>1 DEF OwnLap, Flow
  <1>5. job'.at = "route" => job'.todo \intersect lap = {} /\ job'.r \notin lap
    BY <1>1 DEF OwnLap, Flow
  <1> QED
    BY <1>2, <1>3, <1>4, <1>5 DEF OwnLap

LEMMA DroppingStep ==
    ASSUME TypeOK, Listed, Flow, [Next]_vars
    PROVE  Dropping'
  <1> SUFFICES ASSUME job'.at = "closing"
               PROVE  /\ job'.r = None /\ pull'[job'.p].known = "CLOSED"
                      /\ \A r \in job'.todo \ touched' :
                            bug'[r].pr = job'.p /\ bug'[r].state \notin Settled
    BY DEF Dropping
  <1>1. CASE \E p \in PRs : /\ SyncPr(p) /\ Known(p) = "CLOSED" /\ job'.p = p
                            /\ job'.todo = Dropped(p) /\ job'.r = None
    <2>1. PICK p \in PRs : /\ SyncPr(p) /\ Known(p) = "CLOSED" /\ job'.p = p
                           /\ job'.todo = Dropped(p) /\ job'.r = None
      BY <1>1
    <2>2. bug' = bug /\ \E d : pull' = [pull EXCEPT ![p].known = "CLOSED", ![p].deploy = d]
      BY <2>1 DEF SyncPr
    <2>3. pull'[p].known = "CLOSED"
      BY <2>2, Typed DEF PullRecords
    <2> QED
      BY <2>1, <2>2, <2>3 DEF Dropped
  <1>2. CASE job' = job /\ (People \/ UNCHANGED vars)
    <2>1. /\ job.at = "closing" /\ job.r = None /\ pull[job.p].known = "CLOSED" /\ job.p \in PRs
          /\ \A r \in job.todo \ touched : bug[r].pr = job.p /\ bug[r].state \notin Settled
      BY <1>2, Typed DEF Listed, Dropping, JobOK, JobRecords
    <2>2. CASE UNCHANGED vars
      BY <1>2, <2>1, <2>2 DEF vars, database, ghosts
    <2>3. CASE People
      <3>1. touched \subseteq touched' /\ pull'[job.p].known = "CLOSED"
        BY <2>1, <2>3, PeopleLeave
      <3>2. ASSUME NEW r \in job.todo \ touched'
            PROVE  bug'[r].pr = job.p /\ bug'[r].state \notin Settled
        <4>1. r \in Reports /\ bug[r].pr = job.p /\ bug[r].state \notin Settled
          BY <2>1, <3>1, <3>2, Typed
        <4>2. Standing(bug'[r]) = Standing(bug[r])
          BY <2>1, <2>3, <3>2, <4>1, PeopleSteps
        <4> QED
          BY <4>1, <4>2 DEF Standing
      <3> QED
        BY <1>2, <2>1, <3>1, <3>2
    <2> QED
      BY <1>2, <2>2, <2>3
  <1> QED
    BY <1>1, <1>2 DEF Flow

LEMMA JudgedStep ==
    ASSUME TypeOK, Listed, Flow, [Next]_vars
    PROVE  Judged'
  <1> SUFFICES ASSUME job'.at = "route"
               PROVE  /\ job'.r \notin job'.todo
                      /\ \A r \in job'.todo \ touched' : bug'[r].state = "open"
    BY DEF Judged
  <1>0. None \notin job'.todo
    BY StepTyped, ReportAssumption DEF TypeOK, JobRecords
  <1>1. CASE Decide /\ job'.todo = Offered' \ lap /\ job'.kept = Offered' \intersect lap /\ job'.r = None
    <2>1. job'.todo \subseteq Reports
      BY StepTyped DEF TypeOK, JobRecords
    <2> QED
      BY <1>0, <1>1, <2>1, OfferedOpen
  <1>2. CASE /\ job.at = "route" /\ job'.todo \subseteq job.todo
             /\ job'.r = job.r \/ job'.r \notin job'.todo
    <2>1. /\ job.r \notin job.todo /\ touched \subseteq touched' /\ job.todo \subseteq Reports
          /\ \A r \in job.todo \ touched : bug[r].state = "open"
      BY <1>2, Typed, ContextSteps DEF Listed, Judged
    <2>2. ASSUME NEW r \in job'.todo \ touched'
          PROVE  bug'[r].state = "open"
      <3>1. r \in Reports /\ r \in job.todo /\ r \notin touched /\ bug[r].state = "open" /\ r # job.r
        BY <1>2, <2>1, <2>2
      <3>2. CASE People
        <4>1. Standing(bug'[r]) = Standing(bug[r])
          BY <2>2, <3>1, <3>2, PeopleSteps
        <4> QED
          BY <3>1, <4>1 DEF Standing
      <3>3. CASE Store \/ UNCHANGED vars
        BY <3>1, <3>3 DEF Store, vars, database
      <3>4. ~Crash /\ ~LoadState
        <4>1. ~Crash
          BY JobShapes DEF Crash
        <4>2. job.at \notin Lapless
          BY <1>2 DEF Lapless
        <4> QED
          BY <4>1, <4>2
             DEF LoadState, SyncPr, SyncClosed, StartScan, EndScan, StartDeployed, EndDeployed, StartFlush,
                 EndFlush, StartChase, EndChase, StartDirect, EndDirect, Deployed, Flush, Chase, Direct,
                 Begin, Running, Lapless
      <3>5. ASSUME NEW ok \in BOOLEAN, Answered(ok)
            PROVE  bug'[r].state = "open"
        BY <1>2, <3>1, <3>5, AnsweredSteps
      <3>6. CASE Lap
        <4>1. Dispatch => job'.at \in {"work", "fix"}
          BY JobShapes DEF Dispatch
        <4>2. Dispatch \/ \E q \in Reports : Recheck(q)
          BY <1>2, <3>6 DEF Lap, Fetch, StartRouter, Decide, LapEnd, Triage, AnswerQuestion, TaskDeferred,
                            LoopBreaker, TaskAsks, OpenPr, CreatePr, RefusePr, Running
        <4>3. PICK q \in Reports : Recheck(q)
          BY <4>1, <4>2
        <4>4. \/ job' = [Without(job, {q}) EXCEPT !.kept = @ \union {q}]
              \/ job' = Without(job, {q}) \/ Post(Without(job, {q}), q)
          BY <4>3 DEF Recheck, Ask
        <4>5. q \notin job'.todo
          <5>1. \A j \in JobRecords : [j EXCEPT !.kept = @ \union {q}].todo = j.todo
            BY DEF JobRecords
          <5>2. Without(job, {q}) \in JobRecords /\ q \notin Without(job, {q}).todo
            BY WithoutShape
          <5>3. CASE Post(Without(job, {q}), q)
            BY <5>2, <5>3, PostShape
          <5> QED
            BY <4>4, <5>1, <5>2, <5>3
        <4>6. bug' = bug \/ bug' = [bug EXCEPT ![q] = Hold(@)]
          BY <4>3 DEF Recheck
        <4>7. bug'[r] = bug[r]
          BY <2>2, <3>1, <4>5, <4>6, Typed
        <4> QED
          BY <3>1, <4>7
      <3> QED
        BY <3>2, <3>3, <3>4, <3>5, <3>6 DEF Next
    <2> QED
      BY <1>2, <2>1, <2>2
  <1> QED
    BY <1>1, <1>2 DEF Flow

\* What is done at work leaves a feature request of the lap filed as one.
LEMMA LapWish ==
    ASSUME TypeOK, Listed, Lap, NEW r \in lap, class[r].type = "feature_request", bug[r].state \in Wish
    PROVE  bug'[r].state \in Wish
  <1>0. r \in Reports
    BY Typed
  <1>1. CASE bug'[r] = bug[r]
    BY <1>1
  <1>2. CASE job.at = "triage" /\ bug'[r] # bug[r]
    <2>1. Decide \/ \E q \in Reports : Triage(q)
      BY <1>2 DEF Lap, Fetch, StartRouter, Dispatch, LapEnd, Recheck, AnswerQuestion, TaskDeferred,
                  LoopBreaker, TaskAsks, OpenPr, CreatePr, RefusePr, Running
    <2>2. ~Decide
      BY <1>0, <1>2, DecideSteps
    <2>3. PICK q \in Reports : Triage(q)
      BY <2>1, <2>2
    <2>4. CASE class[q].type = "feature_request"
      <3>1. Standing(bug'[r]) = WithState(bug[r], "feature-request")
        BY <1>0, <1>2, <2>3, <2>4, TriageSteps
      <3> QED
        BY <3>1 DEF Standing, WithState, Wish
    <2>5. CASE class[q].type # "feature_request"
      BY <1>0, <1>2, <2>3, <2>5, TriageSteps DEF Filing
    <2> QED
      BY <2>4, <2>5
  <1>3. CASE job.at # "triage" /\ bug'[r] # bug[r]
    <2>1. TakenUp(r)
      BY <1>0, <1>3, LapSteps
    <2> QED
      BY <1>3, <2>1 DEF TakenUp, Listed, OwnLap, Features, Batch
  <1> QED
    BY <1>1, <1>2, <1>3

LEMMA FeaturesStep ==
    ASSUME TypeOK, Listed, Flow, [Next]_vars
    PROVE  Features'
  <1> SUFFICES ASSUME NEW r \in lap', class'[r].type = "feature_request"
               PROVE  /\ r \in touched' \/ bug'[r].state \in Wish
                      /\ job'.at \in Batch \union {"triage"} => job'.r # r
                      /\ job'.at = "route" => r \notin job'.kept
    BY DEF Features
  <1>0. r \in Reports /\ r # None
    BY StepTyped, ReportAssumption DEF TypeOK
  <1>1. CASE Fetch
    <2>1. bug' = bug /\ class[r] = None /\ job' = At("work")
      BY <1>1 DEF Fetch, database
    <2>2. bug[r] = NoBug /\ NoBug.state = "none"
      BY <1>0, <2>1 DEF Listed, Unread, NoBug
    <2>3. job'.at = "work"
      BY <2>1, JobShapes
    <2> QED
      BY <2>1, <2>2, <2>3 DEF Wish, Batch
  <1>2. CASE ~Fetch
    <2>1. lap' = lap /\ class' = class /\ touched \subseteq touched' /\ r \in lap
      BY <1>2, ContextSteps
    <2>2. /\ class[r].type = "feature_request"
          /\ r \in touched \/ bug[r].state \in Wish
          /\ job.at \in Batch \union {"triage"} => job.r # r
          /\ job.at = "route" => r \notin job.kept
          /\ job.at \notin Lapless
          /\ job.at = "route" => job.todo \intersect lap = {}
      BY <2>1 DEF Listed, Features, OwnLap
    <2>3. ASSUME r \notin touched'
          PROVE  bug'[r].state \in Wish
      <3>1. bug[r].state \in Wish
        BY <2>1, <2>2, <2>3
      <3>2. CASE People
        <4>1. Standing(bug'[r]) = Standing(bug[r])
          BY <1>0, <2>3, <3>1, <3>2, PeopleSteps DEF Wish
        <4> QED
          BY <3>1, <4>1 DEF Standing
      <3>3. CASE Store \/ Crash \/ UNCHANGED vars
        BY <3>1, <3>3 DEF Store, Crash, vars, database
      <3>4. ~LoadState
        BY <2>2 DEF LoadState, SyncPr, SyncClosed, StartScan, EndScan, StartDeployed, EndDeployed, StartFlush,
                    EndFlush, StartChase, EndChase, StartDirect, EndDirect, Deployed, Flush, Chase, Direct,
                    Begin, Running, Lapless
      <3>5. ASSUME NEW ok \in BOOLEAN, Answered(ok)
            PROVE  bug'[r] = bug[r]
        BY <1>0, <2>2, <3>5, AnsweredSteps DEF Lapless, Batch
      <3>6. CASE Lap
        BY <2>1, <2>2, <3>1, <3>6, LapWish
      <3> QED
        BY <3>1, <3>2, <3>3, <3>4, <3>5, <3>6 DEF Next
    <2>4. job'.at \in Batch \union {"triage"} => job'.r # r
      <3>1. Verdict(r) # "vague"
        BY <2>2 DEF Verdict, Says, Adds
      <3>2. job'.at = "triage" => job'.r # r
        BY <1>0, <2>2, <3>1 DEF Flow
      <3>3. job'.at = "route" => job'.r # r
        BY <1>0, <2>1, <2>2 DEF Flow, Batch
      <3>4. job'.at = "fix" => job'.r # r
        BY <2>2 DEF Flow, Batch
      <3>5. job'.at \in {"opened", "ask", "refuse"} => job'.r # r
        BY <2>2 DEF Flow, Batch
      <3> QED
        BY <3>2, <3>3, <3>4, <3>5 DEF Batch
    <2>5. ASSUME job'.at = "route"
          PROVE  r \notin job'.kept
      <3>1. CASE Decide /\ job'.kept = Offered' \intersect lap
        <4>1. r \notin Offered'
          BY <2>1, <2>2 DEF Offered, Fresh, Says
        <4> QED
          BY <3>1, <4>1
      <3>2. CASE job.at = "route" /\ job'.kept \subseteq job.kept \union job.todo
        BY <2>1, <2>2, <3>2
      <3> QED
        BY <2>5, <3>1, <3>2 DEF Flow
    <2> QED
      BY <2>3, <2>4, <2>5
  <1> QED
    BY <1>1, <1>2

LEMMA InitListed == Init => Listed
  <1> SUFFICES ASSUME Init PROVE Listed
    OBVIOUS
  <1>1. job.at = "load" /\ job.todo = {} /\ job.kept = {} /\ job.r = None /\ lap = {}
    BY JobShapes DEF Init
  <1>2. Unread
    BY <1>1, ReportAssumption DEF Init, Unread, InHand
  <1> QED
    BY <1>1, <1>2 DEF Listed, OwnLap, Features, Dropping, Judged

LEMMA ListedFlow ==
    ASSUME TypeOK, Listed, [Next]_vars
    PROVE  Flow
  BY NextFlow DEF Listed, Dropping

LEMMA StepListed == TypeOK /\ Listed /\ [Next]_vars => Listed'
  <1> SUFFICES ASSUME TypeOK, Listed, [Next]_vars PROVE Listed'
    OBVIOUS
  <1>1. Flow
    BY ListedFlow
  <1>2. Unread' /\ OwnLap' /\ Features' /\ Dropping' /\ Judged'
    BY <1>1, UnreadStep, OwnLapStep, FeaturesStep, DroppingStep, JudgedStep
  <1> QED
    BY <1>2 DEF Listed

-------------------------------------------------------------------------------
(* What is settled stays settled *)

LEMMA SettledStep ==
    ASSUME TypeOK, Listed, [Next]_vars, NEW r \in Reports,
           bug[r].state \in Settled, r \notin touched', job.r # r
    PROVE  bug'[r].state \in Settled
  <1>0. r \notin touched
    BY ContextSteps
  <1>1. CASE People
    <2>1. Standing(bug'[r]) = Standing(bug[r])
      BY <1>1, PeopleSteps DEF Settled
    <2> QED
      BY <2>1 DEF Standing
  <1>2. CASE Store \/ Crash \/ UNCHANGED vars
    BY <1>2 DEF Store, Crash, vars, database
  <1>3. CASE LoadState /\ ~SyncClosed
    BY <1>3, LoadSteps DEF Tame
  <1>4. CASE SyncClosed
    <2>1. r \notin job.todo
      BY <1>0, <1>4 DEF SyncClosed, Running, Listed, Dropping
    <2> QED
      BY <1>4, <2>1 DEF SyncClosed
  <1>5. ASSUME NEW ok \in BOOLEAN, Answered(ok)
        PROVE  bug'[r].state \in Settled
    BY <1>5, AnsweredSteps DEF Tame
  <1>6. CASE Lap
    <2>1. ~TakenUp(r)
      BY <1>0 DEF TakenUp, Listed, OwnLap, Features, Judged, Wish, Settled
    <2> QED
      BY <1>6, <2>1, LapSteps DEF Tame
  <1> QED
    BY <1>1, <1>2, <1>3, <1>4, <1>5, <1>6 DEF Next

\* A fixed or confirmed report is not taken up again behind people's backs: a late answer from
\* GitHub drops only reports it listed as unsettled, scans and later posts mark or note, triage
\* passes over what is settled, and the router judges again only what is open.
THEOREM StaysSettled == Spec => SettledStaysSettled
  <1>1. Init => Listed
    BY InitListed
  <1>2. TypeOK /\ Listed /\ [Next]_vars => Listed'
    BY StepListed
  <1>3. TypeOK /\ Listed /\ [Next]_vars =>
          [\A r \in Reports :
             /\ bug[r].state \in Settled /\ r \notin touched' /\ job.r # r
             => bug'[r].state \in Settled]_vars
    BY SettledStep
  <1> QED
    BY Typing, <1>1, <1>2, <1>3, PTL DEF Spec, SettledStaysSettled

-------------------------------------------------------------------------------
(* No endless retry *)

\* Every pull request accepted for a report but the one it has was turned down, and counted; the
\* lap that made one does not offer the report again; and what is picked for a fix task has had
\* fewer than the threshold.  (A person who changes a report starts it anew.)
Tally ==
    \A r \in Reports \ touched :
       /\ Owing(bug[r], tries[r])
       /\ tries[r] <= ESCALATION_THRESHOLD
       /\ r \in lap => tries[r] = 0 \/ (done[r] # "none" /\ bug[r].pr # None)
       /\ job.at \in Batch /\ InHand(r) => tries[r] <= bug[r].rejections /\ tries[r] < ESCALATION_THRESHOLD

\* The reports triage or a batch is working on.
Working(r) == (job.at = "triage" /\ r \in job.todo \union {job.r}) \/ (job.at \in Batch /\ InHand(r))

\* Apart from the handling of a closed pull request, a step takes up only what it works on, and
\* never takes a report's pull request away or changes its count.
LEMMA Moves ==
    ASSUME TypeOK, [Next]_vars, ~SyncClosed, NEW r \in Reports, r \notin touched'
    PROVE  Tame(bug[r], bug'[r]) \/ (Working(r) /\ Mild(bug[r], bug'[r]))
  <1>1. CASE People
    <2>1. Standing(bug'[r]) \in {Standing(bug[r]), WithState(bug[r], "fixed")}
      BY <1>1, PeopleSteps
    <2> QED
      BY <2>1, TameMoves
  <1>2. CASE Store \/ Crash \/ UNCHANGED vars
    BY <1>2 DEF Store, Crash, vars, database, Tame
  <1>3. CASE LoadState
    BY <1>3, LoadSteps
  <1>4. ASSUME NEW ok \in BOOLEAN, Answered(ok)
        PROVE  Tame(bug[r], bug'[r]) \/ (Working(r) /\ Mild(bug[r], bug'[r]))
    BY <1>4, AnsweredSteps DEF Working, InHand, Batch
  <1>5. CASE Lap
    BY <1>5, LapSteps DEF Working, TakenUp, InHand, Batch, Tame
  <1> QED
    BY <1>1, <1>2, <1>3, <1>4, <1>5 DEF Next

\* A report that is worked on owes nothing, or has the pull request the lap has just made.
LEMMA WorkingOwes ==
    ASSUME TypeOK, Listed, Tally, NEW r \in Reports \ touched, Working(r)
    PROVE  tries[r] <= bug[r].rejections \/ bug[r].pr # None
  <1>1. tries[r] \in Nat /\ bug[r].rejections \in Nat /\ r # None
    BY Typed, ReportAssumption DEF BugRecords
  <1>2. CASE job.at = "triage" /\ r \in job.todo \union {job.r}
    <2>1. r \in lap
      BY <1>1, <1>2 DEF Listed, OwnLap
    <2> QED
      BY <1>1, <2>1 DEF Tally
  <1>3. CASE job.at \in Batch /\ InHand(r)
    BY <1>3 DEF Tally
  <1> QED
    BY <1>2, <1>3 DEF Working

\* A pull request that was closed: counted, or the report is parked for good.
LEMMA ClosedOwes ==
    ASSUME TypeOK, Listed, Tally, SyncClosed, NEW r \in Reports \ touched
    PROVE  Owing(bug'[r], tries[r])
  <1>1. tries[r] \in Nat /\ bug[r] \in BugRecords /\ Owing(bug[r], tries[r])
    BY Typed DEF Tally
  <1>2. job.at = "closing" /\ (r \in job.todo => bug[r].pr = job.p /\ job.p # None)
    BY Typed DEF SyncClosed, Running, Listed, Dropping, JobOK
  <1>3. CASE r \notin job.todo
    BY <1>1, <1>3 DEF SyncClosed
  <1>4. CASE bug'[r] = Reopened(bug[r])
    <2>1. Standing(bug'[r]) = <<"open", None, bug[r].rejections + 1, "other">>
      BY <1>1, <1>4, MarkStanding
    <2>2. bug'[r].rejections = bug[r].rejections + 1 /\ bug[r].rejections \in Nat
      BY <1>1, <2>1 DEF Standing, BugRecords
    <2> QED
      BY <1>1, <2>2 DEF Owing
  <1>5. CASE bug'[r] = [Because(bug[r], "deferred", "other") EXCEPT !.pr = None]
    <2>1. "deferred" \in States
      BY StateNames
    <2>2. /\ Standing(Because(bug[r], "deferred", "other")) = WithReason(bug[r], "deferred", "other")
          /\ Because(bug[r], "deferred", "other") \in BugRecords
      BY <1>1, <2>1, UpsertStanding, BugFields
    <2>3. \A b \in BugRecords : LET c == [b EXCEPT !.pr = None] IN
             c.state = b.state /\ c.why = b.why /\ c.rejections = b.rejections
      BY DEF BugRecords
    <2>4. bug'[r].state = "deferred" /\ bug'[r].why = "other" /\ bug'[r].rejections = bug[r].rejections
      BY <1>5, <2>2, <2>3 DEF Standing, WithReason
    <2> QED
      BY <1>1, <2>4 DEF Owing, Parked
  <1> QED
    BY <1>3, <1>4, <1>5 DEF SyncClosed

\* A fix task's pull request is one more accepted, and it is the report's.
LEMMA CreatedOwes ==
    ASSUME TypeOK, Listed, Tally, CreatePr, NEW r \in Reports \ touched
    PROVE  /\ Owing(bug'[r], tries'[r]) /\ tries'[r] <= ESCALATION_THRESHOLD
           /\ r # job.r => tries'[r] = tries[r] /\ bug'[r] = bug[r] /\ done'[r] = done[r]
           /\ r = job.r => done'[r] # "none" /\ bug'[r].pr # None
  <1>1. tries[r] \in Nat /\ bug[r] \in BugRecords /\ Owing(bug[r], tries[r]) /\ tries[r] <= ESCALATION_THRESHOLD
    BY Typed DEF Tally
  <1>2. /\ job.at = "opened" /\ job.p \in PRs /\ job.p # None
        /\ bug' = [bug EXCEPT ![job.r] = Upserted(@, "fix-queued", job.p)]
        /\ tries' = [tries EXCEPT ![job.r] = @ + 1]
        /\ \E o \in {"pr", "retry"} : done' = [done EXCEPT ![job.r] = o]
    BY Typed, ReportAssumption DEF CreatePr, Running, JobOK, JobRecords
  <1>3. CASE r # job.r
    BY <1>1, <1>2, <1>3, Typed
  <1>4. CASE r = job.r
    <2>1. tries'[r] = tries[r] + 1 /\ bug'[r] = Upserted(bug[r], "fix-queued", job.p) /\ done'[r] # "none"
      BY <1>2, <1>4, Typed
    <2>2. tries[r] <= bug[r].rejections /\ tries[r] < ESCALATION_THRESHOLD
      BY <1>2, <1>4 DEF Tally, Batch, InHand
    <2>3. "fix-queued" \in States
      BY StateNames
    <2>4. Standing(bug'[r]) = <<"fix-queued", job.p, bug[r].rejections, bug[r].why>>
      <3>1. Standing(Upserted(bug[r], "fix-queued", job.p))
              = <<"fix-queued", IF job.p = None THEN bug[r].pr ELSE job.p, bug[r].rejections, bug[r].why>>
        BY <1>1, <1>2, <2>3, UpsertStanding
      <3> QED
        BY <1>2, <2>1, <3>1
    <2>5. bug'[r].pr = job.p /\ bug'[r].rejections = bug[r].rejections /\ bug[r].rejections \in Nat
      BY <1>1, <2>4 DEF Standing, BugRecords
    <2>6. ESCALATION_THRESHOLD \in Nat
      BY ReportAssumption
    <2>7. tries'[r] <= bug'[r].rejections + 1 /\ tries'[r] <= ESCALATION_THRESHOLD
      BY <1>1, <2>1, <2>2, <2>5, <2>6
    <2> QED
      BY <1>2, <1>4, <2>1, <2>5, <2>7 DEF Owing
  <1> QED
    BY <1>3, <1>4

LEMMA TallyStep ==
    ASSUME ESCALATION_THRESHOLD # 0, TypeOK, Listed, Tally, [Next]_vars
    PROVE  Tally'
  <1> SUFFICES ASSUME NEW r \in Reports \ touched'
               PROVE  /\ Owing(bug'[r], tries'[r])
                      /\ tries'[r] <= ESCALATION_THRESHOLD
                      /\ r \in lap' => tries'[r] = 0 \/ (done'[r] # "none" /\ bug'[r].pr # None)
                      /\ job'.at \in Batch /\ InHand(r)' =>
                            tries'[r] <= bug'[r].rejections /\ tries'[r] < ESCALATION_THRESHOLD
    BY DEF Tally, InHand
  <1>0. Flow /\ r \in Reports \ touched /\ r \in Reports
    BY ListedFlow, ContextSteps
  <1>1. /\ tries[r] \in Nat /\ bug[r] \in BugRecords /\ bug'[r] \in BugRecords /\ ESCALATION_THRESHOLD \in Nat
        /\ Owing(bug[r], tries[r]) /\ tries[r] <= ESCALATION_THRESHOLD
        /\ r \in lap => tries[r] = 0 \/ (done[r] # "none" /\ bug[r].pr # None)
        /\ job.at \in Batch /\ InHand(r) => tries[r] <= bug[r].rejections /\ tries[r] < ESCALATION_THRESHOLD
    BY <1>0, Typed, StepTyped, ReportAssumption DEF Tally, TypeOK
  <1>2. CASE CreatePr
    <2>1. lap' = lap /\ job'.at = "work"
      BY <1>2, JobShapes DEF CreatePr
    <2> QED
      BY <1>0, <1>1, <1>2, <2>1, CreatedOwes DEF Batch
  <1>3. CASE SyncClosed
    <2>1. tries' = tries /\ lap' = lap /\ job'.at = "load" /\ job.at = "closing"
      BY <1>3, JobShapes DEF SyncClosed, Frame, Running
    <2>2. lap = {}
      BY <2>1 DEF Listed, OwnLap, Lapless
    <2> QED
      BY <1>0, <1>1, <1>3, <2>1, <2>2, ClosedOwes DEF Batch
  <1>4. CASE ~CreatePr /\ ~SyncClosed
    <2>1. tries' = tries
      BY <1>4, ContextSteps
    <2>2. Tame(bug[r], bug'[r]) \/ (Working(r) /\ Mild(bug[r], bug'[r]))
      BY <1>0, <1>4, Moves
    <2>3. Owing(bug'[r], tries[r]) /\ Mild(bug[r], bug'[r])
      <3>1. Working(r) => tries[r] <= bug[r].rejections \/ bug[r].pr # None
        BY <1>0, WorkingOwes
      <3> QED
        BY <1>1, <2>2, <3>1, Owes
    <2>4. ASSUME r \in lap'
          PROVE  tries[r] = 0 \/ (done'[r] # "none" /\ bug'[r].pr # None)
      <3>1. CASE Fetch
        <4>1. class[r] = None
          BY <2>4, <3>1 DEF Fetch
        <4> QED
          BY <1>0, <4>1 DEF Listed, Unread
      <3>2. CASE ~Fetch
        <4>1. lap' = lap /\ (r \in Handled => r \in Handled')
          BY <2>4, <3>2, ContextSteps
        <4>2. done[r] # "none" => done'[r] # "none"
          BY <1>0, <4>1 DEF Handled
        <4> QED
          BY <1>1, <2>3, <2>4, <4>1, <4>2 DEF Mild
      <3> QED
        BY <3>1, <3>2
    <2>5. ASSUME job'.at \in Batch, InHand(r)'
          PROVE  tries[r] <= bug'[r].rejections /\ tries[r] < ESCALATION_THRESHOLD
      <3>1. bug'[r].rejections = bug[r].rejections /\ bug[r].rejections \in Nat
        BY <1>1, <2>3 DEF Mild, BugRecords
      <3>2. CASE job.at \in Batch /\ InHand(r)
        BY <1>1, <3>1, <3>2
      <3>3. CASE Decide /\ r \in Offered'
        <4>1. CASE r \in lap
          <5>1. r \notin Handled
            BY <1>0, <3>3, <4>1, OfferedOpen
          <5>2. tries[r] = 0
            BY <1>0, <1>1, <4>1, <5>1 DEF Handled
          <5> QED
            BY <1>1, <3>1, <5>2
        <4>2. CASE r \notin lap
          <5>1. /\ bug'[r].state = "open" /\ bug'[r].pr = None
                /\ bug'[r].rejections < ESCALATION_THRESHOLD
            BY <1>0, <3>3, <4>2, OfferedOpen
          <5>2. tries[r] <= bug'[r].rejections
            BY <2>3, <5>1 DEF Owing, Parked, Settled
          <5> QED
            BY <1>1, <3>1, <5>1, <5>2
        <4> QED
          BY <4>1, <4>2
      <3>4. job'.at # "triage"
        BY <2>5 DEF Batch
      <3> QED
        BY <1>0, <2>5, <3>2, <3>3, <3>4, PickedUp
    <2> QED
      BY <1>1, <2>1, <2>3, <2>4, <2>5
  <1> QED
    BY <1>2, <1>3, <1>4

\* A report whose pull requests reviewers keep turning down goes to a person: each rejection is
\* counted when the closed pull request is seen, a report is not offered again before that, and
\* with as many rejections as the threshold it is not offered at all.  (The lap's own reports are
\* offered whatever their count, which a threshold of zero would not allow for.)
THEOREM Escalates == ASSUME ESCALATION_THRESHOLD # 0 PROVE Spec => []NoEndlessRetry
  <1>1. Init => Listed
    BY InitListed
  <1>2. Init => Tally
    <2> SUFFICES ASSUME Init PROVE Tally
      OBVIOUS
    <2>1. job.at = "load"
      BY JobShapes DEF Init
    <2>2. NoBug.rejections = 0
      BY DEF NoBug
    <2>3. ESCALATION_THRESHOLD \in Nat
      BY ReportAssumption
    <2> QED
      BY <2>1, <2>2, <2>3 DEF Init, Tally, Owing, Batch
  <1>3. TypeOK /\ Listed /\ [Next]_vars => Listed'
    BY StepListed
  <1>4. TypeOK /\ Listed /\ Tally /\ [Next]_vars => Tally'
    BY TallyStep
  <1>5. Tally => NoEndlessRetry
    BY DEF Tally, NoEndlessRetry
  <1> QED
    BY Typing, <1>1, <1>2, <1>3, <1>4, <1>5, PTL DEF Spec

-------------------------------------------------------------------------------
(* A report whose fix is live is told so, or is still due *)

\* The deployed pass is begun as one, and goes on through its own steps until it ends.
LEMMA PassSteps ==
    ASSUME TypeOK, [Next]_vars
    PROVE  /\ job'.at = "deployed" =>
                \/ People \/ Store \/ UNCHANGED vars \/ StartDeployed
                \/ \E q \in Reports : Deployed(q)
                \/ \E ok \in BOOLEAN : AnsweredDeployed(ok)
           /\ job.at = "deployed" /\ job'.at # "deployed" => EndDeployed \/ Crash
  <1>1. ASSUME job'.at = "deployed"
        PROVE  \/ People \/ Store \/ UNCHANGED vars \/ StartDeployed
               \/ \E q \in Reports : Deployed(q)
               \/ \E ok \in BOOLEAN : AnsweredDeployed(ok)
    <2>1. ~Crash /\ ~Lap
      BY <1>1, LapAt, JobShapes DEF Crash
    <2>2. ASSUME NEW ok \in BOOLEAN, Answered(ok)
          PROVE  AnsweredDeployed(ok)
      <3>1. job.at = "deployed"
        BY <1>1, <2>2, AnsweredAt, JobShapes
      <3> QED
        BY <2>2, <3>1 DEF Answered, AnsweredDraft, AnsweredChase, AnsweredDirect, AnsweredTriage,
                          AnsweredRecheck, AnsweredAsk, AnsweredRefuse
    <2> QED
      BY <1>1, <2>1, <2>2, LoadAt DEF Next
  <1>2. ASSUME job.at = "deployed", job'.at # "deployed", ~EndDeployed, ~Crash
        PROVE  FALSE
    <2>1. ~UNCHANGED vars /\ ~People
      BY <1>2, PeopleLeave DEF vars
    <2>2. ~Store
      BY <1>2, Typed DEF Store, JobRecords
    <2>3. ~LoadState
      <3>1. LoadState => \E q \in Reports : Deployed(q)
        BY <1>2 DEF LoadState, SyncPr, SyncClosed, StartScan, EndScan, StartDeployed, StartFlush, EndFlush,
                    StartChase, EndChase, StartDirect, EndDirect, Flush, Chase, Direct, Running, Begin
      <3>2. \A q \in Reports : ~Deployed(q)
        <4> SUFFICES ASSUME NEW q \in Reports, Deployed(q) PROVE FALSE
          OBVIOUS
        <4>1. job' = Without(job, {q}) \/ Post(Without(job, {q}), q)
          BY DEF Deployed
        <4> QED
          BY <1>2, <4>1, WithoutShape, PostShape
      <3> QED
        BY <3>1, <3>2
    <2>4. ~Lap
      BY <1>2 DEF Lap, Fetch, StartRouter, Decide, Dispatch, LapEnd, Triage, AnswerQuestion, Recheck,
                  TaskDeferred, LoopBreaker, TaskAsks, OpenPr, CreatePr, RefusePr, Running
    <2>5. ASSUME NEW ok \in BOOLEAN, Answered(ok)
          PROVE  FALSE
      <3>1. AnsweredDeployed(ok)
        BY <1>2, <2>5 DEF Answered, AnsweredDraft, AnsweredChase, AnsweredDirect, AnsweredTriage,
                          AnsweredRecheck, AnsweredAsk, AnsweredRefuse
      <3>2. Back \in JobRecords /\ Back.at = "deployed"
        BY <1>2, BackShape
      <3>3. \A S : [Back EXCEPT !.failed = S].at = "deployed"
        BY <3>2 DEF JobRecords
      <3> QED
        BY <1>2, <3>1, <3>3 DEF AnsweredDeployed
    <2> QED
      BY <1>2, <2>1, <2>2, <2>3, <2>4, <2>5 DEF Next
  <1> QED
    BY <1>1, <1>2

\* A pull request known to have merged has merged, and is not one a fix task is opening.
Merging ==
    /\ \A p \in PRs : pull[p].known = "MERGED" => pull[p].gh \in {"merged", "live"}
    /\ job.at = "opened" => pull[job.p].known # "MERGED"

\* Only the pass marks a pull request deployed, and what has merged is not unmade.
LEMMA PullSteps ==
    ASSUME TypeOK, Merging, [Next]_vars, NEW p \in PRs
    PROVE  /\ pull[p].known = "MERGED" => pull'[p].known = "MERGED"
           /\ pull'[p].known = "MERGED" => pull'[p].gh \in {"merged", "live"}
           /\ pull[p].deploy # "deployed" =>
                 pull'[p].deploy # "deployed" \/ \E q \in Reports : Deployed(q)
           /\ pull'[p].known # pull[p].known => \E x \in PRs : SyncPr(x)
  <1>0. /\ pull \in [PRs -> PullRecords] /\ pull[p] \in PullRecords
        /\ pull[p].known = "MERGED" => pull[p].gh \in {"merged", "live"}
    BY Typed DEF Merging
  <1>1. CASE pull' = pull
    BY <1>0, <1>1
  <1>2. ASSUME NEW x \in PRs, NEW g \in {"merged", "closed", "wontfix", "live", "open"},
               pull' = [pull EXCEPT ![x].gh = g],
               pull[x].known = "MERGED" => g \in {"merged", "live"}
        PROVE  /\ pull'[p].known = pull[p].known /\ pull'[p].deploy = pull[p].deploy
               /\ pull'[p].known = "MERGED" => pull'[p].gh \in {"merged", "live"}
    BY <1>0, <1>2 DEF PullRecords
  <1>3. CASE GitHub
    <2>1. PICK x \in PRs :
             \/ pull[x].gh = "open" /\ \E g \in {"merged", "closed", "wontfix"} :
                                           pull' = [pull EXCEPT ![x].gh = g]
             \/ pull[x].gh = "merged" /\ pull' = [pull EXCEPT ![x].gh = "live"]
      BY <1>3 DEF GitHub
    <2>2. pull[x].gh = "open" => pull[x].known # "MERGED"
      BY DEF Merging
    <2> QED
      BY <1>2, <2>1, <2>2
  <1>4. CASE OpenPr
    <2>1. PICK x \in PRs : pull[x].gh = "none" /\ pull' = [pull EXCEPT ![x].gh = "open"]
      BY <1>4 DEF OpenPr
    <2>2. pull[x].known # "MERGED"
      BY <2>1 DEF Merging
    <2> QED
      BY <1>2, <2>1, <2>2
  <1>5. CASE RefusePr
    <2>1. job.at = "opened" /\ pull' = [pull EXCEPT ![job.p].gh = "closed"] /\ job.p \in PRs
      BY <1>5, Typed DEF RefusePr, Running, JobOK, JobRecords
    <2>2. pull[job.p].known # "MERGED"
      BY <2>1 DEF Merging
    <2> QED
      BY <1>2, <2>1, <2>2
  <1>6. CASE \E x \in PRs : SyncPr(x)
    <2>1. PICK x \in PRs : SyncPr(x)
      BY <1>6
    <2>2. \E d : /\ pull' = [pull EXCEPT ![x].known = Known(x), ![x].deploy = d]
                 /\ d \in {pull[x].deploy, "pending_deploy"}
      BY <2>1 DEF SyncPr
    <2>3. /\ p # x => pull'[p] = pull[p]
          /\ p = x => /\ pull'[p].known = Known(x) /\ pull'[p].gh = pull[p].gh
                      /\ pull'[p].deploy \in {pull[p].deploy, "pending_deploy"}
      BY <1>0, <2>2 DEF PullRecords
    <2>4. Known(x) = "MERGED" <=> pull[x].gh \in {"merged", "live"}
      BY DEF Known
    <2> QED
      BY <1>0, <1>6, <2>3, <2>4
  <1>7. ASSUME NEW x \in PRs, NEW d, pull' = [pull EXCEPT ![x].deploy = d]
        PROVE  pull'[p].known = pull[p].known /\ pull'[p].gh = pull[p].gh
    BY <1>0, <1>7 DEF PullRecords
  <1>8. CASE \E q \in Reports : Deployed(q)
    <2>1. \E x \in PRs : pull' = pull \/ pull' = [pull EXCEPT ![x].deploy = "deployed"]
      BY <1>8 DEF Deployed
    <2> QED
      BY <1>0, <1>1, <1>7, <1>8, <2>1
  <1>9. CASE EndDeployed
    <2>1. pull'[p] = IF p \in job.failed THEN [pull[p] EXCEPT !.deploy = "pending_deploy"] ELSE pull[p]
      BY <1>9 DEF EndDeployed
    <2>2. /\ [pull[p] EXCEPT !.deploy = "pending_deploy"].known = pull[p].known
          /\ [pull[p] EXCEPT !.deploy = "pending_deploy"].gh = pull[p].gh
          /\ [pull[p] EXCEPT !.deploy = "pending_deploy"].deploy = "pending_deploy"
      BY <1>0 DEF PullRecords
    <2> QED
      BY <1>0, <2>1, <2>2
  <1>10. CASE pull' # pull
    <2>1. ~(Week \/ Status \/ \E q \in Reports : Dashboard(q) \/ DashboardDraft(q))
      BY <1>10 DEF Week, Status, Dashboard, DashboardDraft
    <2>2. ~(Store \/ Crash \/ UNCHANGED vars)
      BY <1>10 DEF Store, Crash, vars, database
    <2>3. ~\E ok \in BOOLEAN : Answered(ok)
      BY <1>10 DEF Answered, AnsweredDeployed, AnsweredDraft, AnsweredChase, AnsweredDirect, AnsweredTriage,
                   AnsweredRecheck, AnsweredAsk, AnsweredRefuse, Work
    <2>4. LoadState => (\E x \in PRs : SyncPr(x)) \/ (\E q \in Reports : Deployed(q)) \/ EndDeployed
      BY <1>10 DEF LoadState, SyncClosed, StartScan, EndScan, StartDeployed, StartFlush, EndFlush, StartChase,
                   EndChase, StartDirect, EndDirect, Flush, Chase, Direct, database
    <2>5. Lap => OpenPr \/ RefusePr
      BY <1>10 DEF Lap, Fetch, StartRouter, Decide, Dispatch, LapEnd, Triage, AnswerQuestion, Recheck,
                   TaskDeferred, LoopBreaker, TaskAsks, CreatePr, Work, database
    <2> QED
      BY <1>3, <1>4, <1>5, <1>6, <1>8, <1>9, <2>1, <2>2, <2>3, <2>4, <2>5 DEF Next, People
  <1> QED
    BY <1>1, <1>10

LEMMA OpenedBefore ==
    ASSUME TypeOK, Listed, [Next]_vars, job'.at = "opened", ~OpenPr
    PROVE  job.at = "opened" /\ job'.p = job.p /\ \A x \in PRs : ~SyncPr(x)
  <1>1. job.at \in {"fix", "opened", "ask", "refuse"}
    BY ListedFlow DEF Flow
  <1>2. \A x \in PRs : ~SyncPr(x)
    BY <1>1 DEF SyncPr, Running
  <1>3. CASE People \/ UNCHANGED vars
    BY <1>2, <1>3, PeopleLeave DEF vars
  <1>4. CASE Store
    <2>1. job'.at = job.at /\ job'.p = job.p
      BY <1>4, Typed DEF Store, JobRecords
    <2> QED
      BY <1>2, <2>1
  <1>5. ~Crash /\ ~LoadState
    BY LoadAt, JobShapes DEF Crash
  <1>6. ASSUME NEW ok \in BOOLEAN, Answered(ok)
        PROVE  FALSE
    <2>1. job.at = "opened"
      BY <1>6, AnsweredAt, JobShapes
    <2> QED
      BY <1>6, <2>1 DEF Answered, AnsweredDeployed, AnsweredDraft, AnsweredChase, AnsweredDirect,
                        AnsweredTriage, AnsweredRecheck, AnsweredAsk, AnsweredRefuse
  <1>7. ~Lap
    <2>1. job' # At("work") /\ job' # At("load")
      BY JobShapes
    <2>2. ~TaskAsks
      <3>1. At("ask") \in JobRecords /\ At("ask").at = "ask"
        BY StartJob DEF Loops
      <3> QED
        BY <2>1, <3>1, PostShape DEF TaskAsks, Ask
    <2>3. ~RefusePr
      <3> DEFINE j == [job EXCEPT !.at = "refuse"]
      <3>1. j \in JobRecords /\ j.at = "refuse"
        BY Typed DEF JobRecords, Loops
      <3>2. RefusePr => Post(j, job.r)
        BY <2>1 DEF RefusePr, Ask
      <3> HIDE DEF j
      <3> QED
        BY <3>1, <3>2, PostShape
    <2>4. ~(Fetch \/ StartRouter \/ Decide \/ Dispatch \/ LapEnd
            \/ \E r \in Reports : Triage(r) \/ AnswerQuestion(r) \/ Recheck(r))
      BY <1>1 DEF Fetch, StartRouter, Decide, Dispatch, LapEnd, Triage, AnswerQuestion, Recheck, Running
    <2>5. ~(TaskDeferred \/ LoopBreaker \/ CreatePr)
      BY <2>1 DEF TaskDeferred, LoopBreaker, CreatePr
    <2> QED
      BY <2>2, <2>3, <2>4, <2>5 DEF Lap
  <1> QED
    BY <1>3, <1>4, <1>5, <1>6, <1>7 DEF Next

LEMMA MergingStep == TypeOK /\ Listed /\ Merging /\ [Next]_vars => Merging'
  <1> SUFFICES ASSUME TypeOK, Listed, Merging, [Next]_vars PROVE Merging'
    OBVIOUS
  <1>1. \A p \in PRs : pull'[p].known = "MERGED" => pull'[p].gh \in {"merged", "live"}
    BY PullSteps
  <1>2. ASSUME job'.at = "opened"
        PROVE  pull'[job'.p].known # "MERGED"
    <2>1. CASE OpenPr
      <3>1. PICK p \in PRs : /\ pull[p].gh = "none" /\ pull' = [pull EXCEPT ![p].gh = "open"]
                             /\ job' = [job EXCEPT !.at = "opened", !.p = p]
        BY <2>1 DEF OpenPr
      <3>2. job'.p = p /\ pull'[p].gh = "open"
        BY <3>1, Typed DEF JobRecords, PullRecords
      <3> QED
        BY <1>1, <3>2
    <2>2. CASE ~OpenPr
      <3>1. /\ job.at = "opened" /\ job'.p = job.p /\ \A x \in PRs : ~SyncPr(x)
            /\ job.p \in PRs
        BY <1>2, <2>2, OpenedBefore, Typed DEF JobOK, JobRecords
      <3> QED
        BY <3>1, PullSteps DEF Merging
    <2> QED
      BY <2>1, <2>2
  <1> QED
    BY <1>1, <1>2 DEF Merging

\* The report's pull request is known to have merged, and no lap and no batch is about the report.
Landed(r) ==
    /\ bug[r].state \in Queued /\ bug[r].pr \in PRs /\ pull[bug[r].pr].known = "MERGED"
    /\ class[r] # None /\ r \notin lap /\ ~Working(r)

\* It stays so: a closed pull request is another one, and the router offers only open reports.
LEMMA LandedStays ==
    ASSUME TypeOK, Listed, Merging, [Next]_vars, NEW r \in Reports \ touched', Landed(r)
    PROVE  (Landed(r))' /\ bug'[r].pr = bug[r].pr
  <1>0. Flow /\ Listed' /\ r \in Reports \ touched /\ r \in Reports
    BY ListedFlow, StepListed, ContextSteps
  <1>1. bug'[r].pr = bug[r].pr /\ bug'[r].state \in Queued
    <2>1. CASE SyncClosed
      <3>1. r \notin job.todo
        BY <1>0, <2>1 DEF SyncClosed, Running, Listed, Dropping, Landed
      <3> QED
        BY <1>0, <2>1, <3>1 DEF SyncClosed, Landed
    <2>2. CASE ~SyncClosed
      BY <1>0, <2>2, Moves DEF Landed, Tame
    <2> QED
      BY <2>1, <2>2
  <1>2. bug'[r].pr \in PRs /\ pull'[bug'[r].pr].known = "MERGED"
    BY <1>1, PullSteps DEF Landed
  <1>3. class'[r] # None /\ r \notin lap'
    <2>1. class'[r] # None
      BY <1>0, ContextSteps DEF Landed
    <2>2. Fetch => r \notin lap'
      BY DEF Fetch, Landed
    <2> QED
      BY <2>1, <2>2, ContextSteps DEF Landed
  <1>4. ~((Working(r))')
    <2> SUFFICES ASSUME (Working(r))' PROVE FALSE
      OBVIOUS
    <2>0. r # None
      BY ReportAssumption
    <2>1. CASE job'.at = "triage" /\ r \in job'.todo \union {job'.r}
      BY <1>0, <1>3, <2>0, <2>1 DEF Listed, OwnLap
    <2>2. CASE job'.at \in Batch /\ (InHand(r))'
      <3>1. job'.at # "triage"
        BY <2>2 DEF Batch
      <3>2. Decide /\ r \in Offered' => FALSE
        BY <1>0, <1>1, OfferedOpen DEF Landed, Queued
      <3>3. InHand(r) /\ job.at \in Batch
        BY <1>0, <2>2, <3>1, <3>2, PickedUp
      <3> QED
        BY <3>3 DEF Landed, Working
    <2> QED
      BY <2>1, <2>2 DEF Working
  <1> QED
    BY <1>1, <1>2, <1>3, <1>4 DEF Landed

LEMMA LandedDue ==
    ASSUME TypeOK, NEW r \in Reports, Landed(r)
    PROVE  r \in Due <=> pull[bug[r].pr].deploy # "deployed"
  <1>1. /\ bug[r].state \in {"fix-queued", "fixed"} /\ bug[r].pr \in PRs
        /\ pull[bug[r].pr].known = "MERGED"
        /\ pull[bug[r].pr].deploy \in {"null", "pending_deploy", "deployed"}
    BY Typed DEF Landed, Queued, PullRecords
  <1> QED
    BY <1>1 DEF Due, In

\* A report that is due has landed: a lap would not be about it while its list is made.
LEMMA DueLanded ==
    ASSUME TypeOK, Listed, job.at = "load", NEW r \in Due
    PROVE  r \in Reports /\ Landed(r)
  <1>1. /\ r \in Reports /\ bug[r].state \in Queued /\ bug[r].pr \in PRs /\ pull[bug[r].pr].known = "MERGED"
    BY DEF Due, In, Queued
  <1>2. class[r] # None
    BY <1>1 DEF Listed, Unread, NoBug, Queued
  <1>3. lap = {} /\ ~Working(r)
    BY DEF Listed, OwnLap, Lapless, Working, Batch
  <1> QED
    BY <1>1, <1>2, <1>3 DEF Landed

\* The report has a reply, or a draft of one of any kind, or nothing to be told.
Told(r) == HasLive(r) \/ row[r].rejected > 0 \/ bug[r].pr \in Tooling
\* Its own last look found it live, or the pass is still to look at it.
Held(r) == r \in owed \/ (job.at = "deployed" /\ r \in job.todo)

LEMMA ToldStays ==
    ASSUME TypeOK, [Next]_vars, NEW r \in Reports, bug'[r].pr = bug[r].pr, Told(r)
    PROVE  (Told(r))'
  <1>1. row[r] \in RowRecords /\ RowMoves(row[r], row'[r])
    BY Typed, RowsMove
  <1> QED
    BY <1>1, RowMovesKeep DEF Told, HasLive

\* What the pass is about has landed, and was listed with the pull request it has; it is told, or
\* the pass has it down, or it is due.
Telling ==
    \A r \in Reports \ touched : Held(r) =>
       /\ Landed(r)
       /\ job.at = "deployed" /\ (r \in job.todo \/ Sending(r)) => job.of[r] = bug[r].pr
       /\ \/ Told(r)
          \/ job.at = "deployed" /\ (r \in job.todo \/ Sending(r) \/ bug[r].pr \in job.failed)
          \/ job.at # "deployed" /\ r \in Due

LEMMA OwedSteps ==
    ASSUME TypeOK, [Next]_vars
    PROVE  owed' = owed \/ Crash \/ \E q \in Reports : Deployed(q)
  <1>1. People => owed' = owed
    BY DEF People, GitHub, Week, Status, Dashboard, DashboardDraft, ghosts
  <1>2. Store \/ UNCHANGED vars => owed' = owed
    BY DEF Store, vars, ghosts
  <1>3. LoadState => owed' = owed \/ \E q \in Reports : Deployed(q)
    BY DEF LoadState, SyncPr, SyncClosed, StartScan, EndScan, StartDeployed, EndDeployed, StartFlush,
           EndFlush, StartChase, EndChase, StartDirect, EndDirect, Flush, Chase, Direct, Frame
  <1>4. \A ok \in BOOLEAN : Answered(ok) => owed' = owed
    BY DEF Answered, AnsweredDeployed, AnsweredDraft, AnsweredChase, AnsweredDirect, AnsweredTriage,
           AnsweredRecheck, AnsweredAsk, AnsweredRefuse, Frame, Work
  <1>5. Lap => owed' = owed
    BY DEF Lap, Fetch, StartRouter, Decide, Dispatch, LapEnd, Triage, AnswerQuestion, Recheck, TaskDeferred,
           LoopBreaker, TaskAsks, OpenPr, CreatePr, RefusePr, Work, ghosts
  <1> QED
    BY <1>1, <1>2, <1>3, <1>4, <1>5 DEF Next

\* One report of the pass is looked at: it is to be told, has been, or is told nothing; the others
\* are where they were.
LEMMA LookedAt ==
    ASSUME TypeOK, NEW q \in Reports, Deployed(q), NEW r \in Reports
    PROVE  /\ job.at = "deployed" /\ job'.at = "deployed" /\ job.send = "no" /\ q \in job.todo
           /\ job'.todo = job.todo \ {q} /\ job'.of = job.of /\ job'.failed = job.failed
           /\ bug' = bug /\ row' = row
           /\ r \in owed' /\ r # q => r \in owed /\ ~((Sending(r))')
           /\ q \in owed' => job.of[q] \in PRs /\ (HasAny(q) \/ job.of[q] \in Tooling \/ (Sending(q))')
  <1> DEFINE j == Without(job, {q})
  <1>1. job.at = "deployed" /\ job.send = "no" /\ q \in job.todo /\ bug' = bug /\ row' = row
    BY DEF Deployed, Running
  <1>2. /\ j \in JobRecords /\ j.at = "deployed" /\ j.send = "no" /\ j.todo = job.todo \ {q}
        /\ j.of = job.of /\ j.failed = job.failed
    BY <1>1, Typed DEF Without, JobRecords
  <1>3. \/ /\ owed' = owed \ {q} /\ job' = j
        \/ /\ owed' = owed \union {q} /\ job.of[q] \in PRs
           /\ \/ (HasAny(q) \/ job.of[q] \in Tooling) /\ job' = j
              \/ Post(j, q)
    BY DEF Deployed
  <1> HIDE DEF j
  <1>4. ASSUME Post(j, q)
        PROVE  /\ job'.at = "deployed" /\ job'.send = "sent" /\ job'.todo = job.todo \ {q}
               /\ job'.of = job.of /\ job'.failed = job.failed /\ job'.r = q
    BY <1>2, <1>4 DEF Post, JobRecords
  <1>5. CASE job' = j
    BY <1>1, <1>2, <1>3, <1>4, <1>5 DEF Sending
  <1>6. CASE Post(j, q)
    BY <1>1, <1>2, <1>3, <1>4, <1>6 DEF Sending
  <1> QED
    BY <1>3, <1>5, <1>6

\* In the pass: its list is what was due, each is looked at with the pull request it was listed
\* with, and a reply that is refused leaves the pull request among those to be armed again.
LEMMA TellingPass ==
    ASSUME TypeOK, Listed, Merging, Telling, [Next]_vars, job'.at = "deployed",
           NEW r \in Reports \ touched', (Held(r))'
    PROVE  /\ (Landed(r))'
           /\ r \in job'.todo \/ (Sending(r))' => job'.of[r] = bug'[r].pr
           /\ (Told(r))' \/ r \in job'.todo \/ (Sending(r))' \/ bug'[r].pr \in job'.failed
  <1>0. r \in Reports \ touched /\ r \in Reports
    BY ContextSteps
  <1>1. ASSUME Held(r)
        PROVE  /\ Landed(r) /\ (Landed(r))' /\ bug'[r].pr = bug[r].pr
               /\ Told(r) => (Told(r))'
               /\ job.at = "deployed" /\ (r \in job.todo \/ Sending(r)) => job.of[r] = bug[r].pr
               /\ \/ Told(r)
                  \/ job.at = "deployed" /\ (r \in job.todo \/ Sending(r) \/ bug[r].pr \in job.failed)
                  \/ job.at # "deployed" /\ r \in Due
    BY <1>0, <1>1, LandedStays, ToldStays DEF Telling
  <1>2. CASE People \/ Store \/ UNCHANGED vars
    <2>1. /\ job'.at = job.at /\ job'.todo = job.todo /\ job'.of = job.of /\ job'.failed = job.failed
          /\ (Sending(r))' <=> Sending(r)
      <3>1. CASE People \/ UNCHANGED vars
        <4>1. job' = job
          BY <3>1, PeopleLeave DEF vars
        <4> QED
          BY <4>1 DEF Sending
      <3>2. CASE Store
        BY <3>2, Typed DEF Store, JobRecords, Sending
      <3> QED
        BY <1>2, <3>1, <3>2
    <2>2. ~(\E q \in Reports : Deployed(q)) /\ ~Crash
      <3>1. ~Crash
        BY JobShapes DEF Crash
      <3>2. \A q \in Reports : Deployed(q) => job'.todo # job.todo
        BY LookedAt
      <3> QED
        BY <2>1, <3>1, <3>2
    <2>3. Held(r)
      BY <2>1, <2>2, OwedSteps DEF Held
    <2> QED
      BY <1>1, <2>1, <2>3
  <1>3. CASE StartDeployed
    <2> DEFINE of == [q \in Reports |-> IF q \in Due THEN bug[q].pr ELSE None]
    <2>1. job.at = "load" /\ bug' = bug /\ row' = row /\ owed' = owed
          /\ job' = [At("deployed") EXCEPT !.todo = Due, !.of = of]
      BY <1>3, Zenon DEF StartDeployed, Running, database, Frame
    <2>2. job'.todo = Due /\ job'.of = of /\ ~((Sending(r))')
      <3> HIDE DEF of
      <3> QED
        BY <2>1 DEF At, Sending
    <2>3. r \in Due => of[r] = bug[r].pr
      BY <1>0
    <2> HIDE DEF of
    <2>4. CASE r \in Due
      BY <1>0, <2>1, <2>2, <2>3, <2>4, DueLanded, LandedStays
    <2>5. CASE r \notin Due
      <3>1. Held(r)
        BY <2>1, <2>2, <2>5 DEF Held
      <3> QED
        BY <1>1, <2>1, <2>2, <2>5, <3>1
    <2> QED
      BY <2>4, <2>5
  <1>4. ASSUME NEW q \in Reports, Deployed(q)
        PROVE  /\ (Landed(r))'
               /\ r \in job'.todo \/ (Sending(r))' => job'.of[r] = bug'[r].pr
               /\ (Told(r))' \/ r \in job'.todo \/ (Sending(r))' \/ bug'[r].pr \in job'.failed
    <2>1. /\ job.at = "deployed" /\ job.send = "no" /\ q \in job.todo /\ job'.todo = job.todo \ {q}
          /\ job'.of = job.of /\ job'.failed = job.failed /\ bug' = bug /\ row' = row
          /\ r \in owed' /\ r # q => r \in owed /\ ~((Sending(r))')
          /\ q \in owed' => HasAny(q) \/ job.of[q] \in Tooling \/ (Sending(q))'
      BY <1>0, <1>4, LookedAt
    <2>2. ~Sending(r)
      BY <2>1 DEF Sending
    <2>3. CASE r = q
      <3>1. Held(r) /\ r \in owed'
        BY <2>1, <2>3 DEF Held
      <3>2. HasAny(r) \/ job.of[r] \in Tooling => Told(r)
        BY <1>1, <2>1, <2>3, <3>1 DEF HasAny, Told
      <3> QED
        BY <1>1, <2>1, <2>3, <3>1, <3>2
    <2>4. CASE r # q
      <3>1. Held(r)
        BY <2>1, <2>4 DEF Held
      <3>2. ~((Sending(r))')
        <4>1. (Sending(r))' => job'.r = r
          BY DEF Sending
        <4>2. job' = Without(job, {q}) \/ Post(Without(job, {q}), q)
          BY <1>4 DEF Deployed
        <4>3. Without(job, {q}) \in JobRecords /\ Without(job, {q}).send = "no"
          BY <2>1, WithoutShape, Typed, JobHelpers
        <4>4. job' = Without(job, {q}) => ~((Sending(r))')
          BY <4>3 DEF Sending
        <4>5. Post(Without(job, {q}), q) => job'.r = q
          BY <4>3, PostShape
        <4> QED
          BY <2>4, <4>1, <4>2, <4>4, <4>5
      <3> QED
        BY <1>1, <2>1, <2>2, <2>4, <3>1, <3>2
    <2> QED
      BY <2>3, <2>4
  <1>5. ASSUME NEW ok \in BOOLEAN, AnsweredDeployed(ok)
        PROVE  /\ (Landed(r))'
               /\ r \in job'.todo \/ (Sending(r))' => job'.of[r] = bug'[r].pr
               /\ (Told(r))' \/ r \in job'.todo \/ (Sending(r))' \/ bug'[r].pr \in job'.failed
    <2> DEFINE failed == IF ok THEN job.failed ELSE job.failed \union {p \in PRs : p = job.of[job.r]}
    <2>1. /\ job.at = "deployed" /\ job.send # "no" /\ owed' = owed /\ bug' = bug /\ Record(job.r, ok)
          /\ job' = [Back EXCEPT !.failed = failed]
      BY <1>5, BackShape, Typed DEF AnsweredDeployed, Answer, Frame, Back, JobRecords
    <2>2. /\ job'.todo = job.todo /\ job'.of = job.of /\ job'.failed = failed /\ job'.send = "no"
      <3>1. /\ Back \in JobRecords /\ Back.todo = job.todo /\ Back.of = job.of /\ Back.send = "no"
        BY Typed DEF Back, JobRecords
      <3> HIDE DEF failed
      <3> QED
        BY <2>1, <3>1 DEF JobRecords
    <2>3. Held(r) /\ ~((Sending(r))')
      BY <2>1, <2>2 DEF Held, Sending
    <2>4. CASE Sending(r) /\ ok
      <3>1. job.r = r /\ row'[r].posted
        BY <1>0, <2>1, <2>4, Typed DEF Sending, Record, RowRecords
      <3> QED
        BY <1>1, <2>1, <2>2, <2>3, <3>1 DEF Told, HasLive
    <2>5. CASE Sending(r) /\ ~ok
      <3>1. bug[r].pr \in failed
        BY <1>1, <2>1, <2>3, <2>5 DEF Sending, Landed
      <3> QED
        BY <1>1, <2>1, <2>2, <2>3, <3>1
    <2>6. CASE ~Sending(r)
      <3>1. job.failed \subseteq failed
        OBVIOUS
      <3> HIDE DEF failed
      <3> QED
        BY <1>1, <2>1, <2>2, <2>3, <2>6, <3>1
    <2> QED
      BY <2>4, <2>5, <2>6
  <1> QED
    BY <1>2, <1>3, <1>4, <1>5, PassSteps

\* Out of the pass: what it could not post is armed again as it ends, and nothing else marks a
\* pull request deployed.
LEMMA TellingOut ==
    ASSUME TypeOK, Listed, Merging, Telling, [Next]_vars, job'.at # "deployed",
           NEW r \in Reports \ touched', (Held(r))'
    PROVE  (Landed(r))' /\ ((Told(r))' \/ r \in Due')
  <1>0. r \in Reports \ touched /\ r \in Reports /\ r \in owed' /\ ~\E q \in Reports : Deployed(q)
    BY ContextSteps, LookedAt DEF Held
  <1>1. Held(r)
    BY <1>0, OwedSteps DEF Held, Crash
  <1>2. /\ Landed(r) /\ (Landed(r))' /\ bug'[r].pr = bug[r].pr /\ bug[r].pr \in PRs
        /\ Told(r) => (Told(r))'
        /\ \/ Told(r)
           \/ job.at = "deployed" /\ (r \in job.todo \/ Sending(r) \/ bug[r].pr \in job.failed)
           \/ job.at # "deployed" /\ r \in Due
    BY <1>0, <1>1, LandedStays, ToldStays DEF Telling, Landed
  <1>3. pull' \in [PRs -> PullRecords]
    BY StepTyped DEF TypeOK
  <1>4. pull'[bug[r].pr].deploy # "deployed" => r \in Due'
    <2>1. /\ bug'[r].state \in {"fix-queued", "fixed"} /\ bug'[r].pr = bug[r].pr
          /\ pull'[bug[r].pr].known = "MERGED"
          /\ pull'[bug[r].pr].deploy \in {"null", "pending_deploy", "deployed"}
      BY <1>2, <1>3 DEF Landed, Queued, PullRecords
    <2> QED
      BY <1>0, <1>2, <2>1 DEF Due, In
  <1>5. CASE job.at # "deployed"
    BY <1>0, <1>2, <1>4, <1>5, PullSteps, LandedDue
  <1>6. CASE EndDeployed
    <2>1. job.todo = {} /\ ~Sending(r) /\ job.at = "deployed"
      BY <1>6 DEF EndDeployed, Running, Sending
    <2>2. bug[r].pr \in job.failed => pull'[bug[r].pr].deploy = "pending_deploy"
      BY <1>2, <1>6, Typed DEF EndDeployed, PullRecords
    <2> QED
      BY <1>2, <1>4, <2>1, <2>2
  <1>7. CASE Crash /\ job.at = "deployed"
    <2>1. r \in Due /\ Due' = Due
      BY <1>0, <1>7 DEF Crash, Due, In, database
    <2> QED
      BY <1>2, <2>1
  <1> QED
    BY <1>5, <1>6, <1>7, PassSteps

LEMMA TellingStep == TypeOK /\ Listed /\ Merging /\ Telling /\ [Next]_vars => Telling'
  <1> SUFFICES ASSUME TypeOK, Listed, Merging, Telling, [Next]_vars,
                      NEW r \in Reports \ touched', (Held(r))'
               PROVE  /\ (Landed(r))'
                      /\ job'.at = "deployed" /\ (r \in job'.todo \/ (Sending(r))') => job'.of[r] = bug'[r].pr
                      /\ \/ (Told(r))'
                         \/ /\ job'.at = "deployed"
                            /\ r \in job'.todo \/ (Sending(r))' \/ bug'[r].pr \in job'.failed
                         \/ job'.at # "deployed" /\ r \in Due'
    BY DEF Telling
  <1> QED
    BY TellingPass, TellingOut

\* A report whose own last look found its fix live is told so, or is on the list of the pass that
\* runs or of the next one, until somebody changes it on the dashboard: the mark that a report on
\* the same pull request sets, a reply the forum refused, and whatever later laps do in between,
\* take no report off the list.
THEOREM Tells == Spec => []ToldOrDue
  <1>1. Init => Listed
    BY InitListed
  <1>2. Init => Merging /\ Telling
    <2> SUFFICES ASSUME Init PROVE Merging /\ Telling
      OBVIOUS
    <2>1. job.at = "load" /\ owed = {} /\ \A p \in PRs : pull[p].known = "none"
      BY JobShapes DEF Init, NoPull
    <2> QED
      BY <2>1 DEF Merging, Telling, Held
  <1>3. TypeOK /\ Listed /\ [Next]_vars => Listed'
    BY StepListed
  <1>4. TypeOK /\ Listed /\ Merging /\ [Next]_vars => Merging'
    BY MergingStep
  <1>5. TypeOK /\ Listed /\ Merging /\ Telling /\ [Next]_vars => Telling'
    BY TellingStep
  <1>6. TypeOK /\ Telling => ToldOrDue
    <2> SUFFICES ASSUME TypeOK, Telling, NEW r \in owed \ touched
                 PROVE  Told(r) \/ r \in Due \/ InPass(r)
      BY DEF ToldOrDue, Told
    <2>1. r \in Reports /\ Held(r)
      BY DEF TypeOK, Held
    <2> QED
      BY <2>1 DEF Telling, InPass, Sending
  <1> QED
    BY Typing, <1>1, <1>2, <1>3, <1>4, <1>5, <1>6, PTL DEF Spec
===============================================================================
