------------------------------- MODULE BugReports -------------------------------
(***************************************************************************)
(* The life of a bug report in the monitor (monitor-fsm): the rows of      *)
(* discourse_bug, pr and discourse_draft, everything that writes them, and *)
(* what is said to the reporter.  The reports are the posts of one forum   *)
(* topic, numbered in the order they were made; rules that look across     *)
(* topics appear as a choice of triage.                                    *)
(*                                                                         *)
(* One monitor runs one lap after another.  A lap reads what is new        *)
(* (LOAD_STATE, at "load"), fetches posts, and then goes round the router, *)
(* the fix step and the verify step (at "work").  Its actions await GitHub *)
(* and the forum, and meanwhile people merge and close pull requests and   *)
(* press buttons on the dashboard, which writes the same database.         *)
(***************************************************************************)
EXTENDS Integers, FiniteSetsExt

CONSTANTS
    Reports,     \* the posts of the topic
    ReporterOf,  \* who made each
    Classes,     \* what triage may make of a post
    PRs, None,
    Tooling,     \* pull requests that change nothing a reporter could retest
    MasterFixes, \* reports a live commit on master names
    Clicks,      \* states a person may set on the dashboard
    Faults,      \* what may go wrong (a subset of FaultKinds)
    MaxFaults, MaxClicks, MaxWeeks,
    ESCALATION_THRESHOLD, MAX_UNREACHABLE_REOPENS

FaultKinds == {"crash", "refused", "lost", "fetch"}
States == {"none", "open", "investigating", "fix-queued", "fixed", "confirmed", "off-topic",
           "duplicate", "deferred", "needs-detail", "no-reply", "question", "feature-request"}

\* type: a "retest" may say that it works now ("thanks").  words: does the post name anything
\* that can be looked up, or is it vague, or has triage left its words out?  like: the symptoms
\* it shares with the topic's other reports, or with a report elsewhere.
ClassSet == [type : {"bug", "retest", "thanks", "confirmed", "question", "deferred",
                     "feature_request", "mine", "other"},
             words : {"anchors", "plain", "vague", "none"},
             like : {"untagged", "apart", "some", "same", "elsewhere"}]

ASSUME ReportAssumption ==
    /\ Reports \subseteq Nat /\ IsFiniteSet(Reports)
    /\ Classes \subseteq ClassSet
    /\ None \notin PRs /\ None \notin ClassSet /\ None \notin Reports
    /\ Clicks \subseteq States \ {"none"} /\ Faults \subseteq FaultKinds
    /\ {MaxFaults, MaxClicks, MaxWeeks, ESCALATION_THRESHOLD, MAX_UNREACHABLE_REOPENS} \subseteq Nat

VARIABLES
    bug,     \* discourse_bug, with the reminder kept in kv
    pull,    \* GitHub, and what the pr table knows of it
    row,     \* discourse_draft, per report
    class,   \* what triage made of each post (None: not fetched yet); a lap later, its words alone
    lap,     \* context.classifications: the posts this lap fetched
    done,    \* context.bugsFixed: how this lap's fix tasks ended
    job,     \* what the monitor is in the middle of
    said,    \* replies on the forum under each report, reminders apart
    excused, \* replies the monitor could not know of, or a person sent
    tries,   \* pull requests accepted for the report
    touched, \* reports somebody changed on the dashboard
    replied, \* reports whose reporter has answered since their last reminder
    owed,    \* reports whose own last look at their pull request found it live
    faults, clicks, weeks

database == <<bug, pull, row>>
context == <<class, lap, done>>
ghosts == <<tries, touched, replied, owed>>
counts == <<faults, clicks, weeks>>
vars == <<database, context, job, said, excused, ghosts, counts>>

Outcomes == {"none", "pr", "detail", "unreach", "other", "retry"}
Loops == {"load", "work", "closing", "scanning", "direct", "deployed", "flush", "chase",
          "triage", "route", "fix", "opened", "refuse", "ask", "answer"}
Deferrals == {"other", "detail", "unreach"}

BugRecords == [state : States, pr : PRs \union {None}, rejections : Nat, why : Deferrals,
               back : Nat, age : {"fresh", "quiet", "stale"},
               chased : {"no", "sent", "late", "cannot"}, since : BOOLEAN]
PullRecords == [gh : {"none", "open", "merged", "live", "closed", "wontfix"},
                known : {"none", "OPEN", "MERGED", "CLOSED"},
                deploy : {"null", "pending_deploy", "deployed"}]
\* own: what has been posted is the draft that was queued, and nothing else.
RowRecords == [posted : BOOLEAN, own : BOOLEAN, pending : BOOLEAN, rejected : 0..2]
JobRecords == [at : Loops, send : {"no", "sent", "stored"}, todo : SUBSET Reports,
               of : [Reports -> PRs \union {None}], kept : SUBSET Reports, failed : SUBSET PRs,
               r : Reports \union {None}, p : PRs \union {None}]

NoBug == [state |-> "none", pr |-> None, rejections |-> 0, why |-> "other", back |-> 0,
          age |-> "fresh", chased |-> "no", since |-> FALSE]
NoPull == [gh |-> "none", known |-> "none", deploy |-> "null"]
At(l) == [at |-> l, send |-> "no", todo |-> {}, of |-> [r \in Reports |-> None], kept |-> {},
          failed |-> {}, r |-> None, p |-> None]

TypeOK ==
    /\ bug \in [Reports -> BugRecords] /\ pull \in [PRs -> PullRecords]
    /\ row \in [Reports -> RowRecords]
    /\ class \in [Reports -> ClassSet \union {None}] /\ lap \subseteq Reports
    /\ \A r \in lap : class[r] # None
    /\ done \in [Reports -> Outcomes]
    /\ job \in JobRecords
    /\ job.at \in {"fix", "opened", "refuse", "ask", "answer"} => job.r # None
    /\ job.at \in {"opened", "refuse", "closing"} => job.p # None
    /\ job.send # "no" => job.r # None
    /\ said \in [Reports -> Nat] /\ excused \in [Reports -> Nat] /\ tries \in [Reports -> Nat]
    /\ touched \subseteq Reports /\ replied \subseteq Reports /\ owed \subseteq Reports
    /\ faults \in 0..MaxFaults /\ clicks \in 0..MaxClicks /\ weeks \in 0..MaxWeeks

Init ==
    /\ bug = [r \in Reports |-> NoBug] /\ pull = [p \in PRs |-> NoPull]
    /\ row = [r \in Reports |-> [posted |-> FALSE, own |-> FALSE, pending |-> FALSE, rejected |-> 0]]
    /\ class = [r \in Reports |-> None] /\ lap = {}
    /\ done = [r \in Reports |-> "none"] /\ job = At("load")
    /\ said = [r \in Reports |-> 0] /\ excused = [r \in Reports |-> 0]
    /\ tries = [r \in Reports |-> 0]
    /\ touched = {} /\ replied = {} /\ owed = {}
    /\ faults = 0 /\ clicks = 0 /\ weeks = 0

-------------------------------------------------------------------------------
(* The database *)

In(S) == {r \in Reports : bug[r].state \in S}
Active == {"open", "investigating", "fix-queued"}
Settled == {"fixed", "confirmed"}
\* WAITING_ON_REPORTER
Waiting == In({"needs-detail"}) \union {r \in In({"deferred"}) : bug[r].why = "detail"}
Handled == {r \in Reports : done[r] # "none"}
Backlog == {r \in In({"open"}) : bug[r].pr = None} \ Handled

\* last_seen_at = now: no longer quiet, and later than any reminder.
Seen(b) == [b EXCEPT !.age = "fresh", !.since = b.chased \in {"sent", "late"}]
\* upsertDiscourseBug keeps a pull request that is not given, and a reason likewise.
Upserted(b, s, p) == Seen([b EXCEPT !.state = s, !.pr = IF p = None THEN @ ELSE p])
Because(b, s, why) == [Upserted(b, s, None) EXCEPT !.why = why]
\* Mutant: the rejection is not counted.
Reopened_Uncounted(b) == Seen([b EXCEPT !.state = "open", !.pr = None, !.why = "other"])
Reopened(b) == Seen([b EXCEPT !.state = "open", !.pr = None, !.why = "other", !.rejections = @ + 1])
Confirmed(b) == Seen([b EXCEPT !.state = "confirmed", !.why = "other"])
Fixed(b) == Seen([b EXCEPT !.state = "fixed"])

Cancelled(w) == IF w.pending THEN [w EXCEPT !.pending = FALSE, !.rejected = IF @ < 2 THEN @ + 1 ELSE @]
                ELSE w
Posted(w) == [w EXCEPT !.posted = TRUE, !.own = @ \/ ~w.posted, !.pending = FALSE]
HasLive(r) == row[r].posted \/ row[r].pending
\* Mutant: only the drafts that wait or were turned down are looked for.
HasAny_Unsent(r) == row[r].pending \/ row[r].rejected > 0
HasAny(r) == HasLive(r) \/ row[r].rejected > 0

\* reconcileBugStates: a report whose pull request has merged is fixed, deployed or not.
Rendered ==
    [r \in Reports |->
        IF bug[r].state = "fix-queued" /\ \E p \in PRs : bug[r].pr = p /\ pull[p].known = "MERGED"
        THEN Fixed(bug[r]) ELSE bug[r]]

Fault(f) == f \in Faults /\ faults < MaxFaults /\ faults' = faults + 1

-------------------------------------------------------------------------------
(* People, and time *)

\* Reviewers merge or close pull requests, and what is merged is deployed in time.
GitHub ==
    \E p \in PRs :
       /\ \/ pull[p].gh = "open" /\ \E g \in {"merged", "closed", "wontfix"} :
                                       pull' = [pull EXCEPT ![p].gh = g]
          \/ pull[p].gh = "merged" /\ pull' = [pull EXCEPT ![p].gh = "live"]
       /\ UNCHANGED <<bug, row, context, job, said, excused, ghosts, counts>>

\* A week goes by; a report that has been quiet that long may by now be past chasing.
Week ==
    /\ weeks < MaxWeeks /\ weeks' = weeks + 1
    /\ \E stale \in SUBSET {r \in Reports : bug[r].age = "quiet"} :
          bug' = [r \in Reports |->
                    IF bug[r].state = "none" THEN bug[r] ELSE
                    [bug[r] EXCEPT !.age = IF @ = "stale" \/ r \in stale THEN "stale" ELSE "quiet",
                                   !.chased = IF @ = "sent" THEN "late" ELSE @]]
    /\ UNCHANGED <<pull, row, context, job, said, excused, ghosts, faults, clicks>>

Pressed(r) == clicks < MaxClicks /\ clicks' = clicks + 1 /\ bug[r].state # "none" /\ touched' = touched \union {r}

\* The buttons of the dashboard: reset-attempts, state and link-pr.
Dashboard(r) ==
    /\ Pressed(r)
    /\ \/ bug' = [bug EXCEPT ![r].state = "open", ![r].why = "other"]
       \/ \E s \in Clicks : bug' = [bug EXCEPT ![r] = Upserted(bug[r], s, None)]
       \/ \E p \in PRs : /\ pull[p].gh # "none"
                         /\ bug' = [bug EXCEPT ![r] = [Because(bug[r], "fix-queued", "other")
                                                          EXCEPT !.pr = p, !.rejections = 0]]
    /\ UNCHANGED <<pull, row, context, job, said, excused, tries, replied, owed, faults, weeks>>

\* The dashboard puts the status on the forum every half hour, and renders it to do so.
Status ==
    /\ bug' = Rendered
    /\ UNCHANGED <<pull, row, context, job, said, excused, ghosts, counts>>

\* A person sends, or rejects, a reply that is waiting.  The send asks nobody else's leave.
DashboardDraft(r) ==
    /\ Pressed(r) /\ row[r].pending
    /\ \/ row' = [row EXCEPT ![r] = Cancelled(@)] /\ UNCHANGED <<said, excused>>
       \/ /\ row' = [row EXCEPT ![r] = Posted(@)]
          /\ said' = [said EXCEPT ![r] = @ + 1] /\ excused' = [excused EXCEPT ![r] = @ + 1]
    /\ UNCHANGED <<bug, pull, context, job, tries, replied, owed, faults, weeks>>

-------------------------------------------------------------------------------
(* Posting on the forum *)

\* postDiscourseReply for report r is called, with the monitor's loop to go on with after it.
Post(l, r) == job' = [l EXCEPT !.send = "sent", !.r = r]

\* The forum takes the reply.  Only a reminder is not a reply of its own.
Store ==
    /\ job.send = "sent" /\ job' = [job EXCEPT !.send = "stored"]
    /\ said' = IF job.at = "chase" THEN said ELSE [said EXCEPT ![job.r] = @ + 1]
    /\ UNCHANGED <<database, context, excused, ghosts, counts>>

\* What the call returns.  It says no when the forum refused, or when the answer was lost
\* after the reply had been stored.
Answer(ok) ==
    \/ ok /\ job.send = "stored" /\ UNCHANGED <<excused, faults>>
    \/ ~ok /\ job.send = "sent" /\ Fault("refused") /\ UNCHANGED excused
    \/ ~ok /\ job.send = "stored" /\ Fault("lost")
       /\ excused' = IF job.at = "chase" THEN excused ELSE [excused EXCEPT ![job.r] = @ + 1]

\* Mutant: the loop goes on with the call still open.
Back_Open == [job EXCEPT !.r = None]
\* The call has returned, and its loop goes on.
Back == [job EXCEPT !.send = "no", !.r = None]
Running(l) == job.at = l /\ job.send = "no"
Begin(l, S) == Running("load") /\ job' = [At(l) EXCEPT !.todo = S]
Without(j, S) == [j EXCEPT !.todo = @ \ S]
Record(r, ok) == row' = IF ok THEN [row EXCEPT ![r].posted = TRUE, ![r].own = FALSE] ELSE row

-------------------------------------------------------------------------------
(* LOAD_STATE *)

Frame == UNCHANGED <<class, lap, done, tries, touched, owed, clicks, weeks>>

ToSync == {p \in PRs : pull[p].known = "OPEN" \/ \E r \in In(Active) : bug[r].pr = p}
\* The reports a closed pull request sends back.
Dropped(p) == {r \in Reports : /\ bug[r].pr = p
                               /\ bug[r].state \notin Settled \union {"deferred", "off-topic", "duplicate"}}

Known(p) == IF pull[p].gh \in {"merged", "live"} THEN "MERGED"
            ELSE IF pull[p].gh = "open" THEN "OPEN" ELSE "CLOSED"

\* sync_pr_states, one pull request: the pr row, and the reports a closed one sends back are
\* looked up; the comments of the pull request are fetched before they are written.
SyncPr(p) ==
    /\ Running("load") /\ p \in ToSync
    /\ pull' = [pull EXCEPT ![p].known = Known(p),
                            ![p].deploy = IF Known(p) = "MERGED" /\ @ = "null" THEN "pending_deploy" ELSE @]
    /\ job' = IF Known(p) = "CLOSED" /\ Dropped(p) # {}
              THEN [At("closing") EXCEPT !.p = p, !.todo = Dropped(p)] ELSE job
    /\ UNCHANGED <<bug, row, said, excused, replied, faults>> /\ Frame

\* Closed as not a bug: parked for good.  Closed otherwise: reopened, and the rejection counted.
SyncClosed ==
    /\ Running("closing")
    /\ \E wontfix \in BOOLEAN :
          /\ wontfix => pull[job.p].gh = "wontfix"
          /\ bug' = [r \in Reports |->
                        IF r \notin job.todo THEN bug[r]
                        ELSE IF wontfix THEN [Because(bug[r], "deferred", "other") EXCEPT !.pr = None]
                        ELSE Reopened(bug[r])]
    /\ job' = At("load")
    /\ UNCHANGED <<pull, row, said, excused, replied, faults>> /\ Frame

\* check_bug_feedback: the reports are listed, and the scan of what was posted since is awaited.
StartScan ==
    /\ Running("load")
    /\ job' = [At("scanning") EXCEPT !.todo = In({"open", "investigating", "deferred", "needs-detail"}),
                                     !.kept = In({"open", "investigating"})]
    /\ UNCHANGED <<database, said, excused, replied, faults>> /\ Frame

\* Somebody says it works; Edward says it is expected, or that he is on it.  Only what Edward
\* says is held against the state the report is in by now.  (One report a scan: what a scan
\* finds out about several is found out by as many scans.)
EndScan ==
    /\ Running("scanning") /\ job' = At("load")
    /\ \/ UNCHANGED <<bug, row>>
       \/ \E r \in job.kept : bug' = [bug EXCEPT ![r].state = "fixed", ![r].why = "other"] /\ UNCHANGED row
       \/ \E r \in job.todo :
             /\ bug[r].state \notin Settled \union {"fix-queued"}
             /\ \/ /\ bug' = [bug EXCEPT ![r].state = "off-topic", ![r].why = "other"]
                   /\ row' = [row EXCEPT ![r] = Cancelled(@)]
                \/ /\ bug[r].state # "investigating" /\ UNCHANGED row
                   /\ bug' = [bug EXCEPT ![r].state = "investigating", ![r].why = "other"]
    /\ UNCHANGED <<pull, said, excused, replied, faults>> /\ Frame

\* queue_deployed_reply_drafts: the reports whose pull request has merged, and is not yet known
\* to be deployed, are listed with it.
Due ==
    {r \in In({"fix-queued", "fixed"}) :
       \E p \in PRs : /\ bug[r].pr = p /\ pull[p].known = "MERGED"
                      /\ pull[p].deploy \in {"null", "pending_deploy"}}

StartDeployed ==
    /\ Running("load") /\ Due # {}
    /\ job' = [At("deployed") EXCEPT !.todo = Due,
                                     !.of = [r \in Reports |-> IF r \in Due THEN bug[r].pr ELSE None]]
    /\ UNCHANGED <<database, said, excused, replied, faults>> /\ Frame

\* One of them: the pull request is live, and is marked so before the reply is posted; or it is
\* not live yet, or that could not be found out.  A report with a draft of any kind gets no reply,
\* and neither does a fix nobody could retest.
Deployed(r) ==
    /\ Running("deployed") /\ r \in job.todo /\ \A q \in job.todo : r <= q
    /\ \E p \in PRs :
          /\ p = job.of[r]
          /\ \/ /\ pull[p].gh = "live" /\ pull' = [pull EXCEPT ![p].deploy = "deployed"]
                /\ IF HasAny(r) \/ p \in Tooling THEN job' = Without(job, {r})
                   ELSE Post(Without(job, {r}), r)
                /\ owed' = owed \union {r}
             \/ job' = Without(job, {r}) /\ UNCHANGED pull /\ owed' = owed \ {r}
    /\ UNCHANGED <<bug, row, context, said, excused, tries, touched, replied, counts>>

AnsweredDeployed(ok) ==
    /\ job.at = "deployed" /\ Answer(ok) /\ Record(job.r, ok)
    /\ job' = [Back EXCEPT !.failed = IF ok THEN @ ELSE @ \union {p \in PRs : p = job.of[job.r]}]
    /\ UNCHANGED <<bug, pull, said, replied>> /\ Frame

\* Mutant: a failed post does not arm the pull request again.
EndDeployed_NoRetry ==
    /\ Running("deployed") /\ job.todo = {} /\ job' = At("load")
    /\ UNCHANGED <<database, said, excused, replied, faults>> /\ Frame
\* After the loop, what could not be posted is armed again.
EndDeployed ==
    /\ Running("deployed") /\ job.todo = {} /\ job' = At("load")
    /\ pull' = [p \in PRs |-> IF p \in job.failed THEN [pull[p] EXCEPT !.deploy = "pending_deploy"] ELSE pull[p]]
    /\ UNCHANGED <<bug, row, said, excused, replied, faults>> /\ Frame

\* flushUnpostedDrafts: the drafts that have not gone out are listed, and sent one at a time.
\* sendDraft turns down a draft whose report has had another reply, and stamps one that it sent;
\* that the draft itself has been sent or rejected since it was listed, it does not look at.
StartFlush ==
    /\ Begin("flush", {r \in Reports : row[r].pending}) /\ job'.todo # {}
    /\ UNCHANGED <<database, said, excused, replied, faults>> /\ Frame

SendDraft(j, r) ==
    \/ row[r].posted /\ ~row[r].own /\ row' = [row EXCEPT ![r] = Cancelled(@)] /\ job' = j
    \/ (row[r].posted => row[r].own) /\ Post(j, r) /\ UNCHANGED row

Flush(r) ==
    /\ Running("flush") /\ r \in job.todo /\ \A q \in job.todo : r <= q
    /\ SendDraft(Without(job, {r}), r)
    /\ UNCHANGED <<bug, pull, said, excused, replied, faults>> /\ Frame

AnsweredDraft(ok) ==
    /\ job.at \in {"flush", "answer"} /\ Answer(ok)
    /\ row' = IF ok THEN [row EXCEPT ![job.r] = Posted(@)] ELSE row
    /\ job' = IF job.at = "flush" THEN Back ELSE At("work")
    /\ UNCHANGED <<bug, pull, said, replied>> /\ Frame

EndFlush ==
    /\ Running("flush") /\ job.todo = {} /\ job' = At("load")
    /\ UNCHANGED <<database, said, excused, replied, faults>> /\ Frame

\* chase_waiting_reports: the waiting reports that have been quiet for a week.
StartChase ==
    /\ Begin("chase", {r \in Waiting : bug[r].age = "quiet" /\ bug[r].chased = "no"})
    /\ UNCHANGED <<database, said, excused, replied, faults>> /\ Frame

Siblings(r) == {q \in job.todo : ReporterOf[q] = ReporterOf[r]}

\* The first of each reporter's is reminded, if the post can be fetched to be quoted.
Chase(r) ==
    /\ Running("chase") /\ r \in job.todo /\ \A q \in Siblings(r) : r <= q
    /\ \/ Post(job, r) /\ UNCHANGED <<bug, faults>>
       \/ /\ Fault("fetch") /\ job' = Without(job, Siblings(r))
          /\ bug' = [bug EXCEPT ![r].chased = "cannot"]
    /\ UNCHANGED <<pull, row, said, excused, replied>> /\ Frame

\* The reminder covers all the reporter's waiting reports.
AnsweredChase(ok) ==
    /\ job.at = "chase" /\ Answer(ok) /\ Record(job.r, ok)
    /\ LET covered == IF ok THEN Siblings(job.r) ELSE {} IN
          /\ bug' = [r \in Reports |-> IF r \in covered
                                       THEN [bug[r] EXCEPT !.chased = "sent", !.since = FALSE] ELSE bug[r]]
          /\ replied' = {q \in replied : \A r \in covered : ReporterOf[q] # ReporterOf[r]}
    /\ job' = Without(Back, Siblings(job.r))
    /\ UNCHANGED <<pull, said>> /\ Frame

\* dueForNoReply and closeNoReply: a week since the reminder, and nothing seen of the report.
EndChase ==
    /\ Running("chase") /\ job.todo = {} /\ job' = At("load")
    /\ bug' = [r \in Reports |-> IF r \in Waiting /\ bug[r].chased = "late" /\ ~bug[r].since
                                 THEN [bug[r] EXCEPT !.state = "no-reply", !.why = "other"] ELSE bug[r]]
    /\ UNCHANGED <<pull, row, said, excused, replied, faults>> /\ Frame

\* reconcile_direct_master_fixes: the reports without a pull request that a commit on master names.
StartDirect ==
    /\ Begin("direct", {r \in In({"open", "deferred", "investigating"}) \intersect MasterFixes : bug[r].pr = None})
    /\ job'.todo # {}
    /\ UNCHANGED <<database, said, excused, replied, faults>> /\ Frame

MarkFixed(r) == bug' = [bug EXCEPT ![r].state = "fixed", ![r].why = "other"]

\* The commit may not be live; there may be nothing to retest or to quote.  A report is marked
\* fixed once it is settled what to reply.
Direct(r) ==
    /\ Running("direct") /\ r \in job.todo /\ \A q \in job.todo : r <= q
    /\ \/ job' = Without(job, {r}) /\ UNCHANGED bug
       \/ job' = Without(job, {r}) /\ MarkFixed(r)
       \/ ~HasAny(r) /\ Post(Without(job, {r}), r) /\ UNCHANGED bug
    /\ UNCHANGED <<pull, row, said, excused, replied, faults>> /\ Frame

AnsweredDirect(ok) ==
    /\ job.at = "direct" /\ Answer(ok) /\ Record(job.r, ok) /\ job' = Back
    /\ IF ok THEN MarkFixed(job.r) ELSE UNCHANGED bug
    /\ UNCHANGED <<pull, said, replied>> /\ Frame

EndDirect ==
    /\ Running("direct") /\ job.todo = {} /\ job' = At("load")
    /\ UNCHANGED <<database, said, excused, replied, faults>> /\ Frame

-------------------------------------------------------------------------------
(* Triage *)

Work == UNCHANGED <<pull, said, touched, owed, clicks, weeks, class>>

\* discover_active_topics finds posts behind the cursor, and the topic's task of workflow.json
\* reads them in order and moves the cursor, before anything is done with them; what triage makes
\* of them stays in the lap's context.
Fetch ==
    /\ Running("load") /\ job' = At("work")
    /\ \E new \in SUBSET {r \in Reports : class[r] = None} :
          /\ \A r \in new, q \in Reports : q < r => class[q] # None \/ q \in new
          /\ \E c \in [new -> Classes] : class' = [r \in Reports |-> IF r \in new THEN c[r] ELSE class[r]]
          /\ lap' = new
    /\ UNCHANGED <<database, done, said, excused, ghosts, counts>>

\* The lap's classifications are persisted when they are collated, and again each time the
\* router is entered.
StartRouter ==
    /\ Running("work") /\ job' = [At("triage") EXCEPT !.todo = lap]
    /\ UNCHANGED <<database, lap, done, excused, tries, replied, faults>> /\ Work

Says(r, types) == class[r].type \in types
Earlier(r, S) == {q \in S : q < r /\ ReporterOf[q] = ReporterOf[r]}
\* The report a reporter says works now, and the one a reporter has added to.
Works(r) == Earlier(r, In({"open", "investigating", "deferred", "needs-detail"}))
Asked(r) == Earlier(r, Waiting \union In({"no-reply"}))
Adds(r) == Says(r, {"bug", "retest", "thanks", "deferred", "question"}) /\ Asked(r) # {}
\* The first report of the topic that is held for detail.
HeldFirst(S) == {q \in S : \A q2 \in S : q <= q2}
Linkable(r) == {q \in In(Active) \ {r} : bug[q].pr # None /\ class[r].like \in {"some", "same"}}
Twins(r) == {q \in In(Active) \ {r} : class[r].like = "same"}

\* noteReporterReply, of a report that stays held: the reminder is forgotten.
Heard(b) == [Seen(b) EXCEPT !.chased = IF @ = "cannot" THEN @ ELSE "no", !.since = FALSE]
\* Mutant: the reply is not noted.
Noted_Dropped(r) == bug
Noted(r) ==
    IF Adds(r) THEN [bug EXCEPT ![Max(Asked(r))] = Heard(@)] ELSE bug

\* Mutant: a confirmed report is not among those a later pass leaves alone.
Further_Unconfirmed(r) == bug[r].state \in {"fixed", "fix-queued", "investigating"}
\* The report has got further than triage.
Further(r) == bug[r].state \in Settled \union {"fix-queued", "investigating"}

\* Where the handling of a post ends: the early exits of persist_classifications, in their order.
Verdict(r) ==
    IF Says(r, {"confirmed", "thanks"}) /\ Works(r) # {} THEN "works"
    ELSE IF Adds(r) /\ bug[Max(Asked(r))].state # "needs-detail" THEN "reopen"
    ELSE IF Says(r, {"confirmed", "mine", "other"}) THEN "skip"
    ELSE IF Says(r, {"feature_request"})
         THEN IF bug[r].state = "feature-request" THEN "skip" ELSE "feature"
    ELSE IF Further(r) THEN "skip"
    ELSE IF /\ Says(r, {"bug", "retest", "thanks"}) /\ class[r].words = "anchors"
            /\ \E q \in HeldFirst(In({"needs-detail"})) : ReporterOf[q] = ReporterOf[r]
         THEN "release"
    ELSE IF Says(r, {"retest", "thanks"}) /\ In({"open", "investigating"}) \ {r} # {} THEN "again"
    ELSE IF Says(r, {"thanks"}) /\ In({"fixed"}) # {} THEN "skip"
    ELSE IF Linkable(r) # {} THEN "link"
    ELSE IF Twins(r) # {} \/ class[r].like = "elsewhere" THEN "duplicate"
    ELSE IF Says(r, {"deferred"}) THEN "deferred"
    ELSE IF Says(r, {"question"}) THEN "question"
    ELSE IF class[r].like # "apart" /\ \E q \in In({"fixed"}) : bug[q].pr # None THEN "regression"
    ELSE IF class[r].words = "none" THEN "unjudged"
    ELSE IF class[r].words = "vague" THEN "vague"
    ELSE "open"

\* Mutant: whether the report has had a reply is not looked up.
Ask_Again(j, r) == Post(j, r)
\* askReporterOnDiscourse, unless the report has had a reply already; what follows is up to
\* whoever asked.
Ask(j, r) == ~row[r].posted /\ Post(j, r)
Hold(b) == Because(b, "needs-detail", "other")

\* What a verdict makes of the reports, given that b is how noteReporterReply leaves them.
Filed(r, v, b) ==
    CASE v = "works"     -> [bug EXCEPT ![Max(Works(r))] = Confirmed(@)]
      [] v = "reopen"    -> [b EXCEPT ![Max(Asked(r))] = [@ EXCEPT !.state = "open", !.why = "other"]]
      [] v = "skip"      -> b
      [] v = "feature"   -> [b EXCEPT ![r] = Upserted(@, "feature-request", None)]
      [] v = "release"   -> [q \in Reports |-> IF q \in HeldFirst(In({"needs-detail"}))
                                               THEN Seen([b[q] EXCEPT !.state = "open", !.why = "other"])
                                               ELSE b[q]]
      [] v = "again"     -> [b EXCEPT ![Min(In({"open", "investigating"}) \ {r})] = Seen(@)]
      [] v = "link"      -> [b EXCEPT ![r] = Upserted(@, "fix-queued", bug[Min(Linkable(r))].pr)]
      [] v = "duplicate" -> [b EXCEPT ![r] = Upserted([@ EXCEPT !.why = "other"], "duplicate",
                                 IF Twins(r) = {} THEN None ELSE bug[Min(Twins(r))].pr)]
      [] v \in {"deferred", "regression"} -> [b EXCEPT ![r] = Because(@, "deferred", "other")]
      [] v = "question"  -> [b EXCEPT ![r] = Upserted(@, "question", None)]
      [] v \in {"unjudged", "vague"} -> [b EXCEPT ![r] = Hold(@)]
      [] v = "open"      -> [b EXCEPT ![r] = Upserted(@, "open", None)]

\* One post, down to its end, or to the question a vague report is held with.
Triage(r) ==
    /\ Running("triage") /\ r \in job.todo /\ \A q \in job.todo : r <= q
    /\ replied' = IF Verdict(r) # "works" /\ Adds(r) THEN replied \union {Max(Asked(r))} ELSE replied
    /\ row' = IF Verdict(r) = "duplicate" THEN [row EXCEPT ![r] = Cancelled(@)] ELSE row
    /\ \/ Verdict(r) = "vague" /\ Ask(Without(job, {r}), r) /\ bug' = Noted(r)
       \/ /\ Verdict(r) = "vague" => row[r].posted
          /\ bug' = Filed(r, Verdict(r), Noted(r)) /\ job' = Without(job, {r})
    /\ UNCHANGED <<lap, done, excused, tries, faults>> /\ Work

\* Asked or not, the report is held.
AnsweredTriage(ok) ==
    /\ job.at = "triage" /\ Answer(ok) /\ Record(job.r, ok) /\ job' = Back
    /\ bug' = [bug EXCEPT ![job.r] = Hold(@)]
    /\ UNCHANGED <<lap, done, tries, replied>> /\ Work

\* persist_question_answers, for a question without a reply that has not twice been turned down:
\* it is left for a person, or answered.
AnswerQuestion(r) ==
    /\ Running("work") /\ bug[r].state = "question" /\ ~HasLive(r) /\ row[r].rejected < 2
    /\ \/ bug' = [bug EXCEPT ![r] = Because(@, "deferred", "other")] /\ UNCHANGED <<job, row>>
       \/ /\ row' = [row EXCEPT ![r].pending = TRUE] /\ Post(At("answer"), r) /\ UNCHANGED bug
    /\ UNCHANGED <<lap, done, excused, tries, replied, faults>> /\ Work

-------------------------------------------------------------------------------
(* The router and the fix batch *)

\* The lap's own reports are offered on what triage called them, whatever state they are in.
Fresh == {r \in lap : Says(r, {"bug", "retest", "thanks"})} \ Handled
Offered == Fresh \union {r \in Backlog \ lap : bug[r].rejections < ESCALATION_THRESHOLD}

\* The topic is left alone: it has a pull request, Edward posted in it this lap, it waits for
\* a reporter, or this lap's batch has dealt with it.
LeftAlone ==
    \/ \E r \in In(Active) : bug[r].pr # None
    \/ \E r \in lap : Says(r, {"mine"})
    \/ In({"needs-detail"}) # {} \/ Handled # {}

\* What fix tasks and the live database say goes into the reports before the queue is read:
\* deferrals are written down, unreadable ones come back, and hopeless ones go to a person.
Deferred(r) ==
    IF bug[r].state = "open" /\ done[r] \in {"detail", "unreach", "other"}
    THEN Because(bug[r], "deferred", done[r])
    ELSE bug[r]
CameBack(b) == [b EXCEPT !.state = "open", !.why = "other", !.back = @ + 1]
Unreadable(r) == /\ Deferred(r).state = "deferred" /\ bug[r].pr = None /\ bug[r].why = "unreach"
                 /\ r \notin Handled /\ bug[r].back < MAX_UNREACHABLE_REOPENS
Escalated(b) == IF b.state = "open" /\ b.pr = None /\ b.rejections >= ESCALATION_THRESHOLD
                THEN Because(b, "deferred", "other") ELSE b

\* work_router_decide, up to the queue: the reports that are offered, unless the topic is left
\* alone, or they look covered by a recent merge, or the hour is wrong.
Decide ==
    /\ Running("triage") /\ job.todo = {}
    /\ \E live \in BOOLEAN :
          bug' = [r \in Reports |->
                    LET b == IF live /\ Unreadable(r) THEN CameBack(bug[r]) ELSE Deferred(r) IN
                    IF r \in Handled THEN b ELSE Escalated(b)]
    /\ UNCHANGED <<row, lap, done, excused, tries, replied, faults>> /\ Work
    /\ \/ job' = At("work")
       \/ /\ ~LeftAlone' /\ Offered' # {}
          /\ job' = [At("route") EXCEPT !.todo = Offered' \ lap, !.kept = Offered' \intersect lap]

\* One report of the backlog is judged again on its own words, if they can be fetched, and held
\* if they are vague, asked or not; the lap's reports are not looked at again.
Recheck(r) ==
    /\ Running("route") /\ r \in job.todo /\ \A q \in job.todo : r <= q
    /\ \/ /\ class[r] # None => class[r].words # "vague"
          /\ job' = [Without(job, {r}) EXCEPT !.kept = @ \union {r}] /\ UNCHANGED <<bug, faults>>
       \/ /\ Fault("fetch") /\ UNCHANGED bug
          /\ job' = [Without(job, {r}) EXCEPT !.kept = @ \union {r}]
       \/ /\ class[r] # None => class[r].words \in {"vague", "none"}
          /\ UNCHANGED faults
          /\ \/ Ask(Without(job, {r}), r) /\ UNCHANGED bug
             \/ row[r].posted /\ bug' = [bug EXCEPT ![r] = Hold(@)] /\ job' = Without(job, {r})
    /\ UNCHANGED <<row, lap, done, excused, tries, replied>> /\ Work

AnsweredRecheck(ok) ==
    /\ job.at = "route" /\ Answer(ok) /\ Record(job.r, ok) /\ job' = Back
    /\ bug' = [bug EXCEPT ![job.r] = Hold(@)]
    /\ UNCHANGED <<lap, done, tries, replied>> /\ Work

\* One report of a topic goes into a batch, the oldest of the backlog before the lap's.
Dispatch ==
    /\ Running("route") /\ job.todo = {}
    /\ LET old == job.kept \ lap IN
       job' = IF job.kept = {} THEN At("work")
              ELSE [At("fix") EXCEPT !.r = IF old # {} THEN Min(old) ELSE Min(job.kept)]
    /\ UNCHANGED <<database, lap, done, excused, tries, replied, faults>> /\ Work

\* How the fix task ends, as VERIFY_DISCOURSE_BATCH writes it down: deferred for some reason,
\* to be tried again, short of detail, or with a pull request on GitHub.
TaskDeferred ==
    /\ Running("fix") /\ job' = At("work")
    /\ \E o \in {"other", "unreach", "retry"} : done' = [done EXCEPT ![job.r] = o]
    /\ UNCHANGED <<database, lap, excused, tries, replied, faults>> /\ Work

\* The monitor loses its patience with a diagnosis (driver.ts): the report is deferred at once.
LoopBreaker ==
    /\ Running("fix") /\ job' = At("work")
    /\ done' = [done EXCEPT ![job.r] = "other"]
    /\ bug' = IF bug[job.r].state = "open"
              THEN [bug EXCEPT ![job.r].state = "deferred", ![job.r].why = "other"] ELSE bug
    /\ UNCHANGED <<row, lap, excused, tries, replied, faults>> /\ Work

\* ask_reporter_for_detail: not of a report that is settled, and not when the question reads badly
\* or there is nothing to quote; the report is held if it was asked.
TaskAsks ==
    /\ Running("fix")
    /\ LET r == job.r
           no == bug[r].state \in Settled \union {"none", "off-topic", "duplicate"} IN
       \/ done' = [done EXCEPT ![r] = "detail"] /\ ~no /\ Ask(At("ask"), r) /\ UNCHANGED bug
       \/ /\ done' = [done EXCEPT ![r] = "detail"] /\ job' = At("work")
          /\ bug' = IF ~no /\ row[r].posted THEN [bug EXCEPT ![r] = Hold(@)] ELSE bug
    /\ UNCHANGED <<row, lap, excused, tries, replied, faults>> /\ Work

AnsweredAsk(ok) ==
    /\ job.at = "ask" /\ Answer(ok) /\ Record(job.r, ok) /\ job' = At("work")
    /\ bug' = IF ok THEN [bug EXCEPT ![job.r] = Hold(@)] ELSE bug
    /\ UNCHANGED <<lap, done, tries, replied>> /\ Work

\* The fix task has opened a pull request; nothing of it is written down yet.
OpenPr ==
    /\ Running("fix")
    /\ \E p \in PRs : /\ pull[p].gh = "none" /\ pull' = [pull EXCEPT ![p].gh = "open"]
                      /\ job' = [job EXCEPT !.at = "opened", !.p = p]
    /\ UNCHANGED <<bug, row, context, said, excused, ghosts, counts>>

\* create_pr: the pull request is the report's, whatever state the report is in.  (A review that
\* turns it down closes it; the outcome is then one to try again.)
CreatePr ==
    /\ Running("opened") /\ job' = At("work")
    /\ bug' = [bug EXCEPT ![job.r] = Upserted(@, "fix-queued", job.p)]
    /\ tries' = [tries EXCEPT ![job.r] = @ + 1]
    /\ \E o \in {"pr", "retry"} : done' = [done EXCEPT ![job.r] = o]
    /\ UNCHANGED <<row, lap, excused, replied, faults>> /\ Work

\* refuseUngroundedPr: it rests on nothing that was read.  It is closed, and the report is held,
\* asked (if there is anything to quote) or not.
RefusePr ==
    /\ Running("opened") /\ pull' = [pull EXCEPT ![job.p].gh = "closed"]
    /\ done' = [done EXCEPT ![job.r] = "other"]
    /\ \/ Ask([job EXCEPT !.at = "refuse"], job.r) /\ UNCHANGED bug
       \/ job' = At("work") /\ bug' = [bug EXCEPT ![job.r] = Hold(@)]
    /\ UNCHANGED <<row, lap, class, said, excused, ghosts, counts>>

AnsweredRefuse(ok) ==
    /\ job.at = "refuse" /\ Answer(ok) /\ Record(job.r, ok) /\ job' = At("work")
    /\ bug' = [bug EXCEPT ![job.r] = Hold(@)]
    /\ UNCHANGED <<lap, done, tries, replied>> /\ Work

\* The context of the lap is gone; a post can be read again, but not what triage made of it.
Forget ==
    /\ lap' = {} /\ done' = [r \in Reports |-> "none"]
    /\ class' = [r \in Reports |-> IF class[r] = None THEN None
                                    ELSE [class[r] EXCEPT !.type = "other", !.like = "untagged"]]

\* The lap is over: its context is forgotten, and the status goes up.
LapEnd ==
    /\ Running("work") /\ job' = At("load")
    /\ bug' = Rendered /\ Forget
    /\ UNCHANGED <<pull, row, said, excused, ghosts, counts>>

\* The process dies; what it posted and had not written down, it will not know of.
Crash ==
    /\ Fault("crash") /\ job # At("load") /\ job' = At("load")
    /\ Forget
    /\ excused' = IF job.send = "stored" /\ job.at # "chase"
                  THEN [excused EXCEPT ![job.r] = @ + 1] ELSE excused
    /\ owed' = IF job.at = "deployed" THEN owed \intersect Due ELSE owed
    /\ UNCHANGED <<database, said, tries, touched, replied, clicks, weeks>>

-------------------------------------------------------------------------------

People == GitHub \/ Week \/ Status \/ \E r \in Reports : Dashboard(r) \/ DashboardDraft(r)
Answered(ok) ==
    \/ AnsweredDeployed(ok) \/ AnsweredDraft(ok) \/ AnsweredChase(ok) \/ AnsweredDirect(ok)
    \/ AnsweredTriage(ok) \/ AnsweredRecheck(ok) \/ AnsweredAsk(ok) \/ AnsweredRefuse(ok)
LoadState ==
    \/ \E p \in PRs : SyncPr(p)
    \/ SyncClosed \/ StartScan \/ EndScan \/ StartDeployed \/ EndDeployed
    \/ StartFlush \/ EndFlush \/ StartChase \/ EndChase \/ StartDirect \/ EndDirect
    \/ \E r \in Reports : Deployed(r) \/ Flush(r) \/ Chase(r) \/ Direct(r)
Lap ==
    \/ Fetch \/ StartRouter \/ Decide \/ Dispatch \/ LapEnd
    \/ \E r \in Reports : Triage(r) \/ AnswerQuestion(r) \/ Recheck(r)
    \/ TaskDeferred \/ LoopBreaker \/ TaskAsks \/ OpenPr \/ CreatePr \/ RefusePr
Next ==
    \/ People \/ Store \/ Crash \/ LoadState \/ Lap
    \/ \E ok \in BOOLEAN : Answered(ok)

Spec == Init /\ [][Next]_vars

-------------------------------------------------------------------------------
(* Properties *)

\* A report gets one reply, the question or the call to retest, whoever is to send it: the ask,
\* the deployed pass, the direct pass, the draft flush.  (More only when the monitor could not
\* know that one had gone out, or a person sent it.)
OneReplyPerPost == \A r \in Reports : said[r] <= 1 + excused[r]

\* A report whose fixes reviewers turn down goes to a person after ESCALATION_THRESHOLD of them:
\* no further pull request is accepted for it, unless somebody gave it another chance on the
\* dashboard.
NoEndlessRetry == \A r \in Reports : r \in touched \/ tries[r] <= ESCALATION_THRESHOLD

\* A report that is settled is settled: no late answer from GitHub, no scan and no later post by
\* somebody else makes the monitor take it up again.  Only the fix task that already had it in hand
\* does, and the dashboard.
SettledStaysSettled ==
    [][\A r \in Reports :
          /\ bug[r].state \in Settled /\ r \notin touched' /\ job.r # r
          => bug'[r].state \in Settled]_vars

\* A reporter who has answered since the reminder does not have the report closed on them for
\* want of an answer.  (The code notes an answer against the latest report it can be about; the
\* others that the reminder covered are not helped by it.)
AnsweredNotClosed ==
    [][\A r \in Reports :
          bug[r].state # "no-reply" /\ bug'[r].state = "no-reply" /\ r \notin touched' => r \notin replied]_vars

\* The deployed pass is at the report, or has it down for another try.
InPass(r) == job.at = "deployed" /\ (r \in job.todo \/ job.r = r \/ bug[r].pr \in job.failed)

\* A report whose fix was found live is told so, or stays among those the next pass looks at: a
\* reply the forum refused, and the mark that a report on the same pull request sets before or
\* after, take no report off the list.  (Only when its own last look failed, or the process died
\* in the pass, can it be; then owed no longer holds it.)
ToldOrDue ==
    \A r \in owed \ touched :
       HasLive(r) \/ row[r].rejected > 0 \/ bug[r].pr \in Tooling \/ r \in Due \/ InPass(r)

\* README: "When a later post in the same thread finally names something, the held report goes back
\* to open and the follow-up does not become a second report."
OnlyFollowUp(q, r) == {s \in Reports : q < s /\ class[s] # None /\ ReporterOf[s] = ReporterOf[q]} = {r}
FollowUpIsNoReport ==
    [][\A q \in replied, r \in Reports :
          /\ OnlyFollowUp(q, r) /\ class[r].words = "anchors"
          /\ bug[q].state = "open" /\ bug[r].state = "none"
          => bug'[r].state = "none"]_vars
===============================================================================
