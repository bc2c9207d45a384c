------------------------------ MODULE PendingPosts ------------------------------
(***************************************************************************)
(* One post on its way to the board: its copies (messages_groups) on the   *)
(* communities it was posted to and on those it ripples into, and all who  *)
(* may put a copy live or take it back.                                    *)
(*                                                                         *)
(* Moderators act through the API (iznik-server-go): a request checks who  *)
(* holds the copy, then writes, in separate statements with no transaction *)
(* over them.  Three scheduled commands (iznik-batch) act on their own:    *)
(* messages:contentcheck and lockdown:tick every minute, both of which     *)
(* release what a lockdown held, and messages:auto-approve every hour.     *)
(* Each works from rows it read earlier.  A command never overlaps itself, *)
(* the three overlap one another, and each may be killed.                  *)
(***************************************************************************)
EXTENDS Integers, FiniteSets

CONSTANTS
    Home, Near,  \* the communities posted to, and those the post may ripple into
    Mods, None,
    Cases,       \* what the content check and the auto-approval make of the post
    Requests,    \* what moderators may ask for, and on which of their communities
    Starts,      \* the positions of the switch to begin with
    MaxEvents    \* requests, reports, changes of the switch and faults together

Groups == Home \union Near
Switches == {"open", "held", "lifted"}
Jobs == {"check", "tick", "auto"}
ActKinds == {"Approve", "Reject", "Trash", "Delete", "Spam", "Hold", "Release", "Back"}
MultiActs == {"Approve", "Reject", "Trash", "Delete"}  \* multiGroupActions
Counted == {"Trash", "Delete", "Spam"}                 \* those that may leave no copy

\* verdict: clean; something a moderator should see, the group's or the member's own settings
\* and a missing location included; the receiving group's own rules; or a block.
\* stay: where the auto-approval leaves the post to a moderator (a closed group, an override,
\* a vague item, a new member, the receiving group's own rules).
\* lands: what rippled_in_pending_hours makes of a copy that ripples in.
CaseSet == [verdict : [Groups -> {"clean", "flag", "rules", "block"}], stay : SUBSET Groups,
            lands : {"Pending", "Approved"}]

RequestSet == [by : Mods, act : MultiActs, on : SUBSET Groups]
                \union [by : Mods, act : ActKinds, on : {{g} : g \in Groups}]

ASSUME PostAssumption ==
    /\ Home # {} /\ Home \intersect Near = {} /\ IsFiniteSet(Groups)
    /\ None \notin Mods /\ None \notin Groups
    /\ Cases \subseteq CaseSet /\ Requests \subseteq RequestSet
    /\ Starts \subseteq Switches /\ MaxEvents \in Nat

VARIABLES
    copy,     \* messages_groups, per community
    gone,     \* messages.deleted
    post,     \* what will be made of the post: one of Cases
    reach,    \* rippling_reach and rippling_blocked
    switch,   \* the newest lockdowns row: "open", "held" (posts held) or "lifted"
    hold,     \* the post's lockdown_holds row: its outcome
    quiet,    \* no log of the post in the last 48 hours
    op,       \* the request each moderator is in
    job,      \* where each command is
    admitted, \* how often the lockdown's hold of the post was claimed for release
    since,    \* commands during the whole of whose run posts has been held
    orphaned, \* a home community's send-back took the last copy
    events    \* how many of what MaxEvents bounds

base == <<copy, gone, post, reach, switch, hold, quiet>>
ghosts == <<admitted, since, orphaned>>
vars == <<base, op, job, ghosts, events>>

Collections == {"none", "refused", "Pending", "Approved", "Spam", "Rejected"}
Copies == [coll : Collections, deleted : BOOLEAN, heldby : Mods \union {None},
           needs : BOOLEAN,    \* needs_moderator
           byhand : BOOLEAN,   \* approvedby is set
           checked : BOOLEAN,  \* contentcheck_checked_at is set
           recent : BOOLEAN,   \* arrived since the incident began
           due : BOOLEAN]      \* the auto-approval's delay since its arrival is over
Rows == [group : Groups, kept : BOOLEAN]  \* kept: reserved when it was read
NoRow == [group |-> None, kept |-> FALSE]
Reaches == [held : BOOLEAN, blocked : BOOLEAN]
Ops == [act : ActKinds \union {"none"}, at : {"idle", "write", "kept", "flip", "mark", "rest"},
        on : SUBSET Groups, kept : SUBSET Groups]
\* gate: what it last read of the switch.  clear: it looked for recent logs and found none.
JobRecords == [at : {"idle", "claim", "admit", "gate", "judge"},
               rows : SUBSET Rows, does : Rows \union {NoRow}, gate : BOOLEAN, clear : BOOLEAN]
NoOp == [act |-> "none", at |-> "idle", on |-> {}, kept |-> {}]
NoJob == [at |-> "idle", rows |-> {}, does |-> NoRow, gate |-> FALSE, clear |-> FALSE]
NoCopy == [coll |-> "none", deleted |-> FALSE, heldby |-> None, needs |-> FALSE,
           byhand |-> FALSE, checked |-> FALSE, recent |-> FALSE, due |-> FALSE]

TypeOK ==
    /\ copy \in [Groups -> Copies] /\ gone \in BOOLEAN /\ post \in Cases
    /\ reach \in Reaches /\ switch \in Switches
    /\ hold \in {"none", "open", "releasing", "done"} /\ quiet \in BOOLEAN
    /\ op \in [Mods -> Ops] /\ job \in [Jobs -> JobRecords]
    /\ admitted \in Nat /\ since \subseteq Jobs /\ orphaned \in BOOLEAN
    /\ events \in 0..MaxEvents
    /\ \A j \in Jobs : job[j].does # NoRow => job[j].at = "judge"
    /\ \A g \in Groups : copy[g].coll \in {"none", "refused"} => ~copy[g].deleted

Init ==
    /\ switch \in Starts
    /\ copy = [g \in Groups |-> IF g \in Near THEN NoCopy
                                ELSE [NoCopy EXCEPT !.coll = "Pending", !.recent = (switch # "open")]]
    /\ gone = FALSE /\ post \in Cases
    /\ reach = [held |-> FALSE, blocked |-> FALSE]
    /\ hold = "none" /\ quiet = TRUE
    /\ op = [m \in Mods |-> NoOp] /\ job = [j \in Jobs |-> NoJob]
    /\ admitted = 0 /\ since = {} /\ orphaned = FALSE
    /\ events = 0

-------------------------------------------------------------------------------
(* The post *)

OnPost(g) == copy[g].coll \notin {"none", "refused"}
Here(g) == OnPost(g) /\ ~copy[g].deleted
Is(g, c) == Here(g) /\ copy[g].coll = c
Live(g) == Is(g, "Approved") /\ ~gone
\* A moderator holds the copy, or sent it back for its moderators to decide.
Reserved(g) == copy[g].heldby # None \/ copy[g].needs
Moderatable == {"Pending", "Spam"}
Awaiting(S) == {g \in S : Is(g, "Pending") \/ Is(g, "Spam")}
HeldByOthers(m, S) == {g \in S : Here(g) /\ copy[g].heldby \notin {None, m}}
HomeIsLive == \E g \in Home : Is(g, "Approved")

PostsHeld == switch = "held"
Active == switch # "open"
Arrived(c) == [c EXCEPT !.recent = Active, !.due = FALSE]  \* arrival = NOW()

Event == events < MaxEvents /\ events' = events + 1

Change(S, F(_)) == copy' = [g \in Groups |-> IF g \in S THEN F(copy[g]) ELSE copy[g]]

-------------------------------------------------------------------------------
(* Moderators *)

\* Somebody else's hold refuses a request; one on several communities, only if all that wait
\* are held.
HoldAllows(m, r, S) ==
    IF Cardinality(r.on) > 1 THEN ~(Awaiting(S) \subseteq HeldByOthers(m, S))
    ELSE r.act = "Release" \/ HeldByOthers(m, S) = {}

\* The copies it will act on, as they are when it comes in.
Target(m, r, S) ==
    CASE r.act = "Approve" /\ Cardinality(r.on) > 1 -> Awaiting(S)
      [] r.act = "Delete" /\ Cardinality(r.on) > 1 -> Awaiting(S) \ HeldByOthers(m, S)
      [] r.act = "Reject" -> Awaiting(S \ HeldByOthers(m, S))
      [] r.act = "Trash" -> S \ HeldByOthers(m, S)
      [] r.act = "Hold" -> {g \in S : copy[g].coll = "Pending"}
      [] OTHER -> S

\* A request names one community, or several where the action allows it.
Begin(m) ==
    /\ op[m] = NoOp /\ ~gone
    /\ \E r \in Requests :
        LET S == {g \in r.on : OnPost(g)}
            on == Target(m, r, S)
        IN  /\ r.by = m /\ HoldAllows(m, r, S) /\ on # {}
            /\ r.act = "Trash" => Awaiting(on) # {}
            /\ op' = [op EXCEPT ![m] = [act |-> r.act, at |-> "write", on |-> on, kept |-> {}]]
    /\ Event
    /\ UNCHANGED <<base, job, ghosts>>

At(m, act, at) == op[m].act = act /\ op[m].at = at
Go(m, at) == op' = [op EXCEPT ![m].at = at]
Finish(m) == op' = [op EXCEPT ![m] = NoOp]

\* Mutant: the write does not look at the hold.
ApprovableHeld(m, g) == copy[g].coll \notin {"none", "refused", "Approved"}

\* ApprovePendingCopies: the hold is looked at again in the write itself.
Approvable(m, g) == copy[g].coll \notin {"none", "refused", "Approved"} /\ copy[g].heldby \in {None, m}

Approve(m) ==
    /\ At(m, "Approve", "write")
    /\ Change({g \in op[m].on : Approvable(m, g)},
              LAMBDA c : Arrived([c EXCEPT !.coll = "Approved", !.byhand = TRUE, !.needs = FALSE]))
    /\ LET held == {g \in HeldByOthers(m, op[m].on) : copy[g].coll # "Approved"}
       IN  op' = [op EXCEPT ![m] = IF op[m].on = held THEN NoOp
                                   ELSE [op[m] EXCEPT !.at = "rest", !.on = op[m].on \ held]]
    /\ UNCHANGED <<gone, post, reach, switch, hold, quiet, job, ghosts, events>>

\* A frozen reach spreads again once its home copy is approved, unless the home community sent
\* the post back; and the copies acted on are released.
Approved(m) ==
    /\ At(m, "Approve", "rest")
    /\ Change(op[m].on, LAMBDA c : [c EXCEPT !.heldby = None])
    /\ reach' = IF op[m].on \intersect Home # {} /\ HomeIsLive /\ ~reach.blocked
                THEN [reach EXCEPT !.held = FALSE] ELSE reach
    /\ Finish(m)
    /\ UNCHANGED <<gone, post, switch, hold, quiet, job, ghosts, events>>

Reject(m) ==
    /\ At(m, "Reject", "write")
    /\ Change({g \in op[m].on : copy[g].coll \in Moderatable},
              LAMBDA c : [c EXCEPT !.coll = "Rejected", !.heldby = None])
    /\ Finish(m)
    /\ UNCHANGED <<gone, post, reach, switch, hold, quiet, job, ghosts, events>>

\* A plain delete of a waiting copy, a delete of any copy, and spam.
Remove(m) ==
    /\ \/ /\ At(m, "Trash", "write")
          /\ Change({g \in op[m].on : copy[g].coll \in Moderatable},
                    LAMBDA c : [c EXCEPT !.deleted = TRUE, !.heldby = None])
       \/ /\ At(m, "Delete", "write")
          /\ Change(op[m].on, LAMBDA c : NoCopy)
       \/ /\ At(m, "Spam", "write")
          /\ Change({g \in op[m].on : OnPost(g)}, LAMBDA c : [c EXCEPT !.deleted = TRUE])
    /\ Go(m, "rest")
    /\ UNCHANGED <<gone, post, reach, switch, hold, quiet, job, ghosts, events>>

\* Mutant: a copy marked deleted counts as left.
LastGoneRows == \A g \in Groups : ~OnPost(g)

LastGone == \A g \in Groups : ~Here(g)

\* The post goes with its last copy; a community that deleted its copy is not rippled into again.
Count(m) ==
    /\ op[m].act \in Counted /\ op[m].at = "rest"
    /\ gone' = (gone \/ LastGone)
    /\ Change({g \in op[m].on \intersect Near : op[m].act = "Delete" /\ copy[g].coll = "none"},
              LAMBDA c : [c EXCEPT !.coll = "refused"])
    /\ Finish(m)
    /\ UNCHANGED <<post, reach, switch, hold, quiet, job, ghosts, events>>

Hold(m) ==
    /\ At(m, "Hold", "write")
    /\ Change({g \in op[m].on : OnPost(g)}, LAMBDA c : [c EXCEPT !.heldby = m])
    /\ quiet' = FALSE
    /\ Finish(m)
    /\ UNCHANGED <<gone, post, reach, switch, hold, job, ghosts, events>>

Release(m) ==
    /\ At(m, "Release", "write")
    /\ Change({g \in op[m].on : OnPost(g)}, LAMBDA c : [c EXCEPT !.heldby = None])
    /\ quiet' = FALSE
    /\ Finish(m)
    /\ UNCHANGED <<gone, post, reach, switch, hold, job, ghosts, events>>

FromHome(m) == \E g \in op[m].on \intersect Home : OnPost(g)

BackHold(m) ==
    /\ At(m, "Back", "write")
    /\ Change({g \in op[m].on : OnPost(g)}, LAMBDA c : [c EXCEPT !.heldby = m])
    /\ Go(m, "kept")
    /\ UNCHANGED <<gone, post, reach, switch, hold, quiet, job, ghosts, events>>

\* Copies another community approved by hand are kept; a home community withdraws the other
\* rippled copies, and the post never starts to ripple again.
Kept(m) == {g \in Groups \ op[m].on : Is(g, "Approved") /\ copy[g].byhand}
\* Mutant: communities the post never reached are taken for withdrawn.
WithdrawnAll(m) == {g \in Near \ Kept(m) : FromHome(m)}
Withdrawn(m) == {g \in Near \ Kept(m) : FromHome(m) /\ Here(g)}

BackWithdraw(m) ==
    /\ At(m, "Back", "kept")
    /\ copy' = [g \in Groups |->
            [copy[g] EXCEPT !.byhand = @ /\ ~(copy[g].coll = "Approved" /\ g \notin Kept(m)),
                            !.deleted = @ \/ g \in Withdrawn(m)]]
    /\ op' = [op EXCEPT ![m].at = "flip", ![m].kept = Kept(m)]
    /\ orphaned' = (orphaned \/ (Withdrawn(m) # {} /\ \A g \in Groups \ Withdrawn(m) : ~Here(g)))
    /\ reach' = [reach EXCEPT !.blocked = @ \/ FromHome(m)]
    /\ UNCHANGED <<gone, post, switch, hold, quiet, job, admitted, since, events>>

\* SendForReviewGroupsExcept: every other live copy goes back to its moderators.
Flipped(kept) == {g \in Groups \ kept : Is(g, "Approved")}

BackFlip(m) ==
    /\ At(m, "Back", "flip")
    /\ Change(Flipped(op[m].kept), LAMBDA c : [c EXCEPT !.coll = "Pending"])
    /\ op' = [op EXCEPT ![m].at = "mark", ![m].kept = Flipped(op[m].kept)]
    /\ UNCHANGED <<gone, post, reach, switch, hold, quiet, job, ghosts, events>>

BackMark(m) ==
    /\ At(m, "Back", "mark")
    /\ Change({g \in op[m].on \union op[m].kept : copy[g].coll = "Pending"},
              LAMBDA c : [c EXCEPT !.needs = TRUE])
    /\ reach' = [reach EXCEPT !.held = @ \/ FromHome(m) \/ ~HomeIsLive]
    /\ quiet' = FALSE
    /\ Finish(m)
    /\ UNCHANGED <<gone, post, switch, hold, job, ghosts, events>>

Moderate(m) ==
    \/ Approve(m) \/ Approved(m) \/ Reject(m) \/ Remove(m) \/ Count(m) \/ Hold(m) \/ Release(m)
    \/ BackHold(m) \/ BackWithdraw(m) \/ BackFlip(m) \/ BackMark(m)

\* Enough members say the post should not be there.
Reported ==
    /\ ~gone /\ Flipped({}) # {}
    /\ Change(Flipped({}), LAMBDA c : [c EXCEPT !.coll = "Pending"])
    /\ reach' = [reach EXCEPT !.held = TRUE]
    /\ quiet' = FALSE
    /\ Event
    /\ UNCHANGED <<gone, post, switch, hold, op, job, ghosts>>

-------------------------------------------------------------------------------
(* The lockdown, rippling and time *)

\* press(), setSurfaces() and close()
Press ==
    /\ \E s \in Switches :
        /\ s # switch /\ (s = "lifted" => switch = "held")
        /\ switch' = s
        /\ copy' = IF Active THEN copy
                   ELSE [g \in Groups |-> [copy[g] EXCEPT !.recent = FALSE]]
        /\ since' = IF s = "held" THEN since ELSE {}
    /\ Event
    /\ UNCHANGED <<gone, post, reach, hold, quiet, op, job, admitted, orphaned>>

\* rippleIntoNewGroups: only a post live on its home community ripples.  The copy lands live, or
\* pending if its community's own rules object or rippled_in_pending_hours says so.
Ripple ==
    /\ ~gone /\ ~reach.held /\ HomeIsLive
    /\ \E g \in Near :
        /\ copy[g].coll = "none"
        /\ copy' = [copy EXCEPT ![g] = Arrived([NoCopy EXCEPT !.coll =
                        IF post.verdict[g] = "rules" THEN "Pending" ELSE post.lands])]
    /\ UNCHANGED <<gone, post, reach, switch, hold, quiet, op, job, ghosts, events>>

\* Two days go by: longer than any request or run.
Age ==
    /\ \A m \in Mods : op[m] = NoOp
    /\ \A j \in Jobs : job[j] = NoJob
    /\ copy' = [g \in Groups |-> [copy[g] EXCEPT !.due = OnPost(g)]]
    /\ quiet' = TRUE
    /\ UNCHANGED <<gone, post, reach, switch, hold, op, job, ghosts, events>>

-------------------------------------------------------------------------------
(* The commands *)

RowOf(g) == [group |-> g, kept |-> Reserved(g)]
RowsOf(S) == {RowOf(g) : g \in S}

\* held(): the answer may be five seconds old.
Gates(j) == {job[j].gate, PostsHeld}
Goes(j, at, rows, gate) ==
    job' = [job EXCEPT ![j] = [NoJob EXCEPT !.at = at, !.rows = rows, !.gate = gate]]
Stop(j) == job' = [job EXCEPT ![j] = NoJob] /\ since' = since \ {j}

Waiting == {g \in Groups : Is(g, "Pending") /\ ~gone}

\* createHolds: posts that came in during the incident; one held before is left as it is.
Creates == Active /\ hold = "none" /\ \E g \in Groups : Is(g, "Pending") /\ copy[g].recent

\* Mutant: a hold in release, even by a command that was killed, stops the auto-approval too.
AutoSelectsNoHold ==
    {g \in Waiting : /\ ~Reserved(g) /\ copy[g].due /\ hold \in {"none", "done"}
                     /\ \A s \in Groups : ~Is(s, "Spam")
                     /\ g \in Near => HomeIsLive}

\* What the auto-approval selects: the home copies after 48 hours, a rippled copy after its
\* delay if the home copy is live, nothing reserved, spam anywhere or held by a lockdown.
AutoSelects ==
    {g \in Waiting : /\ ~Reserved(g) /\ copy[g].due /\ hold # "open"
                     /\ \A s \in Groups : ~Is(s, "Spam")
                     /\ g \in Near => HomeIsLive}

\* closeGoneHolds: the hold of a post no longer pending anywhere is closed.
Gone == ~\E g \in Groups : Is(g, "Pending")

\* lockdown:tick makes and closes holds, then releases them unless posts is held.
LaunchTick ==
    /\ job["tick"] = NoJob
    /\ LET now == IF Creates THEN "open" ELSE IF hold = "open" /\ Gone THEN "done" ELSE hold
       IN  /\ hold' = now
           /\ IF now = "open" /\ ~PostsHeld THEN Goes("tick", "claim", {}, FALSE) ELSE UNCHANGED job
    /\ UNCHANGED <<copy, gone, post, reach, switch, quiet, op, ghosts, events>>

Unchecked == {g \in Waiting : ~copy[g].checked}

\* messages:contentcheck releases what is held unless posts is, then goes through the copies
\* not yet checked.
LaunchCheck ==
    /\ job["check"] = NoJob
    /\ IF hold = "open" /\ ~PostsHeld THEN Goes("check", "claim", {}, FALSE)
       ELSE /\ \E g \in Waiting \union {s \in Groups : Live(s)} : ~copy[g].checked
            /\ Goes("check", "judge", RowsOf(Unchecked), PostsHeld)
    /\ since' = IF PostsHeld THEN since \union {"check"} ELSE since
    /\ UNCHANGED <<base, op, admitted, orphaned, events>>

\* messages:auto-approve: a run that finds posts held, or nothing to approve, ends at once.
LaunchAuto ==
    /\ job["auto"] = NoJob
    /\ ~PostsHeld /\ AutoSelects # {}
    /\ Goes("auto", "gate", RowsOf(AutoSelects), FALSE)
    /\ UNCHANGED <<base, op, ghosts, events>>

\* Where a command goes once nothing is left to release.
Onward(j) ==
    IF j = "tick" THEN Stop(j)
    ELSE \E gate \in Gates(j) : Goes(j, "judge", RowsOf(Unchecked), gate) /\ UNCHANGED since

\* Mutant: the claim does not ask for a hold without an outcome.
ClaimableAlways == TRUE

\* admitHeldPost: only one of the commands claims the hold.
Claimable == hold = "open"

Claim(j) ==
    /\ job[j].at = "claim"
    /\ IF Claimable
       THEN /\ hold' = "releasing" /\ admitted' = admitted + 1
            /\ Goes(j, "admit", RowsOf(Waiting), job[j].gate)
            /\ UNCHANGED since
       ELSE /\ Onward(j)
            /\ UNCHANGED <<hold, admitted>>
    /\ UNCHANGED <<copy, gone, post, reach, switch, quiet, op, orphaned, events>>

\* Mutant: the lockdown is left out of the decision.
DecisionUnheld(row, held) ==
    CASE post.verdict[row.group] = "clean" /\ ~row.kept -> "approve"
      [] post.verdict[row.group] = "block" /\ ~row.kept -> "block"
      [] OTHER -> "stamp"

\* decideAndApply: what the row read earlier and the check of the text make of it.
Decision(row, held) ==
    CASE post.verdict[row.group] = "clean" /\ ~row.kept /\ ~held -> "approve"
      [] post.verdict[row.group] = "block" /\ ~row.kept -> "block"
      [] OTHER -> "stamp"

Decided(c, decision, arrives) ==
    CASE decision = "approve" ->
            LET d == [c EXCEPT !.coll = "Approved", !.byhand = FALSE, !.checked = TRUE]
            IN  IF arrives THEN Arrived(d) ELSE d
      [] decision = "block" -> [c EXCEPT !.coll = "Spam", !.checked = TRUE]
      [] OTHER -> [c EXCEPT !.checked = TRUE]

\* The write names the community and asks nothing more of the copy.
DecideAndApply(row, held, arrives) ==
    copy' = [g \in Groups |-> IF g = row.group /\ OnPost(g)
                              THEN Decided(copy[g], Decision(row, held), arrives) ELSE copy[g]]

Admit(j) ==
    /\ job[j].at = "admit"
    /\ \E row \in job[j].rows :
        /\ DecideAndApply(row, FALSE, TRUE)
        /\ job' = [job EXCEPT ![j].rows = @ \ {row}]
    /\ UNCHANGED <<gone, post, reach, switch, hold, quiet, op, ghosts, events>>

Admitted(j) ==
    /\ job[j].at = "admit" /\ job[j].rows = {}
    /\ hold' = "done"
    /\ Onward(j)
    /\ UNCHANGED <<copy, gone, post, reach, switch, quiet, op, admitted, orphaned, events>>

\* One row at a time, the switch looked at before each.
Take ==
    /\ job["check"].at = "judge" /\ job["check"].does = NoRow
    /\ \E row \in job["check"].rows, gate \in Gates("check") :
        job' = [job EXCEPT !["check"].does = row, !["check"].gate = gate, !["check"].rows = @ \ {row}]
    /\ UNCHANGED <<base, op, ghosts, events>>

Judge ==
    /\ job["check"].does # NoRow
    /\ DecideAndApply(job["check"].does, job["check"].gate, FALSE)
    /\ job' = [job EXCEPT !["check"].does = NoRow]
    /\ UNCHANGED <<gone, post, reach, switch, hold, quiet, op, ghosts, events>>

\* The copies that went live unchecked are only stamped.
StampLive ==
    /\ job["check"].at = "judge" /\ job["check"].does = NoRow /\ job["check"].rows = {}
    /\ copy' = [g \in Groups |-> [copy[g] EXCEPT !.checked = @ \/ Live(g)]]
    /\ Stop("check")
    /\ UNCHANGED <<gone, post, reach, switch, hold, quiet, op, admitted, orphaned, events>>

\* The switch is looked at once more before the copies of the post.
AutoGate ==
    /\ job["auto"].at = "gate"
    /\ \E gate \in Gates("auto") :
        IF gate THEN Stop("auto")
        ELSE job' = [job EXCEPT !["auto"].at = "judge"] /\ UNCHANGED since
    /\ UNCHANGED <<base, op, admitted, orphaned, events>>

\* The logs are looked at once, before the first of the home copies; the settings, for each copy.
AutoTake ==
    /\ job["auto"].at = "judge" /\ job["auto"].does = NoRow
    /\ \E row \in job["auto"].rows :
        IF row.group \in Home /\ ~quiet /\ ~job["auto"].clear
        THEN job' = [job EXCEPT !["auto"].rows = {other \in @ : other.group \notin Home}]
        ELSE job' = [job EXCEPT !["auto"].does = IF row.group \in post.stay THEN NoRow ELSE row,
                                !["auto"].rows = @ \ {row},
                                !["auto"].clear = @ \/ row.group \in Home]
    /\ UNCHANGED <<base, op, ghosts, events>>

AutoApprove ==
    /\ job["auto"].does # NoRow
    /\ copy' = [g \in Groups |->
            IF g = job["auto"].does.group /\ OnPost(g) /\ copy[g].coll # "Approved"
            THEN Arrived([copy[g] EXCEPT !.coll = "Approved", !.byhand = FALSE]) ELSE copy[g]]
    /\ quiet' = FALSE
    /\ job' = [job EXCEPT !["auto"].does = NoRow]
    /\ UNCHANGED <<gone, post, reach, switch, hold, op, ghosts, events>>

AutoEnd ==
    /\ job["auto"].at = "judge" /\ job["auto"].does = NoRow /\ job["auto"].rows = {}
    /\ Stop("auto")
    /\ UNCHANGED <<base, op, admitted, orphaned, events>>

\* The work on one copy throws: the content check leaves that copy as it is, the auto-approval
\* that copy and all that follow.
Fails(j) ==
    /\ Event
    /\ \/ \E row \in job[j].rows : job[j].at = "admit" /\ job' = [job EXCEPT ![j].rows = @ \ {row}]
       \/ /\ job[j].does # NoRow
          /\ job' = [job EXCEPT ![j].does = NoRow, ![j].rows = IF j = "auto" THEN {} ELSE @]
    /\ UNCHANGED <<base, op, ghosts>>

Killed(j) ==
    /\ Event
    /\ job[j] # NoJob /\ Stop(j)
    /\ UNCHANGED <<base, op, admitted, orphaned>>

Run(j) ==
    \/ j \in {"check", "tick"} /\ (Claim(j) \/ Admit(j) \/ Admitted(j))
    \/ j = "check" /\ (LaunchCheck \/ Take \/ Judge \/ StampLive)
    \/ j = "tick" /\ LaunchTick
    \/ j = "auto" /\ (LaunchAuto \/ AutoGate \/ AutoTake \/ AutoApprove \/ AutoEnd)

-------------------------------------------------------------------------------
Next ==
    \/ \E m \in Mods : Begin(m) \/ Moderate(m)
    \/ Reported \/ Press \/ Ripple \/ Age
    \/ \E j \in Jobs : Run(j) \/ Fails(j) \/ Killed(j)

\* A request once begun is carried out, the commands are launched and run on, and time passes:
\* two days of it whenever, again and again, nothing is under way.
Fairness ==
    /\ \A m \in Mods : WF_vars(Moderate(m))
    /\ \A j \in Jobs : WF_vars(Run(j))
    /\ SF_vars(Age)

Spec == Init /\ [][Next]_vars /\ Fairness

-------------------------------------------------------------------------------
(* Properties *)

\* However the two commands that release what a lockdown held overlap, fail or are killed, the
\* post is admitted once at most.
AdmittedOnce == admitted <= 1

\* A post no community has any more is itself deleted, once the requests that took its copies
\* away are done.  (A home community's send-back, which withdraws the rippled copies without
\* counting, may take the last one.)
Removing == \E m \in Mods : op[m].act \in Counted /\ op[m].at = "rest"
NoOrphan == (\A g \in Groups : ~Here(g)) => gone \/ Removing \/ orphaned

\* A copy that a moderator holds, or that was sent back for its moderators to decide, goes live
\* by an approval of somebody the hold allows - or by a command that read it before that.
ApprovesNow(m, g) ==
    At(m, "Approve", "write") /\ op'[m] # op[m] /\ g \in op[m].on /\ copy[g].heldby \in {None, m}
ReadBefore(j, g) ==
    /\ job'[j] # job[j]
    /\ \E row \in job[j].rows \union {job[j].does} : row # NoRow /\ row.group = g /\ ~row.kept
ModeratorDecides ==
    [][\A g \in Groups : Reserved(g) /\ ~Live(g) /\ Live(g)' =>
            \/ \E m \in Mods : ApprovesNow(m, g)
            \/ \E j \in Jobs : ReadBefore(j, g)]_vars

\* A command that has been running only while posts is held puts nothing live.
NothingWhileHeld ==
    [][\A j \in since : job'[j] # job[j] => \A g \in Groups : Live(g)' => Live(g)]_vars

\* If posts is in the end not held for good, no copy waits for ever that no moderator has
\* reserved and that the auto-approval would take: not for a lockdown that was lifted, not for
\* a command killed half way through its release.
AwaitsJobs(g) ==
    g \in Waiting \ post.stay /\ ~Reserved(g) /\ (g \in Near => HomeIsLive) /\ \A s \in Groups : ~Is(s, "Spam")
EveryPostDecided == <>[]~PostsHeld => []<>(\A g \in Groups : ~AwaitsJobs(g))
================================================================================
