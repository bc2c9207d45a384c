------------------------------- MODULE PostFeed --------------------------------
(***************************************************************************)
(* The partner post feed: one Offer, the freebie_alerts_add and            *)
(* freebie_alerts_remove tasks that the Go API and the batch tier queue as *)
(* the post changes, and the run of queue:background-tasks that sends each *)
(* to every partner.  A partner that fails gets a retry row of its own     *)
(* that falls due later, so adds and removes for one partner overtake each *)
(* other; what the handlers check when they run has to make up for it.     *)
(*                                                                         *)
(* The loop that takes the tasks is BackgroundTasks' with one runner; here *)
(* it is reduced to the order it takes them in.  The partners are external.*)
(***************************************************************************)
EXTENDS Integers

CONSTANTS
    Partners,     \* POST_FEEDS that have a key configured
    Moves,        \* the changes to the post that may happen, names of Change
    MAX_ATTEMPTS,
    Faults, MaxFaults, \* the kinds of fault, and how many in one behaviour
    MaxMoves,     \* bounds how often the post changes
    MaxTasks      \* bounds how many rows are inserted

None == [id |-> 0, kind |-> "none", feed |-> "all", tries |-> 0]

FaultKinds == {"fail", "timeout", "refused", "giveup", "lost", "db", "crash"}

VARIABLES
    post,     \* where the post stands
    owed,     \* the task a handler has still to queue for its change
    queue,    \* open rows that are due
    waiting,  \* retry rows whose created_at is still to come
    pc,       \* the run: "idle", "next" row of its batch, or "send"
    batch,    \* ids of the rows of its batch still to do
    cur,      \* the row it is working on, as it is in the table
    sendto,     \* partners it has still to send that row to
    has,      \* whether each partner lists the post (external)
    forsaken, \* partners for which a task was given up on or lost
    overtaken, \* has a first remove been left open while its batch went on?
    inserted, \* ids given out
    moves, budget

rows   == <<queue, waiting, inserted>>
run    == <<pc, batch, cur, sendto>>
vars   == <<post, owed, rows, run, has, forsaken, overtaken, moves, budget>>

Live  == post = "live"
Posts == {"pending", "rejected", "live", "closed", "expired", "draft", "deleted"}
Kinds == {"add", "remove"}

Handler(start, end, task) == [from |-> start, into |-> end, task |-> task]

\* What each handler does: from where, to where, and the task it queues after.
Approve     == Handler({"pending"}, "live", "add")
AutoApprove == Handler({"pending"}, "live", "none")
Reject      == Handler({"pending"}, "rejected", "none")
Outcome     == Handler({"pending", "live", "expired", "rejected"}, "closed", "remove")
Withdraw    == Handler({"pending"}, "deleted", "remove")
Delete      == Handler(Posts \ {"deleted"}, "deleted", "remove")
Expire      == Handler({"live"}, "expired", "none")
Extend      == Handler({"expired"}, "live", "none")
Back        == Handler({"live"}, "pending", "none")
Draft       == Handler({"pending", "rejected", "closed", "expired"}, "draft", "none")
Pull        == Handler({"live"}, "draft", "none") \* the draft handler, on a live post
Repost      == Handler({"draft"}, "pending", "none")

Change == [approve |-> Approve, autoapprove |-> AutoApprove, reject |-> Reject,
           outcome |-> Outcome, withdraw |-> Withdraw, delete |-> Delete,
           expire |-> Expire, extend |-> Extend, back |-> Back,
           draft |-> Draft, pull |-> Pull, repost |-> Repost]

ASSUME FeedAssumption ==
    /\ "all" \notin Partners /\ MAX_ATTEMPTS \in Nat \ {0}
    /\ Moves \subseteq DOMAIN Change
    /\ Faults \subseteq FaultKinds /\ MaxFaults \in Nat
    /\ MaxMoves \in Nat /\ MaxTasks \in Nat

\* Mutant: a new row shares the place of the last one.
Row_Tied(kind, feed) == [id |-> inserted, kind |-> kind, feed |-> feed, tries |-> 0]

\* A row's id is its place in the order of created_at.
Row(kind, feed) == [id |-> inserted + 1, kind |-> kind, feed |-> feed, tries |-> 0]

\* configuredPostFeeds(): a retry goes to its own partner only.
Feeds(t) == IF t.feed = "all" THEN Partners ELSE {t.feed}

Open == queue \union waiting

Init ==
    /\ post = "pending" /\ owed = "none"
    /\ queue = {} /\ waiting = {} /\ inserted = 0
    /\ pc = "idle" /\ batch = {} /\ cur = None /\ sendto = {}
    /\ has = [p \in Partners |-> FALSE]
    /\ forsaken = {} /\ overtaken = FALSE /\ moves = 0 /\ budget = MaxFaults

Fault(kind) == kind \in Faults /\ budget > 0 /\ budget' = budget - 1

-------------------------------------------------------------------------------
\* A handler changes the post ...
Move ==
    /\ owed = "none" /\ moves < MaxMoves /\ moves' = moves + 1
    /\ \E m \in Moves :
          /\ post \in Change[m].from
          /\ post' = Change[m].into /\ owed' = Change[m].task
    /\ UNCHANGED <<rows, run, has, forsaken, overtaken, budget>>

\* ... and then queues the task.  An insert that fails is logged, no more.
Enqueue ==
    /\ owed # "none" /\ owed' = "none"
    /\ \/ /\ inserted < MaxTasks /\ inserted' = inserted + 1
          /\ queue' = queue \union {Row(owed, "all")}
          /\ UNCHANGED <<forsaken, budget>>
       \/ /\ Fault("lost") /\ forsaken' = Partners
          /\ UNCHANGED <<queue, inserted>>
    /\ UNCHANGED <<post, waiting, run, has, overtaken, moves>>

\* A retry's created_at passes: its place is after the rows due before it.
FallDue ==
    /\ inserted' = inserted + 1
    /\ \E t \in waiting : /\ queue' = queue \union {[t EXCEPT !.id = inserted']}
                         /\ waiting' = waiting \ {t}
    /\ UNCHANGED <<post, owed, run, has, forsaken, overtaken, moves, budget>>

-------------------------------------------------------------------------------
\* The batch is the oldest due rows, with --limit and other posts' rows deciding
\* how many of this post's it holds.
Iterate ==
    /\ pc = "idle" /\ pc' = "next"
    /\ \E last \in queue : batch' = {t.id : t \in {u \in queue : u.id <= last.id}}
    /\ UNCHANGED <<post, owed, rows, cur, sendto, has, forsaken, overtaken, moves, budget>>

BatchDone ==
    /\ pc = "next" /\ batch = {} /\ pc' = "idle"
    /\ UNCHANGED <<post, owed, rows, batch, cur, sendto, has, forsaken, overtaken, moves, budget>>

\* Mutants: a retried remove, or an add, is sent without looking at the post.
Targets_BlindRemove(t) == IF t.kind = "add" /\ ~Live THEN {} ELSE Feeds(t)
Targets_BlindAdd(t) == IF t.kind = "remove" /\ t.feed # "all" /\ Live THEN {} ELSE Feeds(t)

\* An add is only sent for a post that is live now.  A remove that is a retry is
\* skipped if it is live again; a first remove is not checked.
Targets(t) ==
    IF \/ t.kind = "add" /\ ~Live
       \/ t.kind = "remove" /\ t.feed # "all" /\ Live
    THEN {} ELSE Feeds(t)

\* The handler starts: the attempt is counted and the post looked at, once.
Take ==
    /\ pc = "next" /\ pc' = "send"
    /\ \E t \in queue :
          /\ t.id \in batch /\ \A i \in batch : t.id <= i
          /\ batch' = batch \ {t.id}
          /\ cur' = [t EXCEPT !.tries = @ + 1]
          /\ queue' = (queue \ {t}) \union {cur'}
          /\ sendto' = Targets(t)
    /\ UNCHANGED <<post, owed, waiting, inserted, has, forsaken, overtaken, moves, budget>>

\* A row of the batch is left open, and the rows after it go first.
PassedOver(t) == overtaken' = (overtaken \/ (t.kind = "remove" /\ t.feed = "all"))

\* Counting the attempt fails: the row is left, or given up, and the batch goes on.
TakeFails ==
    /\ pc = "next" /\ Fault("db")
    /\ \E t \in queue :
          /\ t.id \in batch /\ \A i \in batch : t.id <= i
          /\ batch' = batch \ {t.id}
          /\ IF t.tries + 1 >= MAX_ATTEMPTS
             THEN queue' = queue \ {t} /\ forsaken' = forsaken \union Feeds(t) /\ UNCHANGED overtaken
             ELSE PassedOver(t) /\ UNCHANGED <<queue, forsaken>>
    /\ UNCHANGED <<post, owed, waiting, inserted, pc, cur, sendto, has, moves>>

\* The row is left open for a later batch, or has used up its attempts and is
\* never taken again.
LeaveOpen ==
    /\ cur' = None /\ sendto' = {}
    /\ IF cur.tries >= MAX_ATTEMPTS
       THEN queue' = queue \ {cur} /\ forsaken' = forsaken \union Feeds(cur)
       ELSE UNCHANGED <<queue, forsaken>>

\* Mutant: no retry row is inserted.
Retry_Dropped(p) == sendto' = sendto \ {p} /\ UNCHANGED <<rows, pc, cur, forsaken, overtaken>>

\* retryPostFeed(): a new row for this partner.  If the insert fails, the error
\* leaves the handler and the other partners are not sent to.
Retry(p) ==
    \/ /\ inserted < MaxTasks /\ inserted' = inserted + 1
       /\ waiting' = waiting \union {Row(cur.kind, p)}
       /\ sendto' = sendto \ {p} /\ UNCHANGED <<queue, pc, cur, forsaken, overtaken>>
    \/ /\ "db" \in Faults /\ pc' = "next" /\ LeaveOpen /\ PassedOver(cur)
       /\ UNCHANGED <<waiting, inserted>>

Applied(p) == has' = [has EXCEPT ![p] = cur.kind = "add"]

\* sendToPostFeed(): the partner takes it, fails, takes it but the answer is
\* lost, refuses it for good, or has failed for a day.
Send(p) ==
    /\ pc = "send" /\ p \in sendto
    /\ \/ /\ Applied(p) /\ sendto' = sendto \ {p}
          /\ UNCHANGED <<rows, pc, cur, forsaken, overtaken, budget>>
       \/ Fault("fail") /\ Retry(p) /\ UNCHANGED has
       \/ Fault("timeout") /\ Retry(p) /\ Applied(p)
       \/ /\ (Fault("refused") \/ Fault("giveup"))
          /\ sendto' = sendto \ {p} /\ forsaken' = forsaken \union {p}
          /\ UNCHANGED <<rows, pc, cur, has, overtaken>>
    /\ UNCHANGED <<post, owed, batch, moves>>

\* processed_at is set; if that fails the row stays open and the batch goes on.
Close ==
    /\ pc = "send" /\ sendto = {} /\ pc' = "next"
    /\ \/ /\ queue' = queue \ {cur} /\ cur' = None /\ UNCHANGED <<sendto, forsaken, overtaken, budget>>
       \/ Fault("db") /\ LeaveOpen /\ PassedOver(cur)
    /\ UNCHANGED <<post, owed, waiting, inserted, batch, has, moves>>

\* The run dies; the next one reads the table afresh.
Crash ==
    /\ pc # "idle" /\ Fault("crash") /\ pc' = "idle" /\ batch' = {}
    /\ IF pc = "send" THEN LeaveOpen ELSE UNCHANGED <<queue, forsaken, cur, sendto>>
    /\ UNCHANGED <<post, owed, waiting, inserted, has, overtaken, moves>>

-------------------------------------------------------------------------------
Work == Iterate \/ BatchDone \/ Take \/ (\E p \in Partners : Send(p)) \/ Close

Next == Move \/ Enqueue \/ FallDue \/ Work \/ TakeFails \/ Crash

Spec == Init /\ [][Next]_vars

\* A handler goes on to queue its task, a retry's time comes, and the command is
\* launched every minute.
Fairness == WF_vars(Enqueue) /\ WF_vars(FallDue) /\ WF_vars(Work)

FairSpec == Spec /\ Fairness

-------------------------------------------------------------------------------
(* Properties *)

\* The shape of the state: a row has one place in the order, and is sent only
\* while it is open, to partners it is meant for.
TaskSet == [id : Nat, kind : Kinds, feed : Partners \union {"all"}, tries : Nat]
Fields ==
    /\ post \in Posts /\ owed \in Kinds \union {"none"}
    /\ queue \subseteq TaskSet /\ waiting \subseteq TaskSet
    /\ inserted \in Nat /\ moves \in Nat /\ budget \in Nat
    /\ has \in [Partners -> BOOLEAN] /\ forsaken \subseteq Partners /\ overtaken \in BOOLEAN
RunShape ==
    /\ pc \in {"idle", "next", "send"} /\ batch \subseteq Nat
    /\ IF pc = "send" THEN cur \in queue /\ sendto \subseteq Feeds(cur)
                      ELSE cur = None /\ sendto = {}
Ordered ==
    /\ \A t \in Open : t.id \in 1..inserted
    /\ \A t, u \in Open : t.id = u.id => t = u
    /\ queue \intersect waiting = {}
TypeOK == Fields /\ RunShape /\ Ordered

\* Nothing is under way for a partner, and nothing for it was given up on.
Settled(p) == /\ owed = "none" /\ p \notin forsaken
              /\ \A t \in Open : p \notin Feeds(t)

\* Once its tasks are done, a post that has gone is off every partner's feed, in
\* whatever order adds, removes and their retries came to be sent.
GoneFromFeed == \A p \in Partners : Settled(p) /\ has[p] => Live

\* Once its tasks are done, an Offer that is approved and live is on every
\* partner's feed, unless a failed statement left a first remove, which nothing
\* checks, to be done after tasks that came later.
LiveOnFeed == \A p \in Partners : Settled(p) /\ Live => has[p] \/ overtaken

\* When the post stops changing, every partner's feed comes to agree with it.
FeedConverges ==
    \A p \in Partners : <>[](p \in forsaken \/ has[p] = Live \/ (overtaken /\ Live))
===============================================================================
