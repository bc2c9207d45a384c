---------------------------- MODULE PostFeed_proofs ----------------------------
(***************************************************************************)
(* GoneFromFeed is not inductive: while a task is open the feed may be     *)
(* wrong.  The strengthening, Owing, says that whenever a partner lists a  *)
(* post that has gone, or is about to be sent one, a remove for it is      *)
(* still to be queued, or is open and not yet sent to that partner.  It    *)
(* holds because a post that leaves the feed queues a remove after it has  *)
(* gone, an add is only sent for a post that is live when its handler      *)
(* starts, and a run works on one row at a time.                           *)
(*                                                                         *)
(* LiveOnFeed needs more, because nothing checks a first remove: Arriving  *)
(* says that a live post is listed or an add is still to be sent, and that *)
(* such an add comes after every first remove that is left.  Rows are done *)
(* in the order of their ids (InTurn), which a failing statement breaks.   *)
(***************************************************************************)
EXTENDS PostFeed, TLAPS

\* Every change of Moves that takes the post off the board queues a remove.
TellsOnLeaving ==
    \A m \in Moves : "live" \in Change[m].from /\ Change[m].into # "live"
                        => Change[m].task = "remove"

InFlight(p) == pc = "send" /\ cur.kind = "add" /\ p \in sendto
Unsent(t, p) == t.kind = "remove" /\ p \in Feeds(t) /\ (t = cur => p \in sendto)
ToRemove(p) == owed = "remove" \/ \E t \in Open : Unsent(t, p)
Owing == \A p \in Partners \ forsaken : (has[p] \/ InFlight(p)) /\ ~Live => ToRemove(p)
IInv == TypeOK /\ Owing

-------------------------------------------------------------------------------
(* Type correctness *)

LEMMA RowTyped ==
    ASSUME Fields, NEW kind \in Kinds, NEW feed \in Partners \union {"all"}
    PROVE  /\ Row(kind, feed) \in TaskSet
           /\ Row(kind, feed).id = inserted + 1
           /\ Row(kind, feed).kind = kind /\ Row(kind, feed).feed = feed
BY DEF Row, TaskSet, Fields

LEMMA InitTyped == Init => TypeOK
<1>. SUFFICES ASSUME Init PROVE TypeOK
  OBVIOUS
<1>1. overtaken \in BOOLEAN
  BY Zenon DEF Init
<1>2. Fields
  BY <1>1, FeedAssumption DEF Init, Fields, Posts, Kinds
<1>3. RunShape /\ Ordered
  BY DEF Init, RunShape, Ordered, Open, None
<1>. QED  BY <1>2, <1>3 DEF TypeOK

LEMMA LeaveOpenTyped ==
    ASSUME TypeOK, pc = "send", LeaveOpen, pc' \in {"idle", "next"},
           UNCHANGED <<waiting, inserted>>
    PROVE  /\ queue' \subseteq queue /\ forsaken' \subseteq Partners
           /\ cur' = None /\ sendto' = {} /\ Ordered'
<1>1. cur \in queue /\ cur \in TaskSet
  BY DEF TypeOK, RunShape, Fields
<1>2. Feeds(cur) \subseteq Partners
  BY <1>1 DEF Feeds, TaskSet
<1>3. queue' \subseteq queue /\ forsaken' \subseteq Partners /\ cur' = None /\ sendto' = {}
  BY <1>2 DEF LeaveOpen, TypeOK, Fields
<1>4. Ordered'
  BY <1>3 DEF Ordered, Open, TypeOK
<1>. QED  BY <1>3, <1>4

LEMMA Marked ==
    ASSUME TypeOK, NEW t, (overtaken' = overtaken) \/ PassedOver(t)
    PROVE  overtaken' \in BOOLEAN
<1>1. overtaken \in BOOLEAN
  BY DEF TypeOK, Fields
<1>. QED  BY <1>1, Zenon DEF PassedOver

LEMMA NextTyped == TypeOK /\ [Next]_vars => TypeOK'
<1>. SUFFICES ASSUME TypeOK, [Next]_vars PROVE TypeOK'
  OBVIOUS
<1>. USE DEF TypeOK
<1>1. CASE Move
  <2>1. PICK m \in Moves : post \in Change[m].from /\ post' = Change[m].into /\ owed' = Change[m].task
    BY <1>1 DEF Move
  <2>2. post' \in Posts /\ owed' \in Kinds \union {"none"}
    BY <2>1, FeedAssumption
    DEF Change, Handler, Posts, Kinds, Approve, AutoApprove, Reject, Outcome, Withdraw,
        Delete, Expire, Extend, Back, Draft, Pull, Repost
  <2>3. Fields'
    BY <1>1, <2>2 DEF Move, Fields, rows, run
  <2>4. RunShape' /\ Ordered'
    BY <1>1 DEF Move, RunShape, Ordered, Open, rows, run, Feeds
  <2>. QED  BY <2>3, <2>4
<1>2. CASE Enqueue
  <2>1. CASE inserted' = inserted + 1 /\ queue' = queue \union {Row(owed, "all")} /\ UNCHANGED <<forsaken, budget>>
    <3>1. owed \in Kinds
      BY <1>2 DEF Enqueue, Fields
    <3>2. Row(owed, "all") \in TaskSet /\ Row(owed, "all").id = inserted + 1
      BY <3>1, RowTyped
    <3>3. Fields'
      BY <1>2, <2>1, <3>2 DEF Enqueue, Fields
    <3>4. RunShape'
      BY <1>2, <2>1 DEF Enqueue, RunShape, run, Feeds
    <3>5. Ordered'
      BY <1>2, <2>1, <3>2 DEF Enqueue, Ordered, Open, Fields
    <3>. QED  BY <3>3, <3>4, <3>5
  <2>2. CASE Fault("lost") /\ forsaken' = Partners /\ UNCHANGED <<queue, inserted>>
    BY <1>2, <2>2 DEF Enqueue, Fields, RunShape, Ordered, Open, run, Fault, Feeds
  <2>. QED  BY <1>2, <2>1, <2>2 DEF Enqueue
<1>3. CASE FallDue
  <2>1. PICK t \in waiting : queue' = queue \union {[t EXCEPT !.id = inserted + 1]} /\ waiting' = waiting \ {t}
    BY <1>3 DEF FallDue
  <2>. DEFINE u == [t EXCEPT !.id = inserted + 1]
  <2>2. u \in TaskSet /\ u.id = inserted + 1 /\ queue' = queue \union {u}
    BY <2>1 DEF Fields, TaskSet
  <2>. HIDE DEF u
  <2>3. Fields'
    BY <1>3, <2>1, <2>2 DEF FallDue, Fields
  <2>4. RunShape'
    BY <1>3, <2>1 DEF FallDue, RunShape, run, Feeds
  <2>5. Ordered'
    BY <1>3, <2>1, <2>2 DEF FallDue, Ordered, Open, Fields
  <2>. QED  BY <2>3, <2>4, <2>5
<1>4. CASE Iterate
  <2>1. batch' \subseteq Nat
    BY <1>4 DEF Iterate, Fields, TaskSet
  <2>. QED  BY <1>4, <2>1 DEF Iterate, Fields, RunShape, Ordered, Open, rows
<1>5. CASE BatchDone
  BY <1>5 DEF BatchDone, Fields, RunShape, Ordered, Open, rows
<1>6. CASE Take
  <2>1. PICK t \in queue : /\ batch' = batch \ {t.id} /\ cur' = [t EXCEPT !.tries = @ + 1]
                           /\ queue' = (queue \ {t}) \union {cur'} /\ sendto' = Targets(t)
    BY <1>6 DEF Take
  <2>2. /\ t \in TaskSet /\ cur' \in TaskSet
        /\ cur'.id = t.id /\ cur'.feed = t.feed /\ cur'.kind = t.kind
    BY <2>1 DEF Fields, TaskSet
  <2>3. Fields'
    BY <1>6, <2>1, <2>2 DEF Take, Fields
  <2>4. RunShape'
    BY <1>6, <2>1, <2>2 DEF Take, RunShape, Targets, Feeds
  <2>5. Ordered'
    <3>1. queue' = (queue \ {t}) \union {cur'} /\ waiting' = waiting /\ inserted' = inserted
      BY <1>6, <2>1 DEF Take
    <3>2. t \in queue /\ t \notin waiting /\ \A u \in Open : u.id = t.id => u = t
      BY DEF Ordered, Open
    <3>3. cur' \notin waiting /\ \A u \in Open : u.id = cur'.id => u = t
      BY <2>2, <3>2 DEF Open
    <3>. QED  BY <2>2, <3>1, <3>2, <3>3 DEF Ordered, Open
  <2>. QED  BY <2>3, <2>4, <2>5
<1>7. CASE TakeFails
  <2>1. PICK t \in queue : /\ batch' = batch \ {t.id}
                           /\ \/ queue' = queue \ {t} /\ forsaken' = forsaken \union Feeds(t)
                              \/ UNCHANGED <<queue, forsaken>>
                           /\ (overtaken' = overtaken) \/ PassedOver(t)
    BY <1>7 DEF TakeFails
  <2>5. overtaken' \in BOOLEAN
    BY <2>1, Marked
  <2>2. Feeds(t) \subseteq Partners
    BY DEF Feeds, Fields, TaskSet
  <2>3. Fields'
    BY <1>7, <2>1, <2>2, <2>5 DEF TakeFails, Fields, Fault
  <2>4. RunShape' /\ Ordered'
    BY <1>7, <2>1 DEF TakeFails, RunShape, Ordered, Open
  <2>. QED  BY <2>3, <2>4
<1>8. ASSUME NEW p \in Partners, Send(p) PROVE TypeOK'
  <2>1. cur \in TaskSet /\ cur \in queue /\ sendto \subseteq Feeds(cur)
    BY <1>8 DEF Send, RunShape, Fields
  <2>2. has' \in [Partners -> BOOLEAN] /\ budget' \in Nat
    <3>1. has' = has \/ Applied(p)
      BY <1>8 DEF Send
    <3>2. budget' = budget \/ (budget > 0 /\ budget' = budget - 1)
      BY <1>8 DEF Send, Fault
    <3>3. has' \in [Partners -> BOOLEAN]
      <4>1. ASSUME Applied(p) PROVE has' = [has EXCEPT ![p] = TRUE] \/ has' = [has EXCEPT ![p] = FALSE]
        BY <4>1 DEF Applied
      <4>. QED  BY <3>1, <4>1 DEF Fields
    <3>. QED  BY <3>2, <3>3 DEF Fields
  <2>5. overtaken' \in BOOLEAN
    <3>1. (overtaken' = overtaken) \/ PassedOver(cur)
      BY <1>8 DEF Send, Retry
    <3>. QED  BY <3>1, Marked
  <2>3. CASE UNCHANGED <<rows, pc, cur>> /\ sendto' = sendto \ {p} /\ forsaken' \in {forsaken, forsaken \union {p}}
    BY <1>8, <2>1, <2>2, <2>3, <2>5 DEF Send, Fields, RunShape, Ordered, Open, rows, Feeds
  <2>4. CASE Retry(p)
    <3>1. CASE /\ inserted' = inserted + 1 /\ waiting' = waiting \union {Row(cur.kind, p)}
               /\ sendto' = sendto \ {p} /\ UNCHANGED <<queue, pc, cur, forsaken>>
      <4>1. cur.kind \in Kinds
        BY <2>1 DEF TaskSet
      <4>2. Row(cur.kind, p) \in TaskSet /\ Row(cur.kind, p).id = inserted + 1
        BY <4>1, RowTyped
      <4>3. Fields'
        BY <1>8, <2>2, <2>5, <3>1, <4>2 DEF Send, Fields
      <4>4. RunShape'
        BY <1>8, <3>1 DEF Send, RunShape, Feeds
      <4>5. Ordered'
        BY <3>1, <4>2 DEF Ordered, Open, Fields
      <4>. QED  BY <4>3, <4>4, <4>5
    <3>2. CASE pc' = "next" /\ LeaveOpen /\ UNCHANGED <<waiting, inserted>>
      <4>1. /\ queue' \subseteq queue /\ forsaken' \subseteq Partners
            /\ cur' = None /\ sendto' = {} /\ Ordered'
        BY <1>8, <3>2, LeaveOpenTyped DEF Send
      <4>. QED  BY <1>8, <2>2, <2>5, <3>2, <4>1 DEF Send, Fields, RunShape
    <3>. QED  BY <2>4, <3>1, <3>2 DEF Retry
  <2>. QED  BY <1>8, <2>3, <2>4 DEF Send
<1>9. CASE Close
  <2>3. overtaken' \in BOOLEAN
    <3>1. (overtaken' = overtaken) \/ PassedOver(cur)
      BY <1>9 DEF Close
    <3>. QED  BY <3>1, Marked
  <2>1. CASE queue' = queue \ {cur} /\ cur' = None /\ UNCHANGED <<sendto, forsaken, budget>>
    BY <1>9, <2>1, <2>3 DEF Close, Fields, RunShape, Ordered, Open
  <2>2. CASE Fault("db") /\ LeaveOpen
    <3>1. /\ queue' \subseteq queue /\ forsaken' \subseteq Partners
          /\ cur' = None /\ sendto' = {} /\ Ordered'
      BY <1>9, <2>2, LeaveOpenTyped DEF Close
    <3>. QED  BY <1>9, <2>2, <2>3, <3>1 DEF Close, Fields, RunShape, Fault
  <2>. QED  BY <1>9, <2>1, <2>2 DEF Close
<1>10. CASE Crash
  <2>1. CASE pc = "send" /\ LeaveOpen
    <3>1. /\ queue' \subseteq queue /\ forsaken' \subseteq Partners
          /\ cur' = None /\ sendto' = {} /\ Ordered'
      BY <1>10, <2>1, LeaveOpenTyped DEF Crash
    <3>. QED  BY <1>10, <2>1, <3>1 DEF Crash, Fields, RunShape, Fault
  <2>2. CASE pc # "send" /\ UNCHANGED <<queue, forsaken, cur, sendto>>
    BY <1>10, <2>2 DEF Crash, Fields, RunShape, Ordered, Open, Fault
  <2>. QED  BY <1>10, <2>1, <2>2 DEF Crash
<1>11. CASE UNCHANGED vars
  BY <1>11 DEF vars, rows, run, Fields, RunShape, Ordered, Open, Feeds
<1>. QED
  BY <1>1, <1>2, <1>3, <1>4, <1>5, <1>6, <1>7, <1>8, <1>9, <1>10, <1>11 DEF Next, Work

\* For any partners, changes to the post and budget of faults, a row keeps one
\* place in the order of created_at, and is sent only while it is open and only to
\* the partners it is meant for.
THEOREM Typing == Spec => []TypeOK
BY InitTyped, NextTyped, PTL DEF Spec
-------------------------------------------------------------------------------
(* GoneFromFeed *)

\* Rows are left alone, or only the row being worked on is closed: what was still
\* to be sent to p stays to be sent, or p has been given up on.
LEMMA LeaveOpenOwing ==
    ASSUME TypeOK, pc = "send", LeaveOpen, waiting \subseteq waiting', owed' = owed,
           NEW p \in Partners \ forsaken', ToRemove(p)
    PROVE  ToRemove(p)'
<1>1. CASE owed = "remove"
  BY <1>1 DEF ToRemove
<1>2. CASE \E t \in Open : Unsent(t, p)
  <2>1. PICK t \in Open : Unsent(t, p)
    BY <1>2
  <2>2. cur' = None /\ t # None
    BY <2>1 DEF LeaveOpen, Unsent, None
  <2>3. t \in Open'
    <3>1. CASE UNCHANGED queue
      BY <3>1 DEF Open
    <3>2. CASE queue' = queue \ {cur} /\ forsaken' = forsaken \union Feeds(cur)
      <4>1. t # cur
        BY <2>1, <3>2 DEF Unsent
      <4>. QED  BY <3>2, <4>1 DEF Open
    <3>. QED  BY <3>1, <3>2 DEF LeaveOpen
  <2>. QED  BY <2>1, <2>2, <2>3 DEF ToRemove, Unsent, Feeds
<1>. QED  BY <1>1, <1>2 DEF ToRemove

LEMMA InitOwing == Init => Owing
BY DEF Init, Owing, InFlight

LEMMA NextOwing ==
    ASSUME TellsOnLeaving, TypeOK, Owing, [Next]_vars
    PROVE  Owing'
<1>. SUFFICES ASSUME NEW p \in Partners \ forsaken', has'[p] \/ InFlight(p)', ~Live'
              PROVE  ToRemove(p)'
  BY DEF Owing
<1>1. CASE Move
  <2>1. PICK m \in Moves : post \in Change[m].from /\ post' = Change[m].into /\ owed' = Change[m].task
    BY <1>1 DEF Move
  <2>2. owed = "none" /\ UNCHANGED <<queue, waiting, cur, sendto, pc, has, forsaken>>
    BY <1>1 DEF Move, rows, run
  <2>3. CASE Live
    BY <2>1, <2>3 DEF Live, TellsOnLeaving, ToRemove
  <2>4. CASE ~Live
    <3>1. ToRemove(p)
      BY <2>2, <2>4 DEF Owing, InFlight
    <3>2. PICK t \in Open : Unsent(t, p)
      BY <2>2, <3>1 DEF ToRemove
    <3>. QED  BY <2>2, <3>2 DEF ToRemove, Unsent, Open, Feeds
  <2>. QED  BY <2>3, <2>4
<1>2. CASE Enqueue
  <2>1. owed' = "none" /\ UNCHANGED <<post, waiting, cur, sendto, pc, has>>
    BY <1>2 DEF Enqueue, run
  <2>2. queue' = queue \union {Row(owed, "all")} /\ forsaken' = forsaken
    BY <1>2 DEF Enqueue
  <2>3. ToRemove(p)
    BY <2>1, <2>2 DEF Owing, InFlight, Live
  <2>4. CASE owed = "remove"
    <3>. DEFINE r == Row(owed, "all")
    <3>1. r.kind = "remove" /\ r.feed = "all" /\ r.id = inserted + 1
      BY <2>4 DEF Row
    <3>2. r # cur
      <4>1. r \in TaskSet /\ inserted \in Nat
        BY <2>4, RowTyped DEF TypeOK, Fields, Kinds
      <4>2. cur = None \/ cur.id \in 1..inserted
        BY DEF TypeOK, RunShape, Ordered, Open
      <4>. QED  BY <3>1, <4>1, <4>2 DEF None
    <3>3. r \in Open'
      BY <2>2 DEF Open
    <3>. HIDE DEF r
    <3>. QED  BY <2>1, <3>1, <3>2, <3>3 DEF ToRemove, Unsent, Feeds
  <2>5. CASE owed # "remove"
    <3>1. PICK t \in Open : Unsent(t, p)
      BY <2>3, <2>5 DEF ToRemove
    <3>2. t \in Open'
      BY <2>1, <2>2 DEF Open
    <3>. QED  BY <2>1, <3>1, <3>2 DEF ToRemove, Unsent, Feeds
  <2>. QED  BY <2>4, <2>5
<1>3. CASE FallDue
  <2>1. PICK t \in waiting : queue' = queue \union {[t EXCEPT !.id = inserted + 1]} /\ waiting' = waiting \ {t}
    BY <1>3 DEF FallDue
  <2>. DEFINE u == [t EXCEPT !.id = inserted + 1]
  <2>2. /\ u.kind = t.kind /\ u.feed = t.feed /\ u.id = inserted + 1
        /\ u \in Open' /\ Open \ {t} \subseteq Open'
    BY <2>1 DEF Open, TypeOK, Fields, TaskSet
  <2>. HIDE DEF u
  <2>3. UNCHANGED <<post, owed, cur, sendto, pc, has, forsaken>>
    BY <1>3 DEF FallDue, run
  <2>4. ToRemove(p)
    BY <2>3 DEF Owing, InFlight, Live
  <2>5. u # cur
    <3>1. cur = None \/ cur.id \in 1..inserted
      BY DEF TypeOK, RunShape, Ordered, Open
    <3>2. inserted \in Nat
      BY DEF TypeOK, Fields
    <3>. QED  BY <2>2, <3>1, <3>2 DEF None
  <2>6. CASE owed = "remove"
    BY <2>3, <2>6 DEF ToRemove
  <2>7. ASSUME NEW v \in Open, Unsent(v, p) PROVE ToRemove(p)'
    <3>1. CASE v = t
      BY <2>2, <2>3, <2>5, <2>7, <3>1 DEF ToRemove, Unsent, Feeds
    <3>2. CASE v # t
      BY <2>2, <2>3, <2>7, <3>2 DEF ToRemove, Unsent, Feeds
    <3>. QED  BY <3>1, <3>2
  <2>. QED  BY <2>4, <2>6, <2>7 DEF ToRemove
<1>4. CASE Iterate \/ BatchDone
  <2>1. /\ UNCHANGED <<post, owed, queue, waiting, cur, sendto, has, forsaken>>
        /\ pc # "send" /\ pc' # "send"
    BY <1>4 DEF Iterate, BatchDone, rows
  <2>2. ToRemove(p)
    BY <2>1 DEF Owing, InFlight, Live
  <2>. QED  BY <2>1, <2>2 DEF ToRemove, Unsent, Open, Feeds
<1>5. CASE Take
  <2>1. PICK t \in queue : /\ cur' = [t EXCEPT !.tries = @ + 1]
                           /\ queue' = (queue \ {t}) \union {cur'} /\ sendto' = Targets(t)
    BY <1>5 DEF Take
  <2>2. cur'.kind = t.kind /\ cur'.feed = t.feed /\ cur'.id = t.id
    BY <2>1 DEF TypeOK, Fields, TaskSet
  <2>3. pc = "next" /\ UNCHANGED <<post, owed, waiting, has, forsaken>>
    BY <1>5 DEF Take
  <2>4. ~Live
    BY <2>3 DEF Live
  <2>5. ~InFlight(p)'
    BY <2>1, <2>2, <2>4 DEF InFlight, Targets
  <2>6. ToRemove(p)
    BY <2>3, <2>4, <2>5 DEF Owing
  <2>7. CASE owed = "remove"
    BY <2>3, <2>7 DEF ToRemove
  <2>8. ASSUME NEW v \in Open, Unsent(v, p) PROVE ToRemove(p)'
    <3>0. /\ queue' = (queue \ {t}) \union {cur'} /\ sendto' = Targets(t)
          /\ \A w \in Open : w.id = t.id => w = t
      BY <2>1 DEF TypeOK, Ordered, Open
    <3>1. CASE v = t
      <4>1. p \in sendto'
        BY <2>4, <2>8, <3>0, <3>1 DEF Unsent, Targets
      <4>2. cur' \in Open' /\ cur'.kind = "remove" /\ p \in Feeds(t)
        BY <2>2, <2>8, <3>0, <3>1 DEF Unsent, Open
      <4>. QED  BY <2>2, <4>1, <4>2 DEF ToRemove, Unsent, Feeds
    <3>2. CASE v # t
      <4>1. v \in Open' /\ v # cur'
        BY <2>2, <2>3, <2>8, <3>0, <3>2 DEF Open
      <4>. QED  BY <2>8, <4>1 DEF ToRemove, Unsent, Feeds
    <3>. QED  BY <3>1, <3>2
  <2>. QED  BY <2>6, <2>7, <2>8 DEF ToRemove
<1>6. CASE TakeFails
  <2>1. PICK t \in queue : \/ queue' = queue \ {t} /\ forsaken' = forsaken \union Feeds(t)
                           \/ UNCHANGED <<queue, forsaken>>
    BY <1>6 DEF TakeFails
  <2>2. UNCHANGED <<post, owed, waiting, pc, cur, sendto, has>>
    BY <1>6 DEF TakeFails
  <2>3. ToRemove(p)
    BY <2>1, <2>2 DEF Owing, InFlight, Live
  <2>4. ASSUME NEW v \in Open, Unsent(v, p) PROVE v \in Open'
    BY <2>1, <2>2, <2>4 DEF Open, Unsent
  <2>. QED  BY <2>2, <2>3, <2>4 DEF ToRemove, Unsent, Feeds
<1>7. ASSUME NEW q \in Partners, Send(q) PROVE ToRemove(p)'
  <2>1. pc = "send" /\ q \in sendto /\ UNCHANGED <<post, owed>>
    BY <1>7 DEF Send
  <2>2. cur \in queue /\ cur \in TaskSet
    BY <2>1 DEF TypeOK, RunShape, Fields
  <2>3. \/ UNCHANGED rows /\ Applied(q)
        \/ UNCHANGED rows /\ q \in forsaken' /\ has' = has
        \/ /\ inserted' = inserted + 1 /\ UNCHANGED queue
           /\ waiting' = waiting \union {Row(cur.kind, q)}
        \/ LeaveOpen /\ UNCHANGED waiting /\ pc' = "next"
    BY <1>7 DEF Send, Retry
  <2>4. \/ LeaveOpen /\ UNCHANGED waiting
        \/ sendto' = sendto \ {q} /\ UNCHANGED <<pc, cur, queue>> /\ waiting \subseteq waiting'
    BY <1>7 DEF Send, Retry, rows
  <2>5. p \notin forsaken
    BY <1>7 DEF Send, Retry, LeaveOpen
  <2>6. ToRemove(p)
    <3>1. has' = has \/ (has' = [has EXCEPT ![q] = cur.kind = "add"])
      BY <1>7 DEF Send, Applied
    <3>2. has'[p] => has[p] \/ InFlight(p)
      <4>1. CASE has' = has
        BY <4>1
      <4>2. CASE has' = [has EXCEPT ![q] = cur.kind = "add"]
        BY <2>1, <4>2 DEF InFlight, TypeOK, Fields
      <4>. QED  BY <3>1, <4>1, <4>2
    <3>3. InFlight(p)' => InFlight(p)
      BY <2>1, <2>4 DEF InFlight, LeaveOpen, None
    <3>. QED  BY <2>1, <2>5, <3>2, <3>3 DEF Owing, Live
  <2>7. CASE LeaveOpen /\ UNCHANGED waiting
    BY <2>1, <2>6, <2>7, LeaveOpenOwing
  <2>8. CASE sendto' = sendto \ {q} /\ UNCHANGED <<pc, cur, queue>> /\ waiting \subseteq waiting'
    <3>1. CASE owed = "remove"
      BY <2>1, <3>1 DEF ToRemove
    <3>2. ASSUME NEW t \in Open, Unsent(t, p) PROVE ToRemove(p)'
      <4>1. t \in Open'
        BY <2>8 DEF Open
      <4>2. CASE ~(t = cur /\ p = q)
        BY <2>8, <3>2, <4>1, <4>2 DEF ToRemove, Unsent, Feeds
      <4>3. CASE t = cur /\ p = q
        <5>1. cur.kind = "remove"
          BY <3>2, <4>3 DEF Unsent
        <5>2. ~Applied(q)
          BY <2>8, <4>3, <5>1 DEF Applied, InFlight, TypeOK, Fields
        <5>3. ~LeaveOpen
          BY <2>2, <2>8 DEF LeaveOpen, None, TaskSet, Kinds
        <5>4. waiting' = waiting \union {Row(cur.kind, q)}
          BY <2>3, <4>3, <5>2, <5>3
        <5>. DEFINE r == Row(cur.kind, q)
        <5>5. r.kind = "remove" /\ r.feed = q /\ r.id = inserted + 1
          BY <5>1 DEF Row
        <5>6. cur.id \in 1..inserted /\ inserted \in Nat
          BY <2>2 DEF TypeOK, Ordered, Open, Fields
        <5>7. r # cur
          BY <5>5, <5>6
        <5>8. r \in Open'
          BY <5>4 DEF Open
        <5>. HIDE DEF r
        <5>. QED  BY <2>8, <4>3, <5>5, <5>7, <5>8 DEF ToRemove, Unsent, Feeds
      <4>. QED  BY <4>2, <4>3
    <3>. QED  BY <2>6, <3>1, <3>2 DEF ToRemove
  <2>. QED  BY <2>4, <2>7, <2>8
<1>8. CASE Close
  <2>1. pc = "send" /\ sendto = {} /\ pc' = "next" /\ UNCHANGED <<post, owed, waiting, has>>
    BY <1>8 DEF Close
  <2>2. p \notin forsaken
    BY <1>8 DEF Close, LeaveOpen
  <2>3. ToRemove(p)
    BY <2>1, <2>2 DEF Owing, InFlight, Live
  <2>4. CASE queue' = queue \ {cur} /\ cur' = None /\ UNCHANGED sendto
    <3>1. ASSUME NEW t \in Open, Unsent(t, p) PROVE t \in Open' /\ Unsent(t, p)'
      BY <2>1, <2>4, <3>1 DEF Unsent, Open, Feeds, None
    <3>. QED  BY <2>1, <2>3, <3>1 DEF ToRemove
  <2>5. CASE LeaveOpen
    BY <2>1, <2>3, <2>5, LeaveOpenOwing
  <2>. QED  BY <1>8, <2>4, <2>5 DEF Close
<1>9. CASE Crash
  <2>1. pc' = "idle" /\ UNCHANGED <<post, owed, waiting, has>>
    BY <1>9 DEF Crash
  <2>2. p \notin forsaken
    BY <1>9 DEF Crash, LeaveOpen
  <2>3. ToRemove(p)
    BY <2>1, <2>2 DEF Owing, InFlight, Live
  <2>4. CASE pc = "send" /\ LeaveOpen
    BY <2>1, <2>3, <2>4, LeaveOpenOwing
  <2>5. CASE UNCHANGED <<queue, cur, sendto>>
    BY <2>1, <2>3, <2>5 DEF ToRemove, Unsent, Open, Feeds
  <2>. QED  BY <1>9, <2>4, <2>5 DEF Crash
<1>10. CASE UNCHANGED vars
  BY <1>10 DEF vars, rows, run, Owing, InFlight, Live, ToRemove, Unsent, Open, Feeds
<1>. QED
  BY <1>1, <1>2, <1>3, <1>4, <1>5, <1>6, <1>7, <1>8, <1>9, <1>10 DEF Next, Work

\* If every change that takes the post off the board queues a remove, then once its
\* tasks are done a post that has gone is off every partner's feed: for any number
\* of partners, retries and changes, and any faults, short of a task given up on.
THEOREM Gone ==
    ASSUME TellsOnLeaving
    PROVE  Spec => []GoneFromFeed
<1>1. Init => IInv
  BY InitTyped, InitOwing DEF IInv
<1>2. IInv /\ [Next]_vars => IInv'
  BY NextTyped, NextOwing DEF IInv
<1>3. IInv => GoneFromFeed
  BY DEF IInv, Owing, GoneFromFeed, Settled, ToRemove, Unsent
<1>. QED  BY <1>1, <1>2, <1>3, PTL DEF Spec

-------------------------------------------------------------------------------
(* LiveOnFeed *)

\* Every change of Moves that puts the post on the board queues an add.
TellsOnEntering ==
    \A m \in Moves : Change[m].into = "live" => Change[m].task = "add"

First(t) == t.kind = "remove" /\ t.feed = "all"

\* The run takes first removes in their turn, unless a failed statement left one behind: no
\* row after it is being worked on, or is in the batch without it.
Retries == \A t \in waiting : t.feed \in Partners
Known == \A i \in batch : i <= inserted
InTurn ==
    overtaken \/ \A r \in queue : First(r) =>
                    /\ r.id \in batch \/ r = cur \/ \A i \in batch : i < r.id
                    /\ pc = "send" => cur.id <= r.id
Turns == Retries /\ Known /\ InTurn

\* What is still to be sent to p: removes that nothing will check, and adds.
Taking(r, p) == First(r) \/ (r = cur /\ r.kind = "remove" /\ p \in sendto)
Coming(t, p) == t.kind = "add" /\ p \in Feeds(t) /\ (t = cur => p \in sendto)
Listed(p) == has[p] \/ \E t \in Open : Coming(t, p)
Followed(p) == \A r \in queue : Taking(r, p) => \E t \in Open : Coming(t, p) /\ t.id > r.id
Arriving ==
    \A p \in Partners \ forsaken :
        Live /\ owed = "none" /\ ~overtaken => Listed(p) /\ Followed(p)
Owes == Live => owed \in {"none", "add"}
FInv == TypeOK /\ Turns /\ Owes /\ Arriving

LEMMA NotPassed ==
    ASSUME NEW t, ~overtaken', overtaken' = overtaken \/ PassedOver(t)
    PROVE  ~overtaken /\ (PassedOver(t) => ~First(t))
<1>1. PassedOver(t) => ~overtaken /\ ~First(t)
  BY DEF PassedOver, First
<1>2. (overtaken' = overtaken) => ~overtaken
  OBVIOUS
<1>. QED  BY <1>1, <1>2

\* A row that a failing statement leaves: nothing of the batch changes but for overtaken.
LEMMA LeftInTurn ==
    ASSUME TypeOK, pc = "send", InTurn, LeaveOpen, PassedOver(cur), pc' = "next", batch' = batch
    PROVE  InTurn'
<1>. SUFFICES ASSUME ~overtaken', NEW r \in queue', First(r)
              PROVE  r.id \in batch \/ \A i \in batch : i < r.id
  BY DEF InTurn, First
<1>1. queue' \subseteq queue
  BY DEF LeaveOpen
<1>2. ~First(cur) /\ ~overtaken
  BY DEF PassedOver, First
<1>. QED  BY <1>1, <1>2 DEF InTurn

LEMMA NextRetries ==
    ASSUME TypeOK, Retries, [Next]_vars
    PROVE  Retries'
<1>1. ASSUME NEW p \in Partners, Retry(p)
      PROVE  waiting' \subseteq waiting \union {Row(cur.kind, p)}
  BY <1>1 DEF Retry
<1>2. \A p \in Partners : Row(cur.kind, p).feed = p
  BY DEF Row
<1>3. waiting' \subseteq waiting \/ \E p \in Partners : waiting' \subseteq waiting \union {Row(cur.kind, p)}
  BY <1>1 DEF Next, Move, Enqueue, FallDue, Work, Iterate, BatchDone, Take, TakeFails, Send, Close,
              Crash, vars, rows
<1>. QED  BY <1>2, <1>3 DEF Retries

LEMMA NextKnown ==
    ASSUME TypeOK, Known, [Next]_vars
    PROVE  Known'
<1>1. inserted \in Nat /\ batch \subseteq Nat
  BY DEF TypeOK, Fields, RunShape
<1>2. CASE Iterate
  <2>1. \A i \in batch' : \E t \in queue : i = t.id
    BY <1>2 DEF Iterate
  <2>2. \A t \in queue : t.id <= inserted
    BY DEF TypeOK, Ordered, Open
  <2>. QED  BY <1>2, <2>1, <2>2 DEF Iterate, rows, Known
<1>3. CASE ~Iterate
  <2>1. batch' \subseteq batch
    BY <1>3 DEF Next, Move, Enqueue, FallDue, Work, BatchDone, Take, TakeFails, Send, Close,
                Crash, vars, run
  <2>2. inserted' = inserted \/ inserted' = inserted + 1
    BY <1>3 DEF Next, Move, Enqueue, FallDue, Work, BatchDone, Take, TakeFails, Send, Retry, Close,
                Crash, vars, rows
  <2>. QED  BY <1>1, <2>1, <2>2 DEF Known
<1>. QED  BY <1>2, <1>3

LEMMA NextInTurn ==
    ASSUME TypeOK, TypeOK', Turns, [Next]_vars
    PROVE  InTurn'
<1>0. /\ \A t \in queue : t.id \in 1..inserted /\ t # None
      /\ inserted \in Nat /\ batch \subseteq Nat
      /\ pc = "send" => cur \in queue
      /\ pc # "send" => cur = None
  BY DEF TypeOK, Fields, RunShape, Ordered, Open, None, TaskSet, Kinds
<1>1. CASE UNCHANGED <<queue, batch, cur, pc, overtaken>>
  BY <1>1 DEF Turns, InTurn
<1>2. CASE Enqueue
  <2>1. UNCHANGED <<batch, cur, pc, overtaken>>
    BY <1>2 DEF Enqueue, run
  <2>2. queue' = queue \/ queue' = queue \union {Row(owed, "all")}
    BY <1>2 DEF Enqueue
  <2>3. Row(owed, "all").id = inserted + 1
    BY DEF Row
  <2>4. \A i \in batch : i < inserted + 1
    BY <1>0 DEF Turns, Known
  <2>. QED  BY <1>0, <2>1, <2>2, <2>3, <2>4 DEF Turns, InTurn
<1>3. CASE FallDue
  <2>1. PICK t \in waiting : queue' = queue \union {[t EXCEPT !.id = inserted + 1]}
    BY <1>3 DEF FallDue
  <2>2. ~First([t EXCEPT !.id = inserted + 1])
    <3>1. t \in TaskSet /\ t.feed # "all"
      BY FeedAssumption DEF TypeOK, Fields, Turns, Retries
    <3>. QED  BY <3>1 DEF First, TaskSet
  <2>3. UNCHANGED <<batch, cur, pc, overtaken>>
    BY <1>3 DEF FallDue, run
  <2>. QED  BY <2>1, <2>2, <2>3 DEF Turns, InTurn
<1>4. CASE Iterate
  <2>1. PICK last \in queue : batch' = {t.id : t \in {u \in queue : u.id <= last.id}}
    BY <1>4 DEF Iterate
  <2>2. UNCHANGED <<queue, cur, overtaken>> /\ pc' = "next"
    BY <1>4 DEF Iterate, rows
  <2>3. ASSUME NEW r \in queue
        PROVE  r.id \in batch' \/ \A i \in batch' : i < r.id
    <3>1. r.id \in Nat /\ last.id \in Nat /\ \A i \in batch' : i \in Nat /\ i <= last.id
      BY <1>0, <2>1
    <3>2. r.id <= last.id => r.id \in batch'
      BY <2>1
    <3>. QED  BY <3>1, <3>2
  <2>. QED  BY <2>2, <2>3 DEF InTurn
<1>5. CASE BatchDone
  BY <1>5 DEF BatchDone, Turns, InTurn, rows
<1>6. CASE Take
  <2>1. PICK t \in queue : /\ t.id \in batch /\ \A i \in batch : t.id <= i
                           /\ batch' = batch \ {t.id}
                           /\ cur' = [t EXCEPT !.tries = @ + 1]
                           /\ queue' = (queue \ {t}) \union {cur'}
    BY <1>6 DEF Take
  <2>2. cur'.id = t.id /\ cur = None /\ overtaken' = overtaken
    BY <1>0, <1>6, <2>1 DEF Take, TypeOK, Fields, TaskSet
  <2>. SUFFICES ASSUME ~overtaken', NEW r \in queue', First(r)
                PROVE  /\ r.id \in batch' \/ r = cur' \/ \A i \in batch' : i < r.id
                       /\ cur'.id <= r.id
    BY DEF InTurn
  <2>3. CASE r = cur'
    BY <1>0, <2>2, <2>3
  <2>4. CASE r # cur'
    <3>1. r \in queue /\ r # t
      BY <2>1, <2>4
    <3>2. r.id # t.id
      BY <3>1 DEF TypeOK, Ordered, Open
    <3>3. r.id \in batch \/ \A i \in batch : i < r.id
      BY <1>0, <2>2, <3>1 DEF Turns, InTurn
    <3>. QED  BY <1>0, <2>1, <2>2, <3>1, <3>2, <3>3
  <2>. QED  BY <2>3, <2>4
<1>7. CASE TakeFails
  <2>1. PICK t \in queue : /\ batch' = batch \ {t.id}
                           /\ \/ queue' = queue \ {t}
                              \/ queue' = queue /\ PassedOver(t)
    BY <1>7 DEF TakeFails
  <2>2. pc' = "next"
    BY <1>7 DEF TakeFails
  <2>5. cur = None /\ (overtaken' = overtaken \/ PassedOver(t))
    BY <1>0, <1>7, <2>1 DEF TakeFails
  <2>. SUFFICES ASSUME ~overtaken', NEW r \in queue', First(r)
                PROVE  r.id \in batch' \/ \A i \in batch' : i < r.id
    BY <2>2 DEF InTurn, First
  <2>6. ~overtaken /\ (PassedOver(t) => ~First(t))
    BY <2>5, NotPassed
  <2>3. r \in queue /\ r # t
    BY <2>1, <2>6
  <2>4. r.id # t.id
    BY <2>3 DEF TypeOK, Ordered, Open
  <2>. QED  BY <1>0, <2>1, <2>3, <2>4, <2>5, <2>6 DEF Turns, InTurn
<1>8. ASSUME NEW q \in Partners, Send(q)
      PROVE  InTurn'
  <2>1. pc = "send" /\ batch' = batch
    BY <1>8 DEF Send
  <2>2. \/ UNCHANGED <<queue, batch, cur, pc, overtaken>>
        \/ pc' = "next" /\ LeaveOpen /\ PassedOver(cur)
    BY <1>8 DEF Send, Retry, rows
  <2>. QED  BY <1>1, <2>1, <2>2, LeftInTurn DEF Turns
<1>9. CASE Close
  <2>1. pc = "send" /\ pc' = "next" /\ batch' = batch
    BY <1>9 DEF Close
  <2>2. CASE queue' = queue \ {cur} /\ cur' = None /\ overtaken' = overtaken
    BY <1>0, <2>1, <2>2 DEF Turns, InTurn
  <2>3. CASE LeaveOpen /\ PassedOver(cur)
    BY <2>1, <2>3, LeftInTurn DEF Turns
  <2>. QED  BY <1>9, <2>2, <2>3 DEF Close
<1>10. CASE Crash
  BY <1>10 DEF Crash, InTurn
<1>. QED
  BY <1>1, <1>2, <1>3, <1>4, <1>5, <1>6, <1>7, <1>8, <1>9, <1>10
  DEF Next, Work, Move, rows, run, vars

\* What a step has to keep: a row that comes to p comes still, or has come before any remove
\* that is left, and no remove is new.
LEMMA ArrivingKept ==
    ASSUME TypeOK, TypeOK', NEW p \in Partners, Listed(p), Followed(p),
           has[p] => has'[p] \/ \E t \in Open' : Coming(t, p)',
           \A t \in Open : Coming(t, p) =>
              \/ \E u \in Open' : Coming(u, p)' /\ u.id >= t.id
              \/ has'[p] /\ \A r \in queue' : Taking(r, p)' => r.id >= t.id,
           \A r \in queue' : Taking(r, p)' => \E s \in queue : Taking(s, p) /\ s.id = r.id
    PROVE  Listed(p)' /\ Followed(p)'
<1>1. Listed(p)'
  BY DEF Listed
<1>2. ASSUME NEW r \in queue', Taking(r, p)'
      PROVE  \E u \in Open' : Coming(u, p)' /\ u.id > r.id
  <2>1. PICK s \in queue : Taking(s, p) /\ s.id = r.id
    BY <1>2
  <2>2. PICK t \in Open : Coming(t, p) /\ t.id > s.id
    BY <2>1 DEF Followed
  <2>3. s.id \in Int /\ t.id \in Int /\ \A u \in Open' : u.id \in Int
    BY DEF TypeOK, Ordered, Open
  <2>4. CASE \E u \in Open' : Coming(u, p)' /\ u.id >= t.id
    BY <2>1, <2>2, <2>3, <2>4
  <2>5. CASE \A v \in queue' : Taking(v, p)' => v.id >= t.id
    BY <1>2, <2>1, <2>2, <2>3, <2>5
  <2>. QED  BY <2>2, <2>4, <2>5
<1>. QED  BY <1>1, <1>2 DEF Followed

\* A row that is left open for a later batch, or closed for good.
LEMMA LeftArriving ==
    ASSUME TypeOK, TypeOK', pc = "send", LeaveOpen, waiting' = waiting,
           NEW p \in Partners \ forsaken'
    PROVE  /\ \A t \in Open : Coming(t, p) => t \in Open' /\ Coming(t, p)'
           /\ \A r \in queue' : Taking(r, p)' => r \in queue /\ Taking(r, p)
<1>1. /\ cur' = None /\ queue' \subseteq queue
      /\ \/ queue' = queue
         \/ queue' = queue \ {cur} /\ forsaken' = forsaken \union Feeds(cur)
  BY DEF LeaveOpen
<1>2. \A t \in Open : t # None
  BY DEF TypeOK, Fields, Open, None, TaskSet, Kinds
<1>3. ASSUME NEW t \in Open, Coming(t, p)
      PROVE  t \in Open' /\ Coming(t, p)'
  <2>1. t = cur => p \in Feeds(cur)
    BY <1>3 DEF Coming
  <2>2. t \in Open'
    BY <1>1, <2>1 DEF Open
  <2>. QED  BY <1>1, <1>2, <1>3, <2>2 DEF Coming, Feeds
<1>4. ASSUME NEW r \in queue', Taking(r, p)'
      PROVE  r \in queue /\ Taking(r, p)
  BY <1>1, <1>2, <1>4 DEF Taking, First, Open
<1>. QED  BY <1>3, <1>4

LEMMA NextOwes ==
    ASSUME TellsOnEntering, TypeOK, Owes, [Next]_vars
    PROVE  Owes'
<1>1. CASE Move
  <2>1. PICK m \in Moves : post' = Change[m].into /\ owed' = Change[m].task
    BY <1>1 DEF Move
  <2>. QED  BY <2>1 DEF TellsOnEntering, Owes, Live
<1>2. CASE ~Move
  <2>1. post' = post /\ (owed' = owed \/ owed' = "none")
    BY <1>2 DEF Next, Enqueue, FallDue, Work, Iterate, BatchDone, Take, TakeFails, Send, Close, Crash,
                vars
  <2>. QED  BY <2>1 DEF Owes, Live
<1>. QED  BY <1>1, <1>2

LEMMA SendArriving ==
    ASSUME TypeOK, TypeOK', InTurn, ~overtaken, NEW q \in Partners, Send(q),
           NEW p \in Partners \ forsaken', Listed(p), Followed(p)
    PROVE  Listed(p)' /\ Followed(p)'
<1>0. /\ pc = "send" /\ q \in sendto /\ cur \in queue /\ cur \in TaskSet /\ cur \in Open
      /\ has \in [Partners -> BOOLEAN]
      /\ \A t, u \in Open : t.id = u.id => t = u
      /\ \A t \in Open : t.id \in Nat
  BY DEF Send, TypeOK, RunShape, Fields, Ordered, Open
<1>1. CASE LeaveOpen
  <2>1. waiting' = waiting /\ (has' = has \/ Applied(q))
    <3>1. sendto' = {} /\ q \in sendto /\ cur' = None
      BY <1>0, <1>1 DEF LeaveOpen
    <3>2. cur # None
      BY <1>0 DEF None, TaskSet, Kinds
    <3>. QED  BY <1>0, <3>1, <3>2 DEF Send, Retry, rows
  <2>2. /\ \A t \in Open : Coming(t, p) => t \in Open' /\ Coming(t, p)'
        /\ \A r \in queue' : Taking(r, p)' => r \in queue /\ Taking(r, p)
    BY <1>0, <1>1, <2>1, LeftArriving
  <2>3. ASSUME has[p], ~has'[p]
        PROVE  \E t \in Open' : Coming(t, p)'
    <3>1. q = p /\ cur.kind = "remove"
      BY <1>0, <2>1, <2>3 DEF Applied, TaskSet, Kinds
    <3>2. Taking(cur, p)
      BY <1>0, <3>1 DEF Taking
    <3>. QED  BY <1>0, <2>2, <3>2 DEF Followed
  <2>. QED  BY <1>0, <2>2, <2>3, ArrivingKept
<1>2. CASE ~LeaveOpen
  <2>1. /\ sendto' = sendto \ {q} /\ UNCHANGED <<queue, cur, pc>>
        /\ \/ waiting' = waiting /\ Applied(q)
           \/ waiting' = waiting /\ q \in forsaken' /\ has' = has
           \/ waiting' = waiting \union {Row(cur.kind, q)} /\ (Applied(q) \/ has' = has)
    BY <1>2 DEF Send, Retry, rows
  <2>2. Open \subseteq Open'
    BY <2>1 DEF Open
  <2>3. ASSUME NEW r \in queue', Taking(r, p)'
        PROVE  r \in queue /\ Taking(r, p)
    BY <2>1, <2>3 DEF Taking, First
  <2>4. ASSUME NEW t \in Open, Coming(t, p), t # cur \/ p # q
        PROVE  t \in Open' /\ Coming(t, p)'
    BY <2>1, <2>2, <2>4 DEF Coming, Feeds
  <2>5. ASSUME has[p], ~has'[p]
        PROVE  \E t \in Open' : Coming(t, p)'
    <3>1. q = p /\ cur.kind = "remove"
      BY <1>0, <2>1, <2>5 DEF Applied, TaskSet, Kinds
    <3>2. Taking(cur, p)
      BY <1>0, <3>1 DEF Taking
    <3>3. PICK t \in Open : Coming(t, p) /\ t.id > cur.id
      BY <1>0, <3>2 DEF Followed
    <3>4. t # cur
      BY <1>0, <3>3
    <3>. QED  BY <2>4, <3>3, <3>4
  <2>6. ASSUME Coming(cur, p), p = q
        PROVE  \/ \E u \in Open' : Coming(u, p)' /\ u.id >= cur.id
               \/ has'[p] /\ \A r \in queue' : Taking(r, p)' => r.id >= cur.id
    <3>1. cur.kind = "add"
      BY <2>6 DEF Coming
    <3>2. CASE waiting' = waiting \union {Row(cur.kind, q)}
      <4>0. PICK u : u = Row(cur.kind, q)
        OBVIOUS
      <4>1. u.kind = "add" /\ u.feed = q /\ u.id = inserted + 1 /\ u \in Open' /\ q # "all"
        BY <3>1, <3>2, <4>0, FeedAssumption DEF Row, Open
      <4>2. inserted \in Nat /\ cur.id \in 1..inserted
        BY <1>0 DEF TypeOK, Ordered, Fields
      <4>3. u # cur
        BY <4>1, <4>2
      <4>4. Coming(u, p)' /\ u.id >= cur.id
        BY <2>1, <2>6, <4>1, <4>2, <4>3 DEF Coming, Feeds
      <4>. QED  BY <4>1, <4>4
    <3>3. CASE Applied(q)
      <4>1. has'[p]
        BY <1>0, <2>6, <3>1, <3>3 DEF Applied
      <4>2. ASSUME NEW r \in queue', Taking(r, p)'
            PROVE  r.id >= cur.id
        <5>1. r \in queue /\ First(r)
          BY <2>1, <3>1, <4>2 DEF Taking, First
        <5>2. cur.id <= r.id
          BY <1>0, <5>1 DEF InTurn
        <5>. QED  BY <1>0, <5>1, <5>2 DEF Open
      <4>. QED  BY <4>1, <4>2
    <3>. QED  BY <2>1, <2>6, <3>2, <3>3
  <2>7. ASSUME NEW t \in Open, Coming(t, p)
        PROVE  \/ \E u \in Open' : Coming(u, p)' /\ u.id >= t.id
               \/ has'[p] /\ \A r \in queue' : Taking(r, p)' => r.id >= t.id
    <3>1. CASE t = cur /\ p = q
      BY <2>6, <2>7, <3>1
    <3>2. CASE t # cur \/ p # q
      BY <1>0, <2>4, <2>7, <3>2
    <3>. QED  BY <3>1, <3>2
  <2>. QED  BY <2>3, <2>5, <2>7, ArrivingKept
<1>. QED  BY <1>1, <1>2

LEMMA NextArriving ==
    ASSUME TellsOnEntering, FInv, TypeOK', [Next]_vars
    PROVE  Arriving'
<1>. USE DEF FInv
<1>. SUFFICES ASSUME NEW p \in Partners \ forsaken', Live', owed' = "none", ~overtaken'
              PROVE  Listed(p)' /\ Followed(p)'
  BY DEF Arriving
<1>1. ~overtaken /\ p \notin forsaken
  <2>1. overtaken' = overtaken \/ \E t : PassedOver(t)
    BY DEF Next, Move, Enqueue, FallDue, Work, Iterate, BatchDone, Take, TakeFails, Send, Retry,
           Close, Crash, vars
  <2>2. forsaken \subseteq forsaken'
    BY DEF Next, Move, Enqueue, FallDue, Work, Iterate, BatchDone, Take, TakeFails, Send, Retry,
           Close, Crash, LeaveOpen, vars, TypeOK, Fields
  <2>. QED  BY <2>1, <2>2, NotPassed
<1>2. ASSUME Live, owed = "none"
      PROVE  Listed(p) /\ Followed(p)
  BY <1>1, <1>2 DEF Arriving
<1>3. CASE Move
  <2>1. PICK m \in Moves : post' = Change[m].into /\ owed' = Change[m].task
    BY <1>3 DEF Move
  <2>. QED  BY <2>1 DEF TellsOnEntering, Live
<1>4. CASE Enqueue
  <2>1. owed = "add" /\ UNCHANGED <<waiting, cur, sendto, has>>
    BY <1>4 DEF Enqueue, Owes, Live, run
  <2>2. PICK t : t = Row("add", "all")
    OBVIOUS
  <2>3. queue' = queue \union {t} /\ inserted' = inserted + 1
    BY <1>4, <2>1, <2>2 DEF Enqueue
  <2>4. t.kind = "add" /\ t.feed = "all" /\ t.id = inserted + 1 /\ t \in Open'
    BY <2>2, <2>3 DEF Row, Open
  <2>5. /\ \A u \in queue : u.id \in 1..inserted
        /\ inserted \in Nat /\ (cur = None \/ cur \in queue)
    BY DEF TypeOK, Fields, Ordered, RunShape, Open
  <2>6. t # cur
    BY <2>4, <2>5 DEF None
  <2>7. Coming(t, p)'
    BY <2>1, <2>4, <2>6 DEF Coming, Feeds
  <2>8. \A r \in queue' : Taking(r, p)' => r.id < t.id
    <3>1. ~Taking(t, p)'
      BY <2>4 DEF Taking, First
    <3>. QED  BY <2>3, <2>4, <2>5, <3>1
  <2>9. \A r \in queue' : r.id \in Int /\ t.id \in Int
    BY <2>3, <2>4, <2>5
  <2>. QED  BY <2>4, <2>7, <2>8, <2>9 DEF Listed, Followed
<1>5. CASE FallDue
  <2>0. PICK t \in waiting : /\ queue' = queue \union {[t EXCEPT !.id = inserted + 1]}
                             /\ waiting' = waiting \ {t}
    BY <1>5 DEF FallDue
  <2>1. PICK u \in queue' : /\ u = [t EXCEPT !.id = inserted + 1]
                            /\ queue' = queue \union {u} /\ waiting' = waiting \ {t}
    BY <2>0
  <2>2. /\ u.kind = t.kind /\ u.feed = t.feed /\ u.id = inserted + 1
        /\ u \in Open' /\ Open \ {t} \subseteq Open'
    BY <2>1 DEF Open, TypeOK, Fields, TaskSet
  <2>3. UNCHANGED <<post, owed, cur, sendto, has>>
    BY <1>5 DEF FallDue, run
  <2>4. Listed(p) /\ Followed(p)
    BY <1>2, <2>3 DEF Live
  <2>5. /\ \A v \in Open : v.id \in 1..inserted
        /\ inserted \in Nat /\ (cur = None \/ cur \in queue)
        /\ t \in Open /\ t.feed # "all"
    BY FeedAssumption DEF TypeOK, Fields, Ordered, RunShape, Open, Turns, Retries
  <2>6. u # cur
    BY <2>2, <2>5 DEF None, Open
  <2>7. ASSUME NEW v \in Open, Coming(v, p)
        PROVE  \E w \in Open' : Coming(w, p)' /\ w.id >= v.id
    <3>1. CASE v = t
      <4>1. Coming(u, p)'
        BY <2>2, <2>3, <2>6, <2>7, <3>1 DEF Coming, Feeds
      <4>2. u.id >= v.id
        BY <2>2, <2>5
      <4>. QED  BY <2>2, <4>1, <4>2
    <3>2. CASE v # t
      <4>1. v \in Open' /\ Coming(v, p)'
        BY <2>2, <2>3, <2>7, <3>2 DEF Coming, Feeds
      <4>. QED  BY <2>5, <4>1
    <3>. QED  BY <3>1, <3>2
  <2>8. ASSUME NEW r \in queue', Taking(r, p)'
        PROVE  r \in queue /\ Taking(r, p)
    BY <2>1, <2>2, <2>3, <2>5, <2>6, <2>8 DEF Taking, First
  <2>9. has[p] => has'[p]
    BY <2>3
  <2>. QED  BY <2>4, <2>7, <2>8, <2>9, ArrivingKept
<1>6. CASE Iterate \/ BatchDone \/ UNCHANGED vars
  <2>1. UNCHANGED <<post, owed, queue, waiting, cur, sendto, has>>
    BY <1>6 DEF Iterate, BatchDone, vars, rows, run
  <2>2. Listed(p) /\ Followed(p)
    BY <1>2, <2>1 DEF Live
  <2>. QED  BY <2>1, <2>2 DEF Listed, Followed, Coming, Taking, First, Open, Feeds
<1>7. CASE Take
  <2>1. PICK t \in queue : /\ cur' = [t EXCEPT !.tries = @ + 1]
                           /\ queue' = (queue \ {t}) \union {cur'} /\ sendto' = Targets(t)
    BY <1>7 DEF Take
  <2>2. cur'.kind = t.kind /\ cur'.feed = t.feed /\ cur'.id = t.id
    BY <2>1 DEF TypeOK, Fields, TaskSet
  <2>3. pc = "next" /\ UNCHANGED <<post, owed, waiting, has>>
    BY <1>7 DEF Take
  <2>4. Listed(p) /\ Followed(p) /\ Live
    BY <1>2, <2>3 DEF Live
  <2>5. /\ \A v \in Open : v.id \in Int /\ (v.id = t.id => v = t)
        /\ cur = None /\ t \in Open
    BY <2>3 DEF TypeOK, Ordered, RunShape, Open
  <2>6. ASSUME NEW v \in Open, Coming(v, p)
        PROVE  \E w \in Open' : Coming(w, p)' /\ w.id >= v.id
    <3>1. CASE v = t
      <4>1. t.kind = "add" /\ p \in Feeds(t)
        BY <2>6, <3>1 DEF Coming
      <4>2. p \in sendto' /\ p \in Feeds(cur')
        BY <2>1, <2>2, <2>4, <4>1 DEF Targets, Feeds
      <4>3. Coming(cur, p)' /\ cur' \in Open'
        BY <2>1, <2>2, <4>1, <4>2 DEF Coming, Open, Feeds
      <4>4. PICK w : w = cur'
        OBVIOUS
      <4>5. Coming(w, p)' /\ w \in Open' /\ w.id >= v.id
        BY <2>2, <2>5, <3>1, <4>3, <4>4 DEF Coming, Feeds
      <4>. QED  BY <4>5
    <3>2. CASE v # t
      <4>1. v \in Open' /\ v # cur'
        BY <2>1, <2>2, <2>3, <2>5, <3>2 DEF Open
      <4>2. Coming(v, p)'
        BY <2>6, <4>1 DEF Coming, Feeds
      <4>. QED  BY <2>5, <4>1, <4>2
    <3>. QED  BY <3>1, <3>2
  <2>7. ASSUME NEW r \in queue', Taking(r, p)'
        PROVE  \E s \in queue : Taking(s, p) /\ s.id = r.id
    <3>1. CASE r = cur'
      <4>1. t.kind = "remove" /\ (t.feed = "all" \/ p \in sendto')
        BY <2>2, <2>7, <3>1 DEF Taking, First
      <4>2. t.feed = "all"
        BY <2>1, <2>4, <4>1 DEF Targets
      <4>3. Taking(t, p)
        BY <4>1, <4>2 DEF Taking, First
      <4>. QED  BY <2>2, <3>1, <4>3
    <3>2. CASE r # cur'
      <4>1. r \in queue /\ Taking(r, p)
        BY <2>1, <2>7, <3>2 DEF Taking, First
      <4>. QED  BY <4>1
    <3>. QED  BY <3>1, <3>2
  <2>. QED  BY <2>3, <2>4, <2>6, <2>7, ArrivingKept
<1>8. CASE TakeFails
  <2>1. PICK t \in queue : \/ queue' = queue \ {t} /\ forsaken' = forsaken \union Feeds(t)
                           \/ queue' = queue
    BY <1>8 DEF TakeFails
  <2>2. UNCHANGED <<post, owed, waiting, cur, sendto, has>>
    BY <1>8 DEF TakeFails
  <2>3. Listed(p) /\ Followed(p)
    BY <1>2, <2>2 DEF Live
  <2>4. ASSUME NEW v \in Open, Coming(v, p)
        PROVE  v \in Open' /\ Coming(v, p)'
    <3>1. v = t => p \in Feeds(t)
      BY <2>4 DEF Coming
    <3>2. v \in Open'
      BY <2>1, <2>2, <3>1 DEF Open
    <3>. QED  BY <2>2, <2>4, <3>2 DEF Coming, Feeds
  <2>5. ASSUME NEW r \in queue', Taking(r, p)'
        PROVE  r \in queue /\ Taking(r, p)
    BY <2>1, <2>2, <2>5 DEF Taking, First
  <2>6. \A v \in Open : v.id \in Int
    BY DEF TypeOK, Ordered
  <2>. QED  BY <2>2, <2>3, <2>4, <2>5, <2>6, ArrivingKept
<1>9. ASSUME NEW q \in Partners, Send(q)
      PROVE  Listed(p)' /\ Followed(p)'
  <2>1. UNCHANGED <<post, owed>>
    BY <1>9 DEF Send
  <2>2. Listed(p) /\ Followed(p)
    BY <1>2, <2>1 DEF Live
  <2>. QED  BY <1>1, <1>9, <2>2, SendArriving DEF Turns
<1>10. CASE Close \/ Crash
  <2>1. UNCHANGED <<post, owed, waiting, has>>
    BY <1>10 DEF Close, Crash
  <2>2. Listed(p) /\ Followed(p)
    BY <1>2, <2>1 DEF Live
  <2>3. \A v \in Open : v.id \in Int /\ v # None
    BY DEF TypeOK, Fields, Ordered, Open, None, TaskSet, Kinds
  <2>4. CASE pc = "send" /\ LeaveOpen
    <3>1. /\ \A t \in Open : Coming(t, p) => t \in Open' /\ Coming(t, p)'
          /\ \A r \in queue' : Taking(r, p)' => r \in queue /\ Taking(r, p)
      BY <2>1, <2>4, LeftArriving
    <3>. QED  BY <2>1, <2>2, <2>3, <3>1, ArrivingKept
  <2>5. CASE Close /\ queue' = queue \ {cur} /\ cur' = None /\ UNCHANGED sendto
    <3>1. sendto = {}
      BY <2>5 DEF Close
    <3>2. ASSUME NEW v \in Open, Coming(v, p)
          PROVE  v \in Open' /\ Coming(v, p)'
      <4>1. v # cur
        BY <3>1, <3>2 DEF Coming
      <4>. QED  BY <2>1, <2>3, <2>5, <3>2, <4>1 DEF Coming, Open, Feeds
    <3>3. ASSUME NEW r \in queue', Taking(r, p)'
          PROVE  r \in queue /\ Taking(r, p)
      BY <2>3, <2>5, <3>1, <3>3 DEF Taking, First, Open
    <3>. QED  BY <2>1, <2>2, <2>3, <3>2, <3>3, ArrivingKept
  <2>6. CASE UNCHANGED <<queue, cur, sendto>>
    BY <2>1, <2>2, <2>6 DEF Listed, Followed, Coming, Taking, First, Open, Feeds
  <2>. QED  BY <1>10, <2>4, <2>5, <2>6 DEF Close, Crash
<1>. QED
  BY <1>3, <1>4, <1>5, <1>6, <1>7, <1>8, <1>9, <1>10 DEF Next, Work

\* If every change that puts the post on the board queues an add, then once its tasks are done
\* a post that is live is on every partner's feed, unless a failed statement left a first
\* remove open while its batch went on: no retry, lost answer, crash or older remove takes off
\* a post that is live for good, for any number of partners, changes and faults.
THEOREM Arrived ==
    ASSUME TellsOnEntering
    PROVE  Spec => []LiveOnFeed
<1>1. Init => FInv
  <2>1. Init => Turns /\ Owes /\ Arriving
    BY DEF Init, Turns, Retries, Known, InTurn, Owes, Live, Arriving
  <2>. QED  BY <2>1, InitTyped DEF FInv
<1>2. FInv /\ [Next]_vars => FInv'
  BY NextTyped, NextRetries, NextKnown, NextInTurn, NextOwes, NextArriving DEF FInv, Turns
<1>3. FInv => LiveOnFeed
  BY DEF FInv, Arriving, LiveOnFeed, Settled, Listed, Coming
<1>. QED  BY <1>1, <1>2, <1>3, PTL DEF Spec

===============================================================================
