----------------------- MODULE EmailSpoolCustody_proofs -----------------------
(* Machine-checked theorems about EmailSpool, continued: where the one copy *)
(* of each mail is, who holds it, what that says of its deliveries, and     *)
(* that the spool implements the safety part of MailDelivery.               *)
EXTENDS EmailSpool_proofs

-------------------------------------------------------------------------------
(* The inductive invariant, mail by mail. *)

\* Which daemon works on a mail: one that sends it, or one that recovers it.
Has(v, m) == job[v] # NoJob /\ job[v].mail = m
Sends(v, m) == Has(v, m) /\ job[v].ctx = "batch"
Recovers(v, m) == Has(v, m) /\ job[v].ctx # "batch"

\* No copy of m outside a's claim area.
Clear(m, a) ==
    /\ pending[m] = "none" /\ failed[m] = "none"
    /\ \A b \in Workers \ {a} : sending[b][m] = "none"

\* A mail's file is in one directory at a time: every move is a rename.
OnePlace(m) ==
    /\ pending[m] = "none" \/ failed[m] = "none"
    /\ \A a \in Workers : sending[a][m] # "none" => Clear(m, a)

\* A sender works in its own area on a claim that is not stale, and alone; its file is
\* there until it is filed.
HoldsFile == {"touch", "decode", "send", "ledger", "file", "unlink", "move"}
Owns(v, m) ==
    /\ job[v].area = v /\ <<v, m>> \notin stale /\ Clear(m, v)
    /\ pc[v] \in HoldsFile \union {"unmark", "log", "rewrite"}
    /\ pc[v] \in HoldsFile => sending[v][m] # "none"
    /\ pc[v] \in {"unmark", "log"} => sending[v][m] = "none"
    /\ \A u \in Workers \ {v} : Has(u, m) => ~Sends(u, m) /\ job[u].area # v
Owned(m) == \A v \in Workers : Sends(v, m) => Owns(v, m)

\* A recovery works on a file that nobody sends any more.  It re-queues only a file
\* without a marker, files only one with a marker, and unlinks only the last copy;
\* when several recoveries have the same file in hand, the later ones find it gone.
Reclaims(v, m) ==
    /\ job[v].ctx = "own" => job[v].area = v
    /\ pc[v] \in {"recover", "putBack", "file", "unlink", "unmark"}
    /\ pc[v] = "putBack" /\ sending[job[v].area][m] # "none" => m \notin ledger
    /\ pc[v] \in {"file", "unlink"} /\ sending[job[v].area][m] # "none" => m \in ledger
    /\ pc[v] \in {"unlink", "unmark"} =>
          Clear(m, job[v].area) /\ \A u \in Workers : ~Sends(u, m)
    /\ pc[v] = "unmark" => sending[job[v].area][m] = "none"
Reclaimed(m) == \A v \in Workers : Recovers(v, m) => Reclaims(v, m)

\* A marker stands only while its mail is being filed, or waits in a claim area.
Marked(m) ==
    m \in ledger =>
        /\ pending[m] = "none" /\ failed[m] = "none"
        /\ \A v \in Workers : Sends(v, m) => pc[v] \in {"file", "unlink", "unmark"}

\* The accounts: wherever a mail may still be sent from, SMTP has not taken it, or
\* has taken it only as often as the spool lost track.
Unspent(m) == accepted[m] <= lostTrack[m]
Counted(m) ==
    /\ accepted[m] <= 1 + lostTrack[m]
    /\ pending[m] # "none" \/ failed[m] # "none" => Unspent(m)
    /\ \A v \in Workers :
          Sends(v, m) /\ pc[v] \in {"touch", "decode", "send", "rewrite", "move"} => Unspent(m)
    /\ \A a \in Workers :
          sending[a][m] # "none" /\ m \notin ledger /\ ~(Sends(a, m) /\ pc[a] = "ledger")
            => Unspent(m)

\* Nothing happens to a mail before spool() has put it in.
Unborn(m) ==
    m \notin spooled =>
        /\ accepted[m] = 0 /\ m \notin ledger
        /\ pending[m] = "none" /\ failed[m] = "none" /\ \A a \in Workers : sending[a][m] = "none"
        /\ \A v \in Workers : ~Has(v, m)

Custody(m) == OnePlace(m) /\ Owned(m) /\ Reclaimed(m) /\ Marked(m) /\ Counted(m) /\ Unborn(m)
CustodyInv == TypeOK /\ \A m \in Mails : Custody(m)

-------------------------------------------------------------------------------
\* A step that changes nothing of m, and nobody who works on it, keeps Custody(m).
Untouched(m) ==
    /\ pending'[m] = pending[m] /\ failed'[m] = failed[m]
    /\ \A a \in Workers : /\ sending'[a][m] = sending[a][m]
                          /\ <<a, m>> \in stale' => <<a, m>> \in stale
    /\ m \in ledger' <=> m \in ledger
    /\ accepted'[m] = accepted[m] /\ lostTrack'[m] = lostTrack[m]
    /\ m \in spooled' <=> m \in spooled
SameHands(m) ==
    \A v \in Workers : \/ pc'[v] = pc[v] /\ job'[v] = job[v]
                       \/ ~Has(v, m) /\ ~Has(v, m)'

LEMMA Frame ==
    ASSUME TypeOK, NEW m \in Mails, Custody(m), Untouched(m), SameHands(m)
    PROVE  Custody(m)'
  <1> USE DEF Has, Sends, Recovers
  <1>0. \A v \in Workers : job[v].area \in Workers
    <2> SUFFICES ASSUME NEW v \in Workers PROVE job[v].area \in Workers
      OBVIOUS
    <2>1. CASE job[v] = NoJob
      BY <2>1, SpoolAssumption DEF NoJob
    <2>2. CASE job[v] \in Jobs
      BY <2>2, JobFields
    <2> QED
      BY <2>1, <2>2 DEF TypeOK, DaemonsTyped
  <1>1. \A a \in Workers : Clear(m, a) <=> Clear(m, a)'
    BY DEF Untouched, Clear
  <1>2. OnePlace(m)'
    BY <1>1 DEF Untouched, Custody, OnePlace
  <1>3. Owned(m)'
    BY <1>1 DEF Untouched, SameHands, Custody, Owned, Owns
  <1>4. Reclaimed(m)'
    <2>1. \A u \in Workers : Sends(u, m)' => Sends(u, m)
      BY DEF SameHands
    <2> SUFFICES ASSUME NEW v \in Workers, Recovers(v, m)'
                 PROVE  Reclaims(v, m)'
      BY DEF Reclaimed
    <2>2. pc'[v] = pc[v] /\ job'[v] = job[v] /\ Reclaims(v, m)
      BY DEF SameHands, Custody, Reclaimed
    <2>3. \A a \in Workers : sending'[a][m] = sending[a][m]
      BY DEF Untouched
    <2>4. m \in ledger' <=> m \in ledger
      BY DEF Untouched
    <2> HIDE DEF Sends, Recovers, Has
    <2> QED
      BY <1>0, <1>1, <2>1, <2>2, <2>3, <2>4 DEF Reclaims
  <1>5. Marked(m)'
    BY DEF Untouched, SameHands, Custody, Marked
  <1>6. Counted(m)'
    BY DEF Untouched, SameHands, Custody, Counted, Unspent
  <1>7. Unborn(m)'
    BY DEF Untouched, SameHands, Custody, Unborn
  <1> QED
    BY <1>2, <1>3, <1>4, <1>5, <1>6, <1>7 DEF Custody

-------------------------------------------------------------------------------
(* What the moves between directories do. *)

LEMMA PutEffect ==
    ASSUME TypeOK, NEW a \in Workers, NEW m \in Mails, NEW c, Put(a, m, c)
    PROVE  /\ sending'[a][m] = c
           /\ \A b \in Workers, n \in Mails :
                 b # a \/ n # m => sending'[b][n] = sending[b][n]
  BY DEF Put, TypeOK, FilesTyped

LEMMA DropEffect ==
    ASSUME TypeOK, NEW w \in Workers, pc[w] \notin Idling, Drop(w)
    PROVE  /\ sending'[job[w].area][job[w].mail] = "none" /\ stale' \subseteq stale
           /\ \A b \in Workers, n \in Mails :
                 b # job[w].area \/ n # job[w].mail => sending'[b][n] = sending[b][n]
  BY InHandTyped, JobFields, PutEffect DEF Drop

\* A daemon's step leaves every mail alone that it has not in hand.
LEMMA ElsewhereSame ==
    ASSUME TypeOK, NEW w \in Workers, NEW n \in Mails,
           Step(w) \/ SendLostReply(w) \/ Tear(w) \/ Crash(w) \/ Stop(w) \/ Housekeep(w),
           ~Has(w, n), ~Has(w, n)'
    PROVE  Untouched(n) /\ SameHands(n)
  <1>0. /\ pending \in [Mails -> Content] /\ failed \in [Mails -> Content]
        /\ ledger \subseteq Mails
        /\ accepted \in [Mails -> Nat] /\ lostTrack \in [Mails -> Nat]
    BY DEF TypeOK, FilesTyped, OthersTyped
  <1>1. SameHands(n)
    <2>1. \A v \in Workers \ {w} : pc'[v] = pc[v] /\ job'[v] = job[v]
      BY DaemonStep
    <2> QED
      BY <2>1 DEF SameHands
  <1> SUFFICES Untouched(n)
    BY <1>1
  <1>2. CASE \/ Start(w) \/ OwnDone(w) \/ SweepDone(w) \/ BatchDone(w) \/ Rest(w)
             \/ StartBatch(w) \/ Housekeep(w) \/ Stop(w)
    BY <1>2 DEF Start, OwnDone, SweepDone, BatchDone, Rest, StartBatch, Housekeep, Stop,
       files, ghost, Untouched
  <1>3. CASE \/ \E m \in Mails : OwnTake(w, m)
             \/ \E a \in Workers, m \in Mails : SweepTake(w, a, m)
    BY <1>3 DEF OwnTake, SweepTake, Take, files, ghost, Untouched
  <1>4. ASSUME NEW m \in Mails, NextFile(w, m)
        PROVE  Untouched(n)
    <2>1. CASE ClaimSkip(w, m)
      BY <1>4, <2>1 DEF NextFile, ClaimSkip, files, ghost, Untouched
    <2>2. CASE Claim(w, m)
      <3> DEFINE j == [mail |-> m, area |-> w, ctx |-> "batch", dest |-> "pending"]
      <3>1. j \in Jobs /\ j.mail = m
        BY JobMade
      <3>2. job'[w] = j
        BY <2>2 DEF Claim, AreaOf, TypeOK, DaemonsTyped
      <3> HIDE DEF j
      <3>3. m # n
        BY <3>1, <3>2, JobFields DEF Has
      <3>4. \A b \in Workers : sending'[b][n] = sending[b][n]
        BY <2>2, <3>3, PutEffect DEF Claim, AreaOf
      <3> QED
        BY <1>0, <1>4, <2>2, <3>3, <3>4 DEF NextFile, Claim, AreaOf, ghost, Untouched
    <2> QED
      BY <1>4, <2>1, <2>2 DEF NextFile
  <1>5. ASSUME pc[w] \notin Idling
        PROVE  job[w].mail \in Mails /\ job[w].area \in Workers /\ job[w].mail # n
    BY <1>5, InHandTyped, JobFields DEF Has
  <1>6. ASSUME Drop(w), pc[w] \notin Idling
        PROVE  \A b \in Workers : /\ sending'[b][n] = sending[b][n]
                                  /\ <<b, n>> \in stale' => <<b, n>> \in stale
    BY <1>5, <1>6, DropEffect
  <1>7. CASE PutBack(w) \/ Decode(w) \/ Move(w)
    <2>1. pc[w] \notin Idling
      BY <1>7 DEF PutBack, Decode, Move, Idling
    <2> QED
      BY <1>0, <1>5, <1>6, <1>7, <2>1 DEF PutBack, Decode, Move, ghost, Untouched
  <1>8. CASE Touch(w) \/ Rewrite(w) \/ Tear(w)
    <2>1. pc[w] \notin Idling
      BY <1>8 DEF Touch, Rewrite, Tear, Idling
    <2>2. \A b \in Workers : sending'[b][n] = sending[b][n]
      BY <1>5, <1>8, <2>1, PutEffect DEF Touch, Rewrite, Tear
    <2> QED
      BY <1>8, <2>2 DEF Touch, Rewrite, Tear, ghost, Untouched
  <1>9. CASE Recover(w) \/ SendAccepted(w) \/ SendLostReply(w) \/ WriteLedger(w) \/ LogSend(w)
             \/ \E dest \in {"pending", "failed"} : SendFails(w, dest)
    <2>1. pc[w] \notin Idling
      BY <1>9 DEF Recover, SendAccepted, SendLostReply, SendFails, WriteLedger, LogSend, Idling
    <2> QED
      BY <1>0, <1>5, <1>9, <2>1 DEF Recover, SendAccepted, SendLostReply, SendFails, WriteLedger, LogSend,
         Accept, LoseTrack, files, ghost, Untouched
  <1>10. CASE Crash(w)
    <2>1. pc[w] = "ledger" => pc[w] \notin Idling
      BY DEF Idling
    <2> QED
      BY <1>0, <1>5, <1>10, <2>1 DEF Crash, LoseTrack, files, Untouched
  <1>11. CASE File(w) \/ Unlink(w) \/ Unmark(w)
    <2>1. pc[w] \notin Idling
      BY <1>11 DEF File, Unlink, Unmark, Idling
    <2> QED
      BY <1>0, <1>5, <1>6, <1>11, <2>1 DEF File, Unlink, Unmark, LoseTrack, ghost, Untouched
  <1> QED
    BY <1>2, <1>3, <1>4, <1>7, <1>8, <1>9, <1>10, <1>11 DEF Step

-------------------------------------------------------------------------------
\* What Has says of a daemon.
LEMMA Holding ==
    ASSUME TypeOK, NEW w \in Workers, NEW m \in Mails, Has(w, m)
    PROVE  /\ pc[w] \notin Idling /\ job[w] \in Jobs /\ job[w].mail = m
           /\ job[w].area \in Workers /\ job[w].ctx \in {"batch", "own", "sweep"}
           /\ InHand(w) = sending[job[w].area][m]
  BY JobFields DEF Has, TypeOK, DaemonsTyped, InHand

LEMMA Counts ==
    ASSUME TypeOK, NEW m \in Mails
    PROVE  accepted[m] \in Nat /\ lostTrack[m] \in Nat
  BY DEF TypeOK, OthersTyped

\* The daemons other than w do what they did.
Aside(w) == \A v \in Workers \ {w} : pc'[v] = pc[v] /\ job'[v] = job[v]

\* A file leaves w's hand, and the claim area it was in, for pending/ or failed/.
HandsBack(w, m) ==
    /\ \/ pending'[m] = sending[job[w].area][m] /\ failed'[m] = failed[m]
       \/ failed'[m] = sending[job[w].area][m] /\ pending'[m] = pending[m]
    /\ sending'[job[w].area][m] = "none"
    /\ \A b \in Workers \ {job[w].area} : sending'[b][m] = sending[b][m]
    /\ stale' \subseteq stale /\ UNCHANGED <<ledger, ghost, spooled>>
    /\ ~Has(w, m)'

LEMMA HandedBack ==
    ASSUME TypeOK, NEW w \in Workers, NEW m \in Mails, Has(w, m), Custody(m),
           sending[job[w].area][m] # "none", m \notin ledger, Unspent(m),
           \A u \in Workers \ {w} : ~Sends(u, m),
           Aside(w), HandsBack(w, m)
    PROVE  Custody(m)'
  <1> DEFINE a == job[w].area
  <1>1. a \in Workers /\ Clear(m, a)
    BY Holding DEF Custody, OnePlace
  <1>2. \A b \in Workers : sending'[b][m] = "none"
    BY <1>1 DEF Clear, HandsBack
  <1>3. \A u \in Workers : ~Sends(u, m)'
    BY DEF Aside, HandsBack, Sends, Has
  <1>4. OnePlace(m)'
    BY <1>1, <1>2 DEF Clear, HandsBack, OnePlace
  <1>5. Owned(m)' /\ Marked(m)'
    BY <1>3 DEF Owned, Marked, HandsBack
  <1>6. Reclaimed(m)'
    <2> SUFFICES ASSUME NEW v \in Workers, Recovers(v, m)'
                 PROVE  Reclaims(v, m)'
      BY DEF Reclaimed
    <2>1. v # w /\ pc'[v] = pc[v] /\ job'[v] = job[v] /\ Recovers(v, m)
      BY DEF Recovers, Has, HandsBack, Aside
    <2>2. Reclaims(v, m) /\ job[v].area \in Workers
      BY <2>1, Holding DEF Custody, Reclaimed, Recovers
    <2>3. pc[v] \notin {"unlink", "unmark"}
      <3>1. SUFFICES ASSUME pc[v] \in {"unlink", "unmark"} PROVE FALSE
        OBVIOUS
      <3>2. Clear(m, job[v].area) /\ (pc[v] = "unmark" => sending[job[v].area][m] = "none")
            /\ (pc[v] = "unlink" /\ sending[job[v].area][m] # "none" => m \in ledger)
        BY <2>2, <3>1 DEF Reclaims
      <3>3. job[v].area = a
        BY <1>1, <3>2 DEF Clear
      <3> QED
        BY <3>1, <3>2, <3>3
    <2> QED
      BY <1>2, <2>1, <2>2, <2>3 DEF Reclaims, HandsBack
  <1>7. Counted(m)'
    BY <1>2, <1>3, Counts DEF HandsBack, ghost, Custody, Counted, Unspent
  <1>8. Unborn(m)'
    BY <1>1 DEF HandsBack, Custody, Unborn
  <1> QED
    BY <1>4, <1>5, <1>6, <1>7, <1>8 DEF Custody

\* Nobody else sends a mail whose copy is in the area a daemon works in.
LEMMA NoOtherSender ==
    ASSUME TypeOK, NEW w \in Workers, NEW m \in Mails, Has(w, m), Custody(m),
           sending[job[w].area][m] # "none", NEW u \in Workers \ {w}
    PROVE  ~Sends(u, m)
  <1>1. SUFFICES ASSUME Owns(u, m) PROVE FALSE
    BY DEF Custody, Owned
  <1>2. job[w].area # u
    BY <1>1 DEF Owns
  <1> QED
    BY <1>1, <1>2, Holding DEF Owns, Clear

-------------------------------------------------------------------------------
(* Coming into a daemon's hand. *)

\* The faults the theorems leave out: a live send stalled past the reclaim age, a
\* backlog older than it, and a sweep that overlaps its owner's next claim.
Undisturbed == Faults \cap {"stall", "backlog", "sweepRace"} = {}

LEMMA TakenKeeps ==
    ASSUME CustodyInv, NEW w \in Workers, NEW m \in Mails,
           NEW a \in Workers, NEW c \in {"own", "sweep"}, Take(w, a, m, c), job[w] = NoJob,
           sending[a][m] # "none",
           c = "own" => a = w, \A u \in Workers : Sends(u, m) => a # u
    PROVE  Custody(m)'
  <1> USE DEF CustodyInv
  <1> DEFINE j == [mail |-> m, area |-> a, ctx |-> c, dest |-> "pending"]
  <1>1. j \in Jobs /\ j.mail = m /\ j.area = a /\ j.ctx = c
    BY JobMade
  <1>2. job'[w] = j /\ pc'[w] = "recover" /\ Aside(w)
    BY DEF Take, Goto, TypeOK, DaemonsTyped, Aside
  <1> HIDE DEF j
  <1>3. ~Has(w, m) /\ ~Sends(w, m) /\ Recovers(w, m)'
    BY <1>1, <1>2, JobFields DEF Has, Recovers, Sends
  <1>4. \A u \in Workers : Sends(u, m)' <=> Sends(u, m)
    BY <1>1, <1>2, <1>3 DEF Sends, Has, Aside
  <1>5. UNCHANGED <<pending, failed, sending, stale, ledger, accepted, lostTrack, spooled>>
    BY DEF Take, files, ghost
  <1>6. \A b \in Workers : Clear(m, b)' <=> Clear(m, b)
    BY <1>5 DEF Clear
  <1>7. OnePlace(m)'
    BY <1>5, <1>6 DEF Custody, OnePlace
  <1>8. Owned(m)'
    <2> SUFFICES ASSUME NEW v \in Workers, Sends(v, m)
                 PROVE  Owns(v, m)'
      BY <1>4 DEF Owned
    <2>1. Owns(v, m) /\ v # w /\ pc'[v] = pc[v] /\ job'[v] = job[v]
      BY <1>2, <1>3 DEF Custody, Owned, Sends, Aside
    <2>2. \A u \in Workers \ {v} : Has(u, m)' => ~Sends(u, m)' /\ job'[u].area # v
      BY <1>1, <1>2, <1>3, <1>4, <2>1 DEF Owns, Aside, Has
    <2> QED
      BY <1>5, <1>6, <2>1, <2>2 DEF Owns
  <1>9. Reclaimed(m)'
    <2> SUFFICES ASSUME NEW v \in Workers, Recovers(v, m)'
                 PROVE  Reclaims(v, m)'
      BY DEF Reclaimed
    <2>1. CASE v = w
      BY <1>1, <1>2, <2>1 DEF Reclaims
    <2>2. CASE v # w
      <3>1. pc'[v] = pc[v] /\ job'[v] = job[v] /\ Recovers(v, m)
        BY <1>2, <2>2 DEF Recovers, Has, Aside
      <3>2. Reclaims(v, m) /\ job[v].area \in Workers
        BY <3>1, Holding DEF Custody, Reclaimed, Recovers
      <3> QED
        BY <1>4, <1>5, <1>6, <3>1, <3>2 DEF Reclaims
    <2> QED
      BY <2>1, <2>2
  <1>10. Marked(m)' /\ Counted(m)'
    <2>1. \A u \in Workers : Sends(u, m) => pc'[u] = pc[u]
      BY <1>2, <1>3 DEF Sends, Aside
    <2> QED
      BY <1>4, <1>5, <2>1 DEF Custody, Marked, Counted, Unspent
  <1>11. Unborn(m)'
    <2>1. m \in spooled
      BY DEF Custody, Unborn
    <2> QED
      BY <1>5, <2>1 DEF Unborn
  <1> QED
    BY <1>7, <1>8, <1>9, <1>10, <1>11 DEF Custody

\* Claiming: the one copy is in pending/, so nobody sends the mail or has filed it,
\* and no sweep is on its way to this area.
LEMMA ClaimKeeps ==
    ASSUME CustodyInv, Undisturbed, NEW w \in Workers, NEW m \in Mails,
           job[w] = NoJob, Claim(w, m), UNCHANGED <<ghost, spooled>>
    PROVE  Custody(m)'
  <1> USE DEF CustodyInv
  <1> DEFINE j == [mail |-> m, area |-> w, ctx |-> "batch", dest |-> "pending"]
  <1>1. j \in Jobs /\ j.mail = m /\ j.area = w /\ j.ctx = "batch"
    BY JobMade
  <1>2. job'[w] = j /\ pc'[w] = "touch" /\ Aside(w)
    BY DEF Claim, Goto, AreaOf, TypeOK, DaemonsTyped, Aside
  <1> HIDE DEF j
  <1>3. ~Has(w, m) /\ Sends(w, m)'
    BY <1>1, <1>2, JobFields DEF Has, Sends
  <1>4. /\ pending[m] # "none" /\ pending'[m] = "none"
        /\ failed[m] = "none" /\ failed'[m] = "none"
        /\ \A b \in Workers : sending[b][m] = "none"
    BY DEF Claim, TypeOK, FilesTyped, Custody, OnePlace, Clear
  <1>5. /\ sending'[w][m] # "none"
        /\ \A b \in Workers \ {w} : sending'[b][m] = "none"
    BY <1>4, PutEffect DEF Claim, AreaOf
  <1>6. <<w, m>> \notin stale'
    BY DEF Claim, AreaOf, Fault, Undisturbed
  <1>7. UNCHANGED <<ledger, accepted, lostTrack, spooled>>
    BY DEF Claim, ghost
  <1>8. \A u \in Workers : ~Sends(u, m)
    BY <1>4 DEF Custody, Owned, Owns, Clear
  <1>9. \A u \in Workers \ {w} : Has(u, m)' => Recovers(u, m) /\ ~Sends(u, m)' /\ job[u].area # w
    <2> SUFFICES ASSUME NEW u \in Workers \ {w}, Has(u, m)
                 PROVE  Recovers(u, m) /\ job[u].area # w
      BY <1>2, <1>8 DEF Has, Aside, Sends
    <2>1. Recovers(u, m) /\ Reclaims(u, m)
      BY <1>8 DEF Custody, Reclaimed, Sends, Recovers
    <2>2. CASE job[u].ctx = "own"
      BY <2>1, <2>2 DEF Reclaims
    <2>3. CASE job[u].ctx = "sweep"
      BY <2>1, <2>3 DEF Claim, NotBeingSwept, Undisturbed, AreaOf, Has
    <2> QED
      BY <2>1, <2>2, <2>3, Holding DEF Recovers
  <1>10. OnePlace(m)'
    BY <1>4, <1>5 DEF OnePlace, Clear
  <1>11. Owned(m)'
    <2>1. \A u \in Workers \ {w} : Has(u, m)' => ~Sends(u, m)' /\ job'[u].area # w
      BY <1>2, <1>9 DEF Aside
    <2>2. Clear(m, w)'
      BY <1>4, <1>5 DEF Clear
    <2>3. Owns(w, m)'
      BY <1>1, <1>2, <1>5, <1>6, <2>1, <2>2 DEF Owns, HoldsFile
    <2> QED
      BY <1>9, <2>3 DEF Owned, Sends
  <1>12. Reclaimed(m)'
    <2> SUFFICES ASSUME NEW v \in Workers, Recovers(v, m)'
                 PROVE  Reclaims(v, m)'
      BY DEF Reclaimed
    <2>1. v # w /\ pc'[v] = pc[v] /\ job'[v] = job[v] /\ Recovers(v, m) /\ job[v].area # w
      BY <1>2, <1>3, <1>9 DEF Recovers, Sends, Aside
    <2>2. Reclaims(v, m) /\ job[v].area \in Workers
      BY <2>1, Holding DEF Custody, Reclaimed, Recovers
    <2>3. pc[v] \notin {"unlink", "unmark"}
      BY <1>4, <2>2 DEF Reclaims, Clear
    <2> QED
      BY <1>5, <2>1, <2>2, <2>3 DEF Reclaims
  <1>13. m \notin ledger
    BY <1>4 DEF Custody, Marked
  <1>14. Marked(m)'
    BY <1>7, <1>13 DEF Marked
  <1>15. Unspent(m)
    BY <1>4 DEF Custody, Counted
  <1>16. Counted(m)'
    BY <1>7, <1>15, Counts DEF Counted, Unspent
  <1>17. Unborn(m)'
    BY <1>4, <1>7 DEF Custody, Unborn
  <1> QED
    BY <1>10, <1>11, <1>12, <1>14, <1>16, <1>17 DEF Custody

-------------------------------------------------------------------------------
(* Going on with a file in hand, and letting go of it. *)

\* A daemon forgets a mail (it dies, or is done) and leaves its files where they are.
LetsGo(w, m) ==
    /\ ~Has(w, m)'
    /\ pending'[m] = pending[m] /\ failed'[m] = failed[m]
    /\ \A b \in Workers : sending'[b][m] = sending[b][m]
    /\ stale' \subseteq stale /\ ledger' \subseteq ledger
    /\ m \in ledger \ ledger' => \A b \in Workers : sending[b][m] = "none"
    /\ UNCHANGED <<spooled, accepted>> /\ lostTrack'[m] >= lostTrack[m]
    /\ Sends(w, m) /\ pc[w] = "ledger" => accepted[m] <= lostTrack'[m]

LEMMA LetGoKeeps ==
    ASSUME TypeOK, TypeOK', NEW w \in Workers, NEW m \in Mails, Custody(m), Has(w, m),
           Aside(w), LetsGo(w, m)
    PROVE  Custody(m)'
  <1>1. \A v \in Workers : Has(v, m)' =>
           v # w /\ Has(v, m) /\ pc'[v] = pc[v] /\ job'[v] = job[v]
    BY DEF Has, Aside, LetsGo
  <1>2. \A v \in Workers : Sends(v, m)' => Sends(v, m)
    BY <1>1 DEF Sends
  <1>3. \A b \in Workers : Clear(m, b) => Clear(m, b)'
    BY DEF Clear, LetsGo
  <1>4. OnePlace(m)'
    BY <1>3 DEF Custody, OnePlace, LetsGo
  <1>5. Owned(m)'
    <2> SUFFICES ASSUME NEW v \in Workers, Sends(v, m)'
                 PROVE  Owns(v, m)'
      BY DEF Owned
    <2>1. Owns(v, m) /\ pc'[v] = pc[v] /\ job'[v] = job[v]
      BY <1>1, <1>2 DEF Custody, Owned, Sends
    <2>2. \A u \in Workers \ {v} : Has(u, m)' => ~Sends(u, m)' /\ job'[u].area # v
      BY <1>1, <1>2, <2>1 DEF Owns
    <2> QED
      BY <1>3, <2>1, <2>2 DEF Owns, LetsGo
  <1>6. Reclaimed(m)'
    <2> SUFFICES ASSUME NEW v \in Workers, Recovers(v, m)'
                 PROVE  Reclaims(v, m)'
      BY DEF Reclaimed
    <2>1. pc'[v] = pc[v] /\ job'[v] = job[v] /\ Recovers(v, m)
      BY <1>1 DEF Recovers
    <2>2. Reclaims(v, m) /\ job[v].area \in Workers
      BY <2>1, Holding DEF Custody, Reclaimed, Recovers
    <2> QED
      BY <1>2, <1>3, <2>1, <2>2 DEF Reclaims, LetsGo
  <1>7. Marked(m)'
    BY <1>1, <1>2 DEF Custody, Marked, LetsGo, Sends
  <1>8. Unspent(m) => Unspent(m)'
    BY Counts DEF Unspent, LetsGo, TypeOK, OthersTyped
  <1>9. Counted(m)'
    <2>1. accepted'[m] <= 1 + lostTrack'[m]
      BY Counts DEF Custody, Counted, LetsGo, TypeOK, OthersTyped
    <2>2. ASSUME NEW a \in Workers, sending'[a][m] # "none", m \notin ledger',
                 ~(Sends(a, m)' /\ pc'[a] = "ledger")
          PROVE  Unspent(m)'
      <3>1. CASE Sends(a, m) /\ pc[a] = "ledger"
        <4>1. a = w
          BY <2>2, <3>1 DEF Aside, Sends, Has
        <4> QED
          BY <3>1, <4>1 DEF LetsGo, Unspent
      <3>2. CASE ~(Sends(a, m) /\ pc[a] = "ledger")
        BY <1>8, <2>2, <3>2 DEF LetsGo, Custody, Counted
      <3> QED
        BY <3>1, <3>2
    <2> QED
      BY <1>1, <1>2, <1>8, <2>1, <2>2 DEF Custody, Counted, LetsGo, Sends
  <1>10. Unborn(m)'
    BY DEF Custody, Unborn, LetsGo
  <1> QED
    BY <1>4, <1>5, <1>6, <1>7, <1>9, <1>10 DEF Custody

\* A sender takes its next step with the same file in hand.
SenderGoesOn(w, m) ==
    /\ Sends(w, m)' /\ job'[w].area = job[w].area
    /\ pending'[m] = pending[m] /\ failed'[m] = failed[m] /\ UNCHANGED spooled
    /\ \A b \in Workers \ {w} : sending'[b][m] = sending[b][m]
    /\ <<w, m>> \notin stale'
    /\ pc'[w] \in HoldsFile \union {"unmark", "log", "rewrite"}
    /\ pc'[w] \in HoldsFile => sending'[w][m] # "none"
    /\ pc'[w] \in {"unmark", "log"} => sending'[w][m] = "none"
    /\ m \in ledger' => pc'[w] \in {"file", "unlink", "unmark"}
    /\ accepted'[m] <= 1 + lostTrack'[m]
    /\ \/ pc'[w] \in {"touch", "decode", "send", "rewrite", "move"}
       \/ sending'[w][m] # "none" /\ m \notin ledger' /\ pc'[w] # "ledger"
       => accepted'[m] <= lostTrack'[m]

LEMMA SenderKeeps ==
    ASSUME TypeOK, NEW w \in Workers, NEW m \in Mails, Custody(m), Sends(w, m),
           Aside(w), SenderGoesOn(w, m)
    PROVE  Custody(m)'
  <1>1. Owns(w, m) /\ m \in spooled
    BY DEF Custody, Owned, Unborn, Sends
  <1>2. /\ pending'[m] = "none" /\ failed'[m] = "none"
        /\ \A b \in Workers \ {w} : sending'[b][m] = "none"
    BY <1>1 DEF Owns, Clear, SenderGoesOn
  <1>3. \A v \in Workers \ {w} : (Has(v, m)' <=> Has(v, m)) /\ (Sends(v, m)' <=> Sends(v, m))
    BY DEF Aside, Has, Sends
  <1>4. \A v \in Workers \ {w} : ~Sends(v, m)' /\ (Has(v, m)' => job'[v].area # w)
    BY <1>1, <1>3 DEF Owns, Aside, Sends
  <1>5. Clear(m, w)'
    BY <1>2 DEF Clear
  <1>6. OnePlace(m)'
    BY <1>2, <1>5 DEF OnePlace
  <1>7. Owned(m)'
    <2>1. Owns(w, m)'
      BY <1>1, <1>4, <1>5 DEF Owns, SenderGoesOn
    <2> QED
      BY <1>4, <2>1 DEF Owned
  <1>8. Reclaimed(m)'
    <2> SUFFICES ASSUME NEW v \in Workers, Recovers(v, m)'
                 PROVE  Reclaims(v, m)'
      BY DEF Reclaimed
    <2>1. v # w
      BY DEF SenderGoesOn, Sends, Recovers
    <2>2. pc'[v] = pc[v] /\ job'[v] = job[v] /\ Recovers(v, m) /\ job[v].area # w
      BY <1>4, <2>1 DEF Aside, Recovers, Has
    <2>3. Reclaims(v, m) /\ job[v].area \in Workers
      BY <2>2, Holding DEF Custody, Reclaimed, Recovers
    <2>4. pc[v] \notin {"unlink", "unmark"}
      BY <2>3 DEF Reclaims
    <2> QED
      BY <1>2, <2>2, <2>3, <2>4 DEF Reclaims
  <1>9. Marked(m)'
    BY <1>2, <1>4 DEF Marked, SenderGoesOn
  <1>10. Counted(m)'
    BY <1>2, <1>4 DEF Counted, Unspent, SenderGoesOn
  <1>11. Unborn(m)'
    BY <1>1 DEF Unborn, SenderGoesOn
  <1> QED
    BY <1>6, <1>7, <1>8, <1>9, <1>10, <1>11 DEF Custody

\* A recovery takes its next step with the same file in hand.
RecovererGoesOn(w, m) ==
    /\ Recovers(w, m)' /\ job'[w] = job[w] /\ Reclaims(w, m)'
    /\ pending'[m] = pending[m] /\ failed'[m] = failed[m]
    /\ UNCHANGED <<spooled, ledger, accepted, lostTrack>> /\ stale' \subseteq stale
    /\ \A b \in Workers \ {job[w].area} : sending'[b][m] = sending[b][m]
    /\ sending'[job[w].area][m] \in {sending[job[w].area][m], "none"}

LEMMA RecovererKeeps ==
    ASSUME TypeOK, NEW w \in Workers, NEW m \in Mails, Custody(m), Recovers(w, m),
           Aside(w), RecovererGoesOn(w, m)
    PROVE  Custody(m)'
  <1> DEFINE r == job[w].area
  <1>1. r \in Workers /\ Has(w, m) /\ ~Sends(w, m)
    BY Holding DEF Recovers, Sends
  <1>2. \A v \in Workers : (Has(v, m)' <=> Has(v, m)) /\ (Sends(v, m)' <=> Sends(v, m))
    BY DEF Aside, RecovererGoesOn, Recovers, Sends, Has
  <1>3. \A v \in Workers \ {w} : Recovers(v, m)' <=> Recovers(v, m)
    BY DEF Aside, Has, Recovers
  <1>4. \A b \in Workers : Clear(m, b) => Clear(m, b)'
    BY <1>1 DEF Clear, RecovererGoesOn
  <1>5. \A b \in Workers : sending'[b][m] # "none" => sending'[b][m] = sending[b][m]
    BY <1>1 DEF RecovererGoesOn
  <1>6. OnePlace(m)'
    BY <1>4, <1>5 DEF Custody, OnePlace, RecovererGoesOn
  <1>7. Owned(m)'
    <2> SUFFICES ASSUME NEW v \in Workers, Sends(v, m)
                 PROVE  Owns(v, m)'
      BY <1>2 DEF Owned
    <2>1. Owns(v, m) /\ v # w
      BY <1>1 DEF Custody, Owned
    <2>2. pc'[v] = pc[v] /\ job'[v] = job[v]
      BY <2>1 DEF Aside
    <2>3. sending'[v][m] = sending[v][m]
      BY <1>1, <2>1 DEF Owns, RecovererGoesOn
    <2>4. \A u \in Workers \ {v} : Has(u, m)' => ~Sends(u, m)' /\ job'[u].area # v
      BY <1>2, <2>1 DEF Owns, Aside, RecovererGoesOn
    <2>5. Clear(m, v)' /\ <<v, m>> \notin stale'
      BY <1>4, <2>1 DEF Owns, RecovererGoesOn
    <2> QED
      BY <2>1, <2>2, <2>3, <2>4, <2>5 DEF Owns
  <1>8. Reclaimed(m)'
    <2> SUFFICES ASSUME NEW v \in Workers \ {w}, Recovers(v, m)'
                 PROVE  Reclaims(v, m)'
      BY DEF Reclaimed, RecovererGoesOn
    <2>1. pc'[v] = pc[v] /\ job'[v] = job[v] /\ Recovers(v, m)
      BY <1>3 DEF Aside
    <2>2. Reclaims(v, m) /\ job[v].area \in Workers
      BY <2>1, Holding DEF Custody, Reclaimed, Recovers
    <2>3. ledger' = ledger
      BY DEF RecovererGoesOn
    <2> QED
      BY <1>2, <1>4, <1>5, <2>1, <2>2, <2>3 DEF Reclaims
  <1>9. Marked(m)'
    BY <1>1, <1>2 DEF Custody, Marked, RecovererGoesOn, Aside
  <1>10. Counted(m)'
    BY <1>1, <1>2, <1>5 DEF Custody, Counted, Unspent, RecovererGoesOn, Aside
  <1>11. Unborn(m)'
    BY <1>1 DEF Custody, Unborn, RecovererGoesOn
  <1> QED
    BY <1>6, <1>7, <1>8, <1>9, <1>10, <1>11 DEF Custody

\* A sender dies over a half-written file.
LEMMA TearKeeps ==
    ASSUME CustodyInv, NEW w \in Workers, NEW m \in Mails, Has(w, m), Tear(w)
    PROVE  Custody(m)'
  <1> USE DEF CustodyInv
  <1>1. pc[w] = "rewrite" /\ Custody(m) /\ job[w] \in Jobs /\ job[w].mail = m
        /\ job[w].area \in Workers
    BY Holding DEF Tear
  <1>2. Sends(w, m) /\ Owns(w, m)
    BY <1>1 DEF Custody, Reclaimed, Reclaims, Recovers, Sends, Owned
  <1>3. ~Has(w, m)' /\ Aside(w)
    BY DEF Tear, Dies, Goto, TypeOK, DaemonsTyped, Has, Aside
  <1>4. /\ sending'[w][m] # "none"
        /\ \A b \in Workers \ {w} : sending'[b][m] = "none"
    BY <1>1, <1>2, PutEffect DEF Tear, Owns, Clear
  <1>5. /\ pending' = pending /\ failed' = failed /\ ledger' = ledger /\ accepted' = accepted
        /\ lostTrack' = lostTrack /\ spooled' = spooled
    BY DEF Tear, ghost
  <1>6. pending[m] = "none" /\ failed[m] = "none" /\ m \notin ledger /\ m \in spooled
    BY <1>1, <1>2 DEF Owns, Clear, Custody, Marked, Unborn, Sends
  <1>7. \A u \in Workers : ~Sends(u, m)'
    BY <1>2, <1>3 DEF Owns, Aside, Sends, Has
  <1>8. Reclaimed(m)'
    <2> SUFFICES ASSUME NEW v \in Workers, Recovers(v, m)'
                 PROVE  Reclaims(v, m)'
      BY DEF Reclaimed
    <2>1. v # w /\ pc'[v] = pc[v] /\ job'[v] = job[v] /\ Recovers(v, m) /\ job[v].area # w
      BY <1>2, <1>3 DEF Recovers, Has, Aside, Owns
    <2>2. Reclaims(v, m) /\ job[v].area \in Workers
      BY <1>1, <2>1, Holding DEF Custody, Reclaimed, Recovers
    <2>3. pc[v] \notin {"unlink", "unmark"}
      BY <1>2, <2>2 DEF Reclaims
    <2> QED
      BY <1>4, <2>1, <2>2, <2>3 DEF Reclaims
  <1>9. Counted(m)'
    BY <1>1, <1>2, <1>5 DEF Custody, Counted, Unspent
  <1>10. OnePlace(m)' /\ Owned(m)' /\ Marked(m)' /\ Unborn(m)'
    BY <1>4, <1>5, <1>6, <1>7 DEF OnePlace, Clear, Owned, Marked, Unborn
  <1> QED
    BY <1>8, <1>9, <1>10 DEF Custody

-------------------------------------------------------------------------------
(* The steps of a daemon, at the mail it has in hand. *)

\* Who is at which step: only a sender gets to SMTP, only a recovery re-queues.
LEMMA Roles ==
    ASSUME CustodyInv, NEW w \in Workers, NEW m \in Mails, Has(w, m)
    PROVE  /\ Custody(m) /\ m \in spooled
           /\ Sends(w, m) => Owns(w, m) /\ pc[w] \notin {"recover", "putBack"}
           /\ ~Sends(w, m) => Recovers(w, m) /\ Reclaims(w, m)
                              /\ pc[w] \in {"recover", "putBack", "file", "unlink", "unmark"}
  <1>1. Custody(m)
    BY DEF CustodyInv
  <1> QED
    BY <1>1 DEF Custody, Unborn, Owned, Owns, Reclaimed, Reclaims, Sends, Recovers, HoldsFile

\* What the bookkeeping of a step does to the file in hand.
LEMMA Released ==
    ASSUME TypeOK, NEW w \in Workers, NEW m \in Mails, Has(w, m), Resume(w) \/ Dies(w)
    PROVE  ~Has(w, m)'
  BY DEF Resume, Dies, Has, TypeOK, DaemonsTyped

LEMMA Caught ==
    ASSUME TypeOK, NEW w \in Workers, NEW m \in Mails, Has(w, m), NEW d \in {"pending", "failed"},
           Catch(w, d)
    PROVE  /\ pc'[w] = "rewrite" /\ Has(w, m)' /\ job'[w].area = job[w].area
           /\ job'[w].ctx = job[w].ctx
  <1> DEFINE j == [mail |-> job[w].mail, area |-> job[w].area, ctx |-> job[w].ctx, dest |-> d]
  <1>1. job[w] \in Jobs /\ job[w].mail = m
    BY Holding
  <1>2. j \in Jobs /\ j.mail = m /\ j.area = job[w].area /\ j.ctx = job[w].ctx
    BY <1>1, JobFields, JobMade
  <1>3. job'[w] = j /\ pc'[w] = "rewrite"
    BY DEF Catch, Goto, TypeOK, DaemonsTyped
  <1> HIDE DEF j
  <1> QED
    BY <1>2, <1>3, JobFields DEF Has

LEMMA Went ==
    ASSUME TypeOK, NEW w \in Workers, NEW m \in Mails, NEW l, Goto(w, l), job' = job
    PROVE  /\ pc'[w] = l /\ job'[w] = job[w]
           /\ (Has(w, m)' <=> Has(w, m)) /\ (Sends(w, m)' <=> Sends(w, m))
           /\ Recovers(w, m)' <=> Recovers(w, m)
  BY DEF Goto, TypeOK, DaemonsTyped, Has, Sends, Recovers

LEMMA StepAside ==
    ASSUME TypeOK, NEW w \in Workers,
           Step(w) \/ SendLostReply(w) \/ Tear(w) \/ Crash(w) \/ Stop(w) \/ Housekeep(w)
    PROVE  Aside(w)
  BY DaemonStep DEF Aside

LEMMA RecoverKeeps ==
    ASSUME CustodyInv, NEW w \in Workers, NEW m \in Mails, Has(w, m), Recover(w)
    PROVE  Custody(m)'
  <1> USE DEF CustodyInv
  <1>1. Recovers(w, m) /\ Reclaims(w, m) /\ Custody(m) /\ job[w].mail = m
    BY Roles, Holding DEF Recover
  <1>2. Aside(w)
    BY StepAside DEF Step
  <1>3. /\ pc'[w] = (IF m \in ledger THEN "file" ELSE "putBack")
        /\ job'[w] = job[w] /\ Recovers(w, m)'
    BY <1>1, Went DEF Recover
  <1>4. Reclaims(w, m)'
    BY <1>1, <1>3 DEF Reclaims, Recover, files
  <1> QED
    BY <1>1, <1>2, <1>3, <1>4, RecovererKeeps DEF RecovererGoesOn, Recover, files, ghost

LEMMA PutBackKeeps ==
    ASSUME CustodyInv, TypeOK', NEW w \in Workers, NEW m \in Mails, Has(w, m), PutBack(w)
    PROVE  Custody(m)'
  <1> USE DEF CustodyInv
  <1>1. Recovers(w, m) /\ Reclaims(w, m) /\ Custody(m) /\ ~Sends(w, m) /\ pc[w] \notin Idling
        /\ job[w].mail = m /\ job[w].area \in Workers /\ InHand(w) = sending[job[w].area][m]
    BY Roles, Holding DEF PutBack, Recovers, Sends
  <1>2. Aside(w)
    BY StepAside DEF Step
  <1>3. ~Has(w, m)'
    BY Released DEF PutBack
  <1>4. CASE InHand(w) # "none"
    <2>1. \A u \in Workers \ {w} : ~Sends(u, m)
      BY <1>1, <1>4, NoOtherSender
    <2>2. m \notin ledger
      BY <1>1, <1>4 DEF Reclaims, PutBack
    <2>3. Unspent(m)
      BY <1>1, <1>4, <2>1, <2>2 DEF Custody, Counted
    <2>4. HandsBack(w, m)
      BY <1>1, <1>3, <1>4, DropEffect DEF PutBack, HandsBack, TypeOK, FilesTyped
    <2> QED
      BY <1>1, <1>2, <1>4, <2>1, <2>2, <2>3, <2>4, HandedBack
  <1>5. CASE InHand(w) = "none"
    <2>1. LetsGo(w, m)
      BY <1>1, <1>3, <1>5, Counts DEF LetsGo, PutBack, ghost
    <2> QED
      BY <1>1, <1>2, <2>1, LetGoKeeps
  <1> QED
    BY <1>4, <1>5

\* A daemon that talks to SMTP sends the file from its own area, and alone.
LEMMA AtSend ==
    ASSUME CustodyInv, NEW w \in Workers, NEW m \in Mails, Has(w, m),
           pc[w] \in {"touch", "decode", "send", "ledger", "log", "rewrite", "move"}
    PROVE  /\ Sends(w, m) /\ Owns(w, m) /\ Custody(m)
           /\ job[w].mail = m /\ job[w].area = w /\ job[w].ctx = "batch" /\ pc[w] \notin Idling
           /\ InHand(w) = sending[w][m]
           /\ pc[w] \notin {"log", "rewrite"} => sending[w][m] # "none"
           /\ m \notin ledger
           /\ pc[w] \notin {"ledger", "log"} => Unspent(m)
           /\ \A u \in Workers \ {w} : ~Sends(u, m)
  <1>1. Sends(w, m) /\ Owns(w, m) /\ Custody(m)
    BY Roles
  <1>2. job[w].mail = m /\ job[w].area = w /\ InHand(w) = sending[w][m] /\ pc[w] \notin Idling
        /\ job[w].ctx = "batch"
    BY <1>1, Holding DEF Owns, Sends, CustodyInv
  <1>3. pc[w] \notin {"log", "rewrite"} => sending[w][m] # "none"
    BY <1>1 DEF Owns, HoldsFile
  <1>4. m \notin ledger
    BY <1>1 DEF Custody, Marked
  <1>5. pc[w] \notin {"ledger", "log"} => Unspent(m)
    BY <1>1 DEF Custody, Counted
  <1>6. \A u \in Workers \ {w} : ~Sends(u, m)
    BY <1>1 DEF Owns, Sends
  <1> QED
    BY <1>1, <1>2, <1>3, <1>4, <1>5, <1>6

LEMMA TouchKeeps ==
    ASSUME CustodyInv, NEW w \in Workers, NEW m \in Mails, Has(w, m), Touch(w) \/ Rewrite(w)
    PROVE  Custody(m)'
  <1> USE DEF CustodyInv
  <1>1. pc[w] \in {"touch", "rewrite"} /\ Aside(w)
    BY StepAside DEF Step, Touch, Rewrite
  <1>2. Sends(w, m)' /\ job'[w] = job[w] /\ pc'[w] \in {"decode", "move"}
    BY <1>1, AtSend, Went DEF Touch, Rewrite
  <1>3. /\ sending'[w][m] # "none" /\ <<w, m>> \notin stale'
        /\ \A b \in Workers \ {w} : sending'[b][m] = sending[b][m]
    BY <1>1, AtSend, PutEffect DEF Touch, Rewrite
  <1>4. SenderGoesOn(w, m)
    BY <1>1, <1>2, <1>3, AtSend, Counts DEF SenderGoesOn, Touch, Rewrite, ghost, HoldsFile, Unspent
  <1> QED
    BY <1>1, <1>4, AtSend, SenderKeeps

LEMMA DecodeKeeps ==
    ASSUME CustodyInv, TypeOK', NEW w \in Workers, NEW m \in Mails, Has(w, m), Decode(w)
    PROVE  Custody(m)'
  <1> USE DEF CustodyInv
  <1>1. pc[w] = "decode" /\ Aside(w)
    BY StepAside DEF Step, Decode
  <1>2. CASE Goto(w, "send") /\ UNCHANGED <<sending, stale, pending, failed, job>>
    <2>1. Sends(w, m)' /\ job'[w] = job[w] /\ pc'[w] = "send"
      BY <1>1, <1>2, AtSend, Went
    <2>2. SenderGoesOn(w, m)
      BY <1>1, <1>2, <2>1, AtSend, Counts DEF SenderGoesOn, Decode, ghost, HoldsFile, Unspent, Owns
    <2> QED
      BY <1>1, <2>2, AtSend, SenderKeeps
  <1>3. CASE Drop(w) /\ Resume(w)
             /\ \/ failed' = [failed EXCEPT ![job[w].mail] = InHand(w)] /\ pending' = pending
                \/ pending' = [pending EXCEPT ![job[w].mail] = InHand(w)] /\ failed' = failed
    <2>1. ~Has(w, m)'
      BY <1>3, Released
    <2>2. HandsBack(w, m)
      BY <1>1, <1>3, <2>1, AtSend, DropEffect DEF Decode, HandsBack, TypeOK, FilesTyped
    <2> QED
      BY <1>1, <2>2, AtSend, HandedBack
  <1> QED
    BY <1>1, <1>2, <1>3, AtSend DEF Decode

LEMMA MoveKeeps ==
    ASSUME CustodyInv, NEW w \in Workers, NEW m \in Mails, Has(w, m), Move(w)
    PROVE  Custody(m)'
  <1> USE DEF CustodyInv
  <1>1. pc[w] = "move" /\ Aside(w)
    BY StepAside DEF Step, Move
  <1>2. Drop(w) /\ Resume(w)
        /\ \/ failed' = [failed EXCEPT ![job[w].mail] = InHand(w)] /\ pending' = pending
           \/ pending' = [pending EXCEPT ![job[w].mail] = InHand(w)] /\ failed' = failed
    BY <1>1, AtSend DEF Move
  <1>3. ~Has(w, m)'
    BY <1>2, Released
  <1>4. HandsBack(w, m)
    BY <1>1, <1>2, <1>3, AtSend, DropEffect DEF Move, HandsBack, TypeOK, FilesTyped
  <1> QED
    BY <1>1, <1>4, AtSend, HandedBack

LEMMA SendKeeps ==
    ASSUME CustodyInv, NEW w \in Workers, NEW m \in Mails, Has(w, m),
           SendAccepted(w) \/ SendLostReply(w) \/ \E d \in {"pending", "failed"} : SendFails(w, d)
    PROVE  Custody(m)'
  <1> USE DEF CustodyInv
  <1>1. pc[w] = "send" /\ Aside(w) /\ UNCHANGED <<pending, failed, sending, stale, ledger, spooled>>
    BY StepAside DEF Step, SendAccepted, SendLostReply, SendFails, files
  <1>2. accepted[m] \in Nat /\ lostTrack[m] \in Nat /\ Unspent(m)
    BY <1>1, Counts, AtSend
  <1>3. CASE SendAccepted(w)
    <2>1. Sends(w, m)' /\ job'[w] = job[w] /\ pc'[w] = "ledger"
      BY <1>1, <1>3, AtSend, Went DEF SendAccepted
    <2>2. accepted'[m] = accepted[m] + 1 /\ lostTrack'[m] = lostTrack[m]
      BY <1>1, <1>3, AtSend DEF SendAccepted, Accept, TypeOK, OthersTyped
    <2>3. SenderGoesOn(w, m)
      BY <1>1, <1>2, <2>1, <2>2, AtSend DEF SenderGoesOn, HoldsFile, Unspent, Owns
    <2> QED
      BY <1>1, <2>3, AtSend, SenderKeeps
  <1>4. CASE SendLostReply(w) \/ \E d \in {"pending", "failed"} : SendFails(w, d)
    <2>1. Sends(w, m)' /\ job'[w].area = job[w].area /\ pc'[w] = "rewrite"
      BY <1>1, <1>4, AtSend, Caught DEF SendLostReply, SendFails, Sends
    <2>2. accepted'[m] <= lostTrack'[m]
      BY <1>1, <1>2, <1>4, AtSend DEF SendLostReply, SendFails, Accept, LoseTrack, Unspent, ghost,
         TypeOK, OthersTyped
    <2>3. accepted'[m] \in Nat /\ lostTrack'[m] \in Nat
      BY <1>1, <1>2, <1>4, AtSend DEF SendLostReply, SendFails, Accept, LoseTrack, ghost,
         TypeOK, OthersTyped
    <2>4. SenderGoesOn(w, m)
      BY <1>1, <2>1, <2>2, <2>3, AtSend DEF SenderGoesOn, HoldsFile, Owns
    <2> QED
      BY <1>1, <2>4, AtSend, SenderKeeps
  <1> QED
    BY <1>3, <1>4

LEMMA WriteLedgerKeeps ==
    ASSUME CustodyInv, NEW w \in Workers, NEW m \in Mails, Has(w, m), WriteLedger(w)
    PROVE  Custody(m)'
  <1> USE DEF CustodyInv
  <1>1. pc[w] = "ledger" /\ Aside(w) /\ UNCHANGED <<pending, failed, sending, stale, accepted, spooled>>
    BY StepAside DEF Step, WriteLedger
  <1>2. accepted[m] \in Nat /\ lostTrack[m] \in Nat /\ accepted[m] <= 1 + lostTrack[m]
    BY <1>1, Counts, AtSend DEF Custody, Counted
  <1>3. Sends(w, m)' /\ job'[w] = job[w] /\ pc'[w] = "file"
    BY <1>1, AtSend, Went DEF WriteLedger
  <1>4. \/ m \in ledger' /\ lostTrack'[m] = lostTrack[m]
        \/ ledger' = ledger /\ lostTrack'[m] = lostTrack[m] + 1
    BY <1>1, AtSend DEF WriteLedger, LoseTrack, TypeOK, OthersTyped
  <1>5. SenderGoesOn(w, m)
    BY <1>1, <1>2, <1>3, <1>4, AtSend DEF SenderGoesOn, HoldsFile, Owns
  <1> QED
    BY <1>1, <1>5, AtSend, SenderKeeps

LEMMA LogSendKeeps ==
    ASSUME CustodyInv, TypeOK', NEW w \in Workers, NEW m \in Mails, Has(w, m), LogSend(w)
    PROVE  Custody(m)'
  <1> USE DEF CustodyInv
  <1>1. pc[w] = "log" /\ Aside(w) /\ UNCHANGED <<files, accepted, spooled>>
    BY StepAside DEF Step, LogSend
  <1>2. accepted[m] \in Nat /\ lostTrack[m] \in Nat /\ accepted[m] <= 1 + lostTrack[m]
    BY <1>1, Counts, AtSend DEF Custody, Counted
  <1>3. CASE Resume(w) /\ lostTrack' = lostTrack
    <2>1. ~Has(w, m)'
      BY <1>3, Released
    <2>2. LetsGo(w, m)
      BY <1>1, <1>2, <1>3, <2>1 DEF LetsGo, files
    <2> QED
      BY <1>1, <2>2, AtSend, LetGoKeeps
  <1>4. CASE Catch(w, "pending") /\ LoseTrack(job[w].mail)
    <2>1. Sends(w, m)' /\ job'[w].area = job[w].area /\ pc'[w] = "rewrite"
      BY <1>1, <1>4, AtSend, Caught DEF Sends
    <2>2. lostTrack'[m] = lostTrack[m] + 1
      BY <1>1, <1>4, AtSend DEF LoseTrack, TypeOK, OthersTyped
    <2>3. SenderGoesOn(w, m)
      BY <1>1, <1>2, <2>1, <2>2, AtSend DEF SenderGoesOn, HoldsFile, Owns, files
    <2> QED
      BY <1>1, <2>3, AtSend, SenderKeeps
  <1> QED
    BY <1>3, <1>4 DEF LogSend

\* Filing: what is unlinked is the mail's only copy, and SMTP has it.
LEMMA FileKeeps ==
    ASSUME CustodyInv, NEW w \in Workers, NEW m \in Mails, Has(w, m), File(w) \/ Unlink(w)
    PROVE  Custody(m)'
  <1> USE DEF CustodyInv
  <1> DEFINE r == job[w].area
  <1>1. /\ pc[w] \in {"file", "unlink"} /\ Aside(w) /\ pc[w] \notin Idling /\ Custody(m)
        /\ job[w].mail = m /\ r \in Workers /\ InHand(w) = sending[r][m] /\ m \in spooled
    BY StepAside, Holding, Roles DEF Step, File, Unlink
  <1>2. UNCHANGED <<pending, failed, ledger, accepted, spooled>>
    BY DEF File, Unlink, ghost
  <1>3. accepted[m] \in Nat /\ lostTrack[m] \in Nat
    BY Counts
  <1>4. CASE Sends(w, m)
    <2>1. Owns(w, m) /\ r = w /\ sending[w][m] # "none"
      BY <1>1, <1>4, Roles DEF Owns, HoldsFile
    <2>2. m \notin ledger => Unspent(m)
      BY <1>1, <2>1 DEF Custody, Counted
    <2>3. accepted[m] <= 1 + lostTrack[m]
      BY <1>1 DEF Custody, Counted
    <2>4. lostTrack' = lostTrack /\ job' = job
          /\ \/ Goto(w, "unlink") /\ UNCHANGED <<sending, stale>>
             \/ Goto(w, "unmark") /\ Drop(w)
      BY <1>1, <2>1 DEF File, Unlink, ghost
    <2>5. Sends(w, m)' /\ job'[w] = job[w]
      BY <1>4, <2>4, Went
    <2>6. CASE Goto(w, "unlink") /\ UNCHANGED <<sending, stale>>
      <3>1. pc'[w] = "unlink"
        BY <2>4, <2>6, Went
      <3>2. SenderGoesOn(w, m)
        BY <1>2, <1>3, <2>1, <2>2, <2>3, <2>4, <2>5, <2>6, <3>1
           DEF SenderGoesOn, HoldsFile, Owns, Unspent
      <3> QED
        BY <1>1, <1>4, <3>2, SenderKeeps
    <2>7. CASE Goto(w, "unmark") /\ Drop(w)
      <3>1. pc'[w] = "unmark"
        BY <2>4, <2>7, Went
      <3>2. SenderGoesOn(w, m)
        BY <1>1, <1>2, <1>3, <2>1, <2>3, <2>4, <2>5, <2>7, <3>1, DropEffect
           DEF SenderGoesOn, HoldsFile, Owns
      <3> QED
        BY <1>1, <1>4, <3>2, SenderKeeps
    <2> QED
      BY <2>4, <2>6, <2>7
  <1>5. CASE ~Sends(w, m)
    <2>1. Recovers(w, m) /\ Reclaims(w, m)
      BY <1>5, Roles
    <2>2. lostTrack' = lostTrack /\ job' = job
          /\ \/ pc[w] = "file" /\ Goto(w, "unlink") /\ UNCHANGED <<sending, stale>> /\ sending[r][m] # "none"
             \/ Goto(w, "unmark") /\ Drop(w) /\ (pc[w] = "unlink" \/ sending[r][m] # "none")
             \/ Goto(w, "putBack") /\ UNCHANGED <<sending, stale>> /\ sending[r][m] = "none"
      BY <1>1, <2>1 DEF File, Unlink, ghost, Recovers
    <2>3. Recovers(w, m)' /\ job'[w] = job[w] /\ ~Sends(w, m)'
      BY <1>5, <2>1, <2>2, Went
    <2>4. pc[w] = "unlink" \/ sending[r][m] # "none" =>
              Clear(m, r) /\ \A u \in Workers : ~Sends(u, m)
      BY <1>1, <1>5, <2>1, NoOtherSender DEF Reclaims, Custody, OnePlace
    <2>5. \A u \in Workers : Sends(u, m)' => Sends(u, m)
      BY <1>1, <2>3 DEF Aside, Sends, Has
    <2>6. CASE pc[w] = "file" /\ Goto(w, "unlink") /\ UNCHANGED <<sending, stale>> /\ sending[r][m] # "none"
      <3>1. pc'[w] = "unlink"
        BY <2>2, <2>6, Went
      <3>2. Clear(m, r)'
        BY <1>2, <2>3, <2>4, <2>6 DEF Clear
      <3>3. Reclaims(w, m)'
        BY <1>2, <2>1, <2>3, <2>4, <2>5, <2>6, <3>1, <3>2 DEF Reclaims
      <3> QED
        BY <1>1, <1>2, <2>1, <2>2, <2>3, <2>6, <3>3, RecovererKeeps DEF RecovererGoesOn
    <2>7. CASE Goto(w, "unmark") /\ Drop(w) /\ (pc[w] = "unlink" \/ sending[r][m] # "none")
      <3>1. pc'[w] = "unmark" /\ sending'[r][m] = "none" /\ stale' \subseteq stale
            /\ \A b \in Workers \ {r} : sending'[b][m] = sending[b][m]
        BY <1>1, <2>2, <2>7, Went, DropEffect
      <3>2. Clear(m, r)'
        BY <1>2, <2>4, <2>7, <3>1 DEF Clear
      <3>3. Reclaims(w, m)'
        BY <1>5, <2>1, <2>3, <2>4, <2>5, <2>7, <3>1, <3>2 DEF Reclaims
      <3> QED
        BY <1>1, <1>2, <2>1, <2>2, <2>3, <3>1, <3>3, RecovererKeeps DEF RecovererGoesOn
    <2>8. CASE Goto(w, "putBack") /\ UNCHANGED <<sending, stale>> /\ sending[r][m] = "none"
      <3>1. pc'[w] = "putBack"
        BY <2>2, <2>8, Went
      <3>2. Reclaims(w, m)'
        BY <2>1, <2>3, <2>8, <3>1 DEF Reclaims
      <3> QED
        BY <1>1, <1>2, <2>1, <2>2, <2>3, <2>8, <3>2, RecovererKeeps DEF RecovererGoesOn
    <2> QED
      BY <2>2, <2>6, <2>7, <2>8
  <1> QED
    BY <1>4, <1>5

LEMMA UnmarkKeeps ==
    ASSUME CustodyInv, TypeOK', NEW w \in Workers, NEW m \in Mails, Has(w, m), Unmark(w)
    PROVE  Custody(m)'
  <1> USE DEF CustodyInv
  <1>1. /\ pc[w] = "unmark" /\ Aside(w) /\ Custody(m)
        /\ job[w].mail = m /\ job[w].area \in Workers /\ m \in spooled
    BY StepAside, Holding, Roles DEF Step, Unmark
  <1>2. UNCHANGED <<pending, failed, sending, stale, accepted, lostTrack, spooled>>
        /\ ledger' = ledger \ {m}
    BY <1>1 DEF Unmark, ghost
  <1>3. accepted[m] \in Nat /\ lostTrack[m] \in Nat /\ accepted[m] <= 1 + lostTrack[m]
    BY <1>1, Counts DEF Custody, Counted
  <1>4. CASE Sends(w, m)
    <2>1. Owns(w, m) /\ sending[w][m] = "none"
      BY <1>1, <1>4, Roles DEF Owns
    <2>2. Sends(w, m)' /\ job'[w] = job[w] /\ pc'[w] = "log"
      BY <1>4, Went DEF Unmark, Sends
    <2>3. SenderGoesOn(w, m)
      BY <1>2, <1>3, <2>1, <2>2 DEF SenderGoesOn, Owns, HoldsFile
    <2> QED
      BY <1>1, <1>4, <2>3, SenderKeeps
  <1>5. CASE ~Sends(w, m)
    <2>1. Recovers(w, m) /\ Reclaims(w, m)
      BY <1>5, Roles
    <2>2. \A b \in Workers : sending[b][m] = "none"
      BY <1>1, <2>1 DEF Reclaims, Clear
    <2>3. ~Has(w, m)'
      BY <2>1, Released DEF Unmark, Recovers
    <2>4. LetsGo(w, m)
      BY <1>1, <1>2, <1>3, <2>2, <2>3 DEF LetsGo
    <2> QED
      BY <1>1, <2>4, LetGoKeeps
  <1> QED
    BY <1>4, <1>5

LEMMA CrashKeeps ==
    ASSUME CustodyInv, TypeOK', NEW w \in Workers, NEW m \in Mails, Has(w, m), Crash(w)
    PROVE  Custody(m)'
  <1> USE DEF CustodyInv
  <1>1. Aside(w) /\ Custody(m) /\ job[w].mail = m /\ ~Has(w, m)'
    BY StepAside, Holding, Roles, Released DEF Crash
  <1>2. UNCHANGED <<files, accepted, spooled>>
    BY DEF Crash
  <1>3. lostTrack'[m] = IF pc[w] = "ledger" THEN lostTrack[m] + 1 ELSE lostTrack[m]
    BY <1>1 DEF Crash, LoseTrack, TypeOK, OthersTyped
  <1>4. accepted[m] \in Nat /\ lostTrack[m] \in Nat /\ accepted[m] <= 1 + lostTrack[m]
    BY <1>1, Counts DEF Custody, Counted
  <1>5. LetsGo(w, m)
    BY <1>1, <1>2, <1>3, <1>4 DEF LetsGo, files
  <1> QED
    BY <1>1, <1>5, LetGoKeeps

-------------------------------------------------------------------------------
(* Every step, at every mail. *)

\* A mail comes into a daemon's hand by a claim or by a reclaim.
Takes(w, a, m, c) ==
    /\ pc[w] = c /\ Take(w, a, m, c) /\ sending[a][m] # "none"
    /\ c = "own" => a = w
    /\ c = "sweep" => <<a, m>> \in stale

LEMMA Enters ==
    ASSUME TypeOK, NEW w \in Workers, NEW m \in Mails, ~Has(w, m), Has(w, m)',
           Step(w) \/ SendLostReply(w) \/ Tear(w) \/ Crash(w) \/ Stop(w) \/ Housekeep(w)
    PROVE  /\ job[w] = NoJob
           /\ \/ Claim(w, m) /\ UNCHANGED <<ghost, spooled>>
              \/ \E a \in Workers, c \in {"own", "sweep"} : Takes(w, a, m, c)
  <1> USE DEF TypeOK, DaemonsTyped
  <1>1. CASE \/ \E n \in Mails : OwnTake(w, n)
             \/ \E a \in Workers, n \in Mails : SweepTake(w, a, n)
    <2>1. PICK n \in Mails, a \in Workers, c \in {"own", "sweep"} : Takes(w, a, n, c)
      BY <1>1 DEF OwnTake, SweepTake, Sweepable, AreaOf, Takes
    <2>2. job[w] = NoJob
      BY <2>1 DEF Takes, Idling
    <2>3. n = m
      BY <2>1 DEF Takes, Take, Has
    <2> QED
      BY <2>1, <2>2, <2>3
  <1>2. CASE \E n \in Mails : NextFile(w, n)
    <2>1. PICK n \in Mails : NextFile(w, n)
      BY <1>2
    <2>2. job[w] = NoJob
      BY <2>1 DEF NextFile, Idling
    <2>3. Claim(w, n)
      BY <2>1 DEF NextFile, ClaimSkip, Has
    <2>4. n = m
      BY <2>3 DEF Claim, Has
    <2> QED
      BY <2>1, <2>2, <2>3, <2>4 DEF NextFile
  <1>3. CASE \/ Start(w) \/ OwnDone(w) \/ SweepDone(w) \/ StartBatch(w) \/ BatchDone(w)
             \/ Rest(w) \/ Housekeep(w)
    BY <1>3 DEF Start, OwnDone, SweepDone, StartBatch, BatchDone, Rest, Housekeep, Has
  <1>4. CASE Tear(w) \/ Crash(w) \/ Stop(w)
    BY <1>4 DEF Tear, Crash, Stop, Dies, Has
  <1>5. CASE Recover(w) \/ Touch(w) \/ SendAccepted(w) \/ WriteLedger(w) \/ Unlink(w) \/ Rewrite(w)
    BY <1>5 DEF Recover, Touch, SendAccepted, WriteLedger, Unlink, Rewrite, Has
  <1>6. CASE PutBack(w) \/ Decode(w) \/ Unmark(w) \/ Move(w)
    BY <1>6 DEF PutBack, Decode, Unmark, Move, Resume, Dies, Has
  <1>7. CASE \/ File(w) \/ LogSend(w) \/ SendLostReply(w)
             \/ \E dest \in {"pending", "failed"} : SendFails(w, dest)
    <2>1. pc[w] \notin Idling
      BY <1>7 DEF File, LogSend, SendLostReply, SendFails, Idling
    <2>2. job[w] # NoJob /\ job[w].mail # m
      BY <2>1, JobFields DEF Has
    <2> QED
      BY <1>7, <2>2 DEF File, LogSend, SendLostReply, SendFails, Catch, Resume, Has
  <1> QED
    BY <1>1, <1>2, <1>3, <1>4, <1>5, <1>6, <1>7 DEF Step

LEMMA DaemonKeeps ==
    ASSUME CustodyInv, TypeOK', Undisturbed, NEW w \in Workers, NEW m \in Mails,
           Step(w) \/ SendLostReply(w) \/ Tear(w) \/ Crash(w) \/ Stop(w) \/ Housekeep(w)
    PROVE  Custody(m)'
  <1>1. CASE Has(w, m)
    <2>1. pc[w] \notin Idling
      BY <1>1, Holding DEF CustodyInv
    <2>2. Step(w) \/ SendLostReply(w) \/ Tear(w) \/ Crash(w)
      BY <2>1 DEF Stop, Housekeep, Idling
    <2>3. ASSUME Step(w)
          PROVE  \/ Recover(w) \/ PutBack(w) \/ Touch(w) \/ Decode(w)
                 \/ SendAccepted(w) \/ (\E dest \in {"pending", "failed"} : SendFails(w, dest))
                 \/ WriteLedger(w) \/ File(w) \/ Unlink(w) \/ Unmark(w) \/ LogSend(w)
                 \/ Rewrite(w) \/ Move(w)
      BY <2>1, <2>3 DEF Step, Start, OwnDone, SweepDone, StartBatch, BatchDone, Rest, OwnTake,
         SweepTake, NextFile, Idling
    <2> QED
      BY <1>1, <2>2, <2>3, RecoverKeeps, PutBackKeeps, TouchKeeps, DecodeKeeps, SendKeeps,
         WriteLedgerKeeps, FileKeeps, UnmarkKeeps, LogSendKeeps, MoveKeeps, TearKeeps, CrashKeeps
  <1>2. CASE ~Has(w, m) /\ ~Has(w, m)'
    BY <1>2, ElsewhereSame, Frame DEF CustodyInv
  <1>3. CASE ~Has(w, m) /\ Has(w, m)'
    <2>1. CASE Claim(w, m) /\ UNCHANGED <<ghost, spooled>>
      BY <1>3, <2>1, Enters, ClaimKeeps DEF CustodyInv
    <2>2. ASSUME NEW a \in Workers, NEW c \in {"own", "sweep"}, Takes(w, a, m, c)
          PROVE  Custody(m)'
      <3>1. ASSUME NEW u \in Workers, Sends(u, m)
            PROVE  a # u
        <4>1. Owns(u, m)
          BY <3>1 DEF CustodyInv, Custody, Owned
        <4>2. u # w
          BY <1>3, <3>1 DEF Sends
        <4> QED
          BY <2>2, <4>1, <4>2 DEF Owns, Takes
      <3>2. job[w] = NoJob
        BY <1>3, Enters DEF CustodyInv
      <3> QED
        BY <2>2, <3>1, <3>2, TakenKeeps DEF Takes
    <2> QED
      BY <1>3, <2>1, <2>2, Enters DEF CustodyInv
  <1> QED
    BY <1>1, <1>2, <1>3

LEMMA OutsideKeeps ==
    ASSUME CustodyInv, Undisturbed, NEW m \in Mails,
           \/ \E n \in Mails : Spool(n) \/ CleanupSent(n)
           \/ \E n \in Mails, byId \in BOOLEAN : RetryFailed(n, byId)
           \/ \E a \in Workers, n \in Mails : Age(a, n)
           \/ Press \/ Lift \/ UNCHANGED vars
    PROVE  Custody(m)'
  <1> USE DEF CustodyInv
  <1>1. pc' = pc /\ job' = job
    BY DEF Spool, CleanupSent, RetryFailed, Age, Press, Lift, vars, procs
  <1>2. SameHands(m) /\ \A v \in Workers : (Has(v, m)' <=> Has(v, m))
           /\ (Sends(v, m)' <=> Sends(v, m)) /\ (Recovers(v, m)' <=> Recovers(v, m))
    BY <1>1 DEF SameHands, Has, Sends, Recovers
  <1>3. Untouched(m) => Custody(m)'
    BY <1>2, Frame
  <1>4. CASE Press \/ Lift \/ UNCHANGED vars
    BY <1>3, <1>4 DEF Press, Lift, vars, files, ghost, Untouched
  <1>5. ASSUME NEW n \in Mails, n # m, NEW byId \in BOOLEAN, NEW a \in Workers,
               Spool(n) \/ CleanupSent(n) \/ RetryFailed(n, byId) \/ Age(a, n)
        PROVE  Custody(m)'
    BY <1>3, <1>5 DEF Spool, CleanupSent, RetryFailed, Age, ghost, Untouched, TypeOK, FilesTyped
  <1>6. CASE Spool(m)
    <2>1. /\ m \notin spooled /\ m \in spooled' /\ pending'[m] # "none" /\ failed'[m] = "none"
          /\ UNCHANGED <<sending, ledger, accepted, lostTrack>> /\ accepted[m] = 0 /\ m \notin ledger
          /\ \A b \in Workers : sending[b][m] = "none"
          /\ \A v \in Workers : ~Has(v, m)
      BY <1>6 DEF Spool, SpoolContent, ghost, Custody, Unborn, TypeOK, FilesTyped
    <2>2. \A v \in Workers : ~Has(v, m)' /\ ~Sends(v, m)' /\ ~Recovers(v, m)'
      BY <1>2, <2>1 DEF Sends, Recovers
    <2>3. OnePlace(m)' /\ Owned(m)' /\ Reclaimed(m)' /\ Marked(m)' /\ Unborn(m)'
      BY <2>1, <2>2 DEF OnePlace, Owned, Reclaimed, Marked, Unborn
    <2>4. Counted(m)'
      BY <2>1, <2>2, Counts DEF Counted, Unspent
    <2> QED
      BY <2>3, <2>4 DEF Custody
  <1>7. CASE CleanupSent(m)
    <2>1. CASE ledger' = ledger
      BY <1>3, <1>7, <2>1 DEF CleanupSent, ghost, Untouched
    <2>2. CASE ledger' # ledger
      <3>1. UNCHANGED <<pending, failed, sending, stale, accepted, lostTrack, spooled>>
            /\ m \notin ledger' /\ \A w \in Workers : job[w].mail # m /\ sending[w][m] = "none"
        BY <1>7, <2>2 DEF CleanupSent, ghost
      <3>2. \A v \in Workers : ~Has(v, m)' /\ ~Sends(v, m)' /\ ~Recovers(v, m)'
        BY <1>2, <3>1 DEF Has, Sends, Recovers
      <3>3. OnePlace(m)' /\ Owned(m)' /\ Reclaimed(m)' /\ Marked(m)' /\ Unborn(m)'
        BY <3>1, <3>2 DEF OnePlace, Owned, Reclaimed, Marked, Unborn, Custody
      <3>4. Counted(m)'
        BY <3>1, <3>2 DEF Counted, Unspent, Custody
      <3> QED
        BY <3>3, <3>4 DEF Custody
    <2> QED
      BY <1>7, <2>1, <2>2 DEF CleanupSent
  <1>8. ASSUME NEW byId \in BOOLEAN, RetryFailed(m, byId)
        PROVE  Custody(m)'
    <2>1. /\ failed[m] # "none" /\ pending'[m] = failed[m] /\ failed'[m] = "none"
          /\ UNCHANGED <<sending, stale, ledger, accepted, lostTrack, spooled>>
      BY <1>8 DEF RetryFailed, ghost, TypeOK, FilesTyped
    <2>2. /\ \A b \in Workers : sending[b][m] = "none"
          /\ m \notin ledger /\ Unspent(m) /\ m \in spooled
      BY <2>1 DEF Custody, OnePlace, Clear, Marked, Counted, Unborn
    <2>3. \A v \in Workers : ~Sends(v, m)
      BY <2>1 DEF Custody, Owned, Owns, Clear
    <2>4. OnePlace(m)' /\ Owned(m)' /\ Marked(m)' /\ Unborn(m)'
      BY <1>2, <2>1, <2>2, <2>3 DEF OnePlace, Owned, Marked, Unborn
    <2>5. Reclaimed(m)'
      <3> SUFFICES ASSUME NEW v \in Workers, Recovers(v, m)
                   PROVE  Reclaims(v, m)'
        BY <1>2 DEF Reclaimed
      <3>1. Reclaims(v, m) /\ job[v].area \in Workers
        BY Holding DEF Custody, Reclaimed, Recovers
      <3>2. pc[v] \notin {"unlink", "unmark"}
        BY <2>1, <3>1 DEF Reclaims, Clear
      <3> QED
        BY <1>1, <2>1, <2>2, <3>1, <3>2 DEF Reclaims
    <2>6. Counted(m)'
      BY <1>2, <2>1, <2>2, <2>3 DEF Custody, Counted, Unspent
    <2> QED
      BY <2>4, <2>5, <2>6 DEF Custody
  <1>9. ASSUME NEW a \in Workers, Age(a, m)
        PROVE  Custody(m)'
    <2>1. UNCHANGED <<pending, failed, sending, ledger, accepted, lostTrack, spooled>>
          /\ stale' = stale \union {<<a, m>>}
      BY <1>9 DEF Age, ghost
    <2>2. \A w \in Workers : ~(w = a /\ job[w].mail = m)
      BY <1>9 DEF Age, AreaOf, Fault, Undisturbed
    <2>3. \A b \in Workers : Clear(m, b)' <=> Clear(m, b)
      BY <2>1 DEF Clear
    <2>4. Owned(m)'
      <3> SUFFICES ASSUME NEW v \in Workers, Sends(v, m)
                   PROVE  Owns(v, m)'
        BY <1>2 DEF Owned
      <3>1. Owns(v, m) /\ v # a
        BY <2>2 DEF Custody, Owned, Sends, Has
      <3> QED
        BY <1>1, <1>2, <2>1, <2>3, <3>1 DEF Owns
    <2>5. Reclaimed(m)'
      <3> SUFFICES ASSUME NEW v \in Workers, Recovers(v, m)
                   PROVE  Reclaims(v, m)'
        BY <1>2 DEF Reclaimed
      <3>1. Reclaims(v, m) /\ job[v].area \in Workers
        BY Holding DEF Custody, Reclaimed, Recovers
      <3> QED
        BY <1>1, <1>2, <2>1, <2>3, <3>1 DEF Reclaims
    <2>6. OnePlace(m)' /\ Marked(m)' /\ Unborn(m)' /\ Counted(m)'
      BY <1>1, <1>2, <2>1, <2>3 DEF Custody, OnePlace, Marked, Unborn, Counted, Unspent
    <2> QED
      BY <2>4, <2>5, <2>6 DEF Custody
  <1> QED
    BY <1>4, <1>5, <1>6, <1>7, <1>8, <1>9, SpoolAssumption

LEMMA CustodyInit == Init => CustodyInv
  <1> SUFFICES ASSUME Init, NEW m \in Mails PROVE Custody(m)
    BY InitTyped DEF CustodyInv
  <1>1. \A v \in Workers : ~Has(v, m)
    BY DEF Init, Has
  <1>2. OnePlace(m) /\ Owned(m) /\ Reclaimed(m) /\ Marked(m)
    BY <1>1 DEF Init, Nowhere, OnePlace, Clear, Owned, Reclaimed, Marked, Sends, Recovers
  <1>3. Counted(m) /\ Unborn(m)
    BY <1>1 DEF Init, Nowhere, Counted, Unborn, Unspent, Sends
  <1> QED
    BY <1>2, <1>3 DEF Custody

LEMMA CustodyNext ==
    ASSUME CustodyInv, Undisturbed, [Next]_vars
    PROVE  CustodyInv'
  <1>1. TypeOK'
    BY NextTyped DEF CustodyInv
  <1> QED
    BY <1>1, DaemonKeeps, OutsideKeeps DEF CustodyInv, Next

LEMMA CustodyKept ==
    ASSUME Undisturbed
    PROVE  Spec => []CustodyInv
  <1>1. CustodyInv /\ [Next]_vars => CustodyInv'
    BY CustodyNext
  <1> QED
    BY <1>1, CustodyInit, PTL DEF Spec

\* Whatever crashes, disk errors and lost replies do, a mail is delivered twice only
\* when the spool lost track of an acceptance: for any number of mails, daemons,
\* restarts and reclaims.
THEOREM NoDuplicates ==
    ASSUME Undisturbed
    PROVE  Spec => []DuplicatesAccountedFor
  <1>1. CustodyInv => DuplicatesAccountedFor
    BY DEF CustodyInv, Custody, Counted, DuplicatesAccountedFor
  <1> QED
    BY <1>1, CustodyKept, PTL

\* Nobody takes a file from under a daemon that is sending it.
THEOREM ClaimsKept ==
    ASSUME Undisturbed
    PROVE  Spec => []LiveClaimsKept
  <1>1. CustodyInv => LiveClaimsKept
    <2> SUFFICES ASSUME CustodyInv, NEW w \in Workers, InFlight(w)
                 PROVE  InHand(w) # "none"
      BY DEF LiveClaimsKept
    <2> DEFINE m == job[w].mail
    <2>1. job[w] \in Jobs
      BY DEF InFlight, CustodyInv, TypeOK, DaemonsTyped, Idling
    <2>2. m \in Mails /\ Has(w, m)
      BY <2>1, JobFields DEF Has
    <2> QED
      BY <2>2, AtSend DEF InFlight
  <1> QED
    BY <1>1, CustodyKept, PTL

-------------------------------------------------------------------------------
(* Without a torn write, every copy is a whole one. *)

Whole(m) ==
    /\ pending[m] # "torn" /\ failed[m] # "torn"
    /\ \A a \in Workers : sending[a][m] # "torn"
WholeInv == CustodyInv /\ \A m \in Mails : Whole(m)

LEMMA WholeNext ==
    ASSUME WholeInv, Undisturbed, "tear" \notin Faults, [Next]_vars, NEW m \in Mails
    PROVE  Whole(m)'
  <1> USE DEF WholeInv
  <1>1. TypeOK /\ Whole(m)
    BY DEF CustodyInv
  <1>2. Untouched(m) => Whole(m)'
    BY <1>1 DEF Untouched, Whole
  <1>3. ASSUME NEW w \in Workers, Has(w, m),
               Step(w) \/ SendLostReply(w) \/ Tear(w) \/ Crash(w) \/ Stop(w) \/ Housekeep(w)
        PROVE  Whole(m)'
    <2>1. /\ pc[w] \notin Idling /\ job[w].mail = m /\ job[w].area \in Workers
          /\ InHand(w) = sending[job[w].area][m] /\ InHand(w) # "torn"
      BY <1>1, <1>3, Holding DEF Whole
    <2>2. Drop(w) => \A b \in Workers : sending'[b][m] \in {sending[b][m], "none"}
      BY <1>1, <2>1, DropEffect
    <2>3. CASE PutBack(w) \/ Decode(w) \/ Move(w) \/ File(w) \/ Unlink(w)
      BY <1>1, <2>1, <2>2, <2>3 DEF PutBack, Decode, Move, File, Unlink, Whole, TypeOK, FilesTyped
    <2>4. CASE Touch(w) \/ Rewrite(w)
      <3>1. sending'[job[w].area][m] # "torn"
        BY <1>1, <1>3, <2>1, <2>4, AtSend, PutEffect DEF Touch, Rewrite
      <3>2. \A b \in Workers \ {job[w].area} : sending'[b][m] = sending[b][m]
        BY <1>1, <2>1, <2>4, PutEffect DEF Touch, Rewrite
      <3> QED
        BY <1>1, <2>1, <2>4, <3>1, <3>2 DEF Touch, Rewrite, Whole
    <2>5. CASE Recover(w) \/ SendAccepted(w) \/ SendLostReply(w) \/ WriteLedger(w) \/ Unmark(w)
               \/ LogSend(w) \/ Crash(w) \/ \E d \in {"pending", "failed"} : SendFails(w, d)
      BY <1>1, <2>5 DEF Recover, SendAccepted, SendLostReply, WriteLedger, Unmark, LogSend, Crash,
         SendFails, files, Whole
    <2>6. ~Tear(w)
      BY DEF Tear, Fault
    <2>7. Step(w) => PutBack(w) \/ Decode(w) \/ Move(w) \/ File(w) \/ Unlink(w) \/ Touch(w)
                     \/ Rewrite(w) \/ Recover(w) \/ SendAccepted(w) \/ WriteLedger(w) \/ Unmark(w)
                     \/ LogSend(w) \/ \E d \in {"pending", "failed"} : SendFails(w, d)
      BY <2>1 DEF Step, Start, OwnDone, SweepDone, StartBatch, BatchDone, Rest, OwnTake,
         SweepTake, NextFile, Idling
    <2>8. ~Stop(w) /\ ~Housekeep(w)
      BY <2>1 DEF Stop, Housekeep, Idling
    <2> QED
      BY <1>3, <2>3, <2>4, <2>5, <2>6, <2>7, <2>8
  <1>4. ASSUME NEW w \in Workers, ~Has(w, m),
               Step(w) \/ SendLostReply(w) \/ Tear(w) \/ Crash(w) \/ Stop(w) \/ Housekeep(w)
        PROVE  Whole(m)'
    <2>1. CASE ~Has(w, m)'
      BY <1>1, <1>2, <1>4, <2>1, ElsewhereSame
    <2>2. CASE Has(w, m)'
      <3>1. \/ UNCHANGED <<pending, failed, sending>>
            \/ Claim(w, m)
        BY <1>1, <1>4, <2>2, Enters DEF Takes, Take, files
      <3>2. CASE UNCHANGED <<pending, failed, sending>>
        BY <1>1, <3>2 DEF Whole
      <3>3. CASE Claim(w, m)
        <4>1. /\ sending'[w][m] = pending[m]
              /\ \A b \in Workers \ {w} : sending'[b][m] = sending[b][m]
          BY <1>1, <3>3, PutEffect DEF Claim, AreaOf
        <4> QED
          BY <1>1, <3>3, <4>1 DEF Claim, Whole, TypeOK, FilesTyped
      <3> QED
        BY <3>1, <3>2, <3>3
    <2> QED
      BY <2>1, <2>2
  <1>5. ASSUME NEW a \in Workers, NEW n \in Mails, NEW byId \in BOOLEAN,
               Spool(n) \/ CleanupSent(n) \/ RetryFailed(n, byId) \/ Age(a, n)
        PROVE  Whole(m)'
    BY <1>1, <1>5 DEF Spool, SpoolContent, CleanupSent, RetryFailed, Age, Whole, TypeOK, FilesTyped
  <1>6. CASE Press \/ Lift \/ UNCHANGED vars
    BY <1>1, <1>6 DEF Press, Lift, vars, files, Whole
  <1> QED
    BY <1>3, <1>4, <1>5, <1>6, SpoolAssumption DEF Next

LEMMA WholeKept ==
    ASSUME Undisturbed, "tear" \notin Faults
    PROVE  Spec => []WholeInv
  <1>1. Init => WholeInv
    BY CustodyInit DEF WholeInv, Init, Whole, Nowhere
  <1>2. WholeInv /\ [Next]_vars => WholeInv'
    BY WholeNext, CustodyNext DEF WholeInv
  <1> QED
    BY <1>1, <1>2, PTL DEF Spec

\* A complete file in pending/ is always valid JSON, as processSpool() takes for granted:
\* no claim, touch, re-queue, retry or restart puts half a file there.
THEOREM PendingIsWhole ==
    ASSUME Undisturbed, "tear" \notin Faults
    PROVE  Spec => []PendingAlwaysValid
  <1>1. WholeInv => PendingAlwaysValid
    BY DEF WholeInv, Whole, PendingAlwaysValid
  <1> QED
    BY <1>1, WholeKept, PTL

-------------------------------------------------------------------------------
(* What a step does to the standing of a mail. *)

HasCopy(m) ==
    \/ pending[m] # "none" \/ failed[m] # "none"
    \/ \E a \in Workers : sending[a][m] # "none"

\* A copy goes away only when another appears, or when SMTP has taken the mail.
LEMMA CopyStays ==
    ASSUME CustodyInv, FilingTaken, [Next]_vars, NEW m \in Mails, HasCopy(m)
    PROVE  HasCopy(m)' \/ accepted[m] > 0
  <1> USE DEF CustodyInv
  <1>1. Untouched(m) \/ UNCHANGED <<pending, failed, sending>> => HasCopy(m)'
    BY DEF Untouched, HasCopy
  <1>2. ASSUME NEW w \in Workers, Has(w, m),
               Step(w) \/ SendLostReply(w) \/ Tear(w) \/ Crash(w) \/ Stop(w) \/ Housekeep(w)
        PROVE  HasCopy(m)' \/ accepted[m] > 0
    <2>1. /\ pc[w] \notin Idling /\ job[w].mail = m /\ job[w].area \in Workers
          /\ InHand(w) = sending[job[w].area][m]
      BY <1>2, Holding
    <2>2. CASE File(w) \/ Unlink(w)
      BY <2>1, <2>2 DEF File, Unlink, FilingTaken, Filing
    <2>3. CASE PutBack(w) \/ Decode(w) \/ Move(w)
      BY <1>1, <2>1, <2>3 DEF PutBack, Decode, Move, HasCopy, TypeOK, FilesTyped
    <2>4. CASE Touch(w) \/ Rewrite(w) \/ Tear(w)
      <3>1. sending'[job[w].area][m] # "none"
        BY <2>1, <2>4, PutEffect DEF Touch, Rewrite, Tear
      <3> QED
        BY <2>1, <3>1 DEF HasCopy
    <2>5. CASE Recover(w) \/ SendAccepted(w) \/ SendLostReply(w) \/ WriteLedger(w) \/ Unmark(w)
               \/ LogSend(w) \/ Crash(w) \/ \E d \in {"pending", "failed"} : SendFails(w, d)
      BY <1>1, <2>5 DEF Recover, SendAccepted, SendLostReply, WriteLedger, Unmark, LogSend, Crash,
         SendFails, files
    <2>6. Step(w) => PutBack(w) \/ Decode(w) \/ Move(w) \/ File(w) \/ Unlink(w) \/ Touch(w)
                     \/ Rewrite(w) \/ Recover(w) \/ SendAccepted(w) \/ WriteLedger(w) \/ Unmark(w)
                     \/ LogSend(w) \/ \E d \in {"pending", "failed"} : SendFails(w, d)
      BY <2>1 DEF Step, Start, OwnDone, SweepDone, StartBatch, BatchDone, Rest, OwnTake,
         SweepTake, NextFile, Idling
    <2>7. ~Stop(w) /\ ~Housekeep(w)
      BY <2>1 DEF Stop, Housekeep, Idling
    <2> QED
      BY <1>2, <2>2, <2>3, <2>4, <2>5, <2>6, <2>7
  <1>3. ASSUME NEW w \in Workers, ~Has(w, m),
               Step(w) \/ SendLostReply(w) \/ Tear(w) \/ Crash(w) \/ Stop(w) \/ Housekeep(w)
        PROVE  HasCopy(m)'
    <2>1. CASE ~Has(w, m)'
      BY <1>1, <1>3, <2>1, ElsewhereSame
    <2>2. CASE Has(w, m)' /\ Claim(w, m)
      <3>1. sending'[w][m] # "none"
        BY <2>2, PutEffect DEF Claim, AreaOf
      <3> QED
        BY <3>1 DEF HasCopy
    <2>3. CASE Has(w, m)' /\ ~Claim(w, m)
      BY <1>1, <1>3, <2>3, Enters DEF Takes, Take, files
    <2> QED
      BY <2>1, <2>2, <2>3
  <1>4. ASSUME NEW a \in Workers, NEW n \in Mails, NEW byId \in BOOLEAN,
               Spool(n) \/ CleanupSent(n) \/ RetryFailed(n, byId) \/ Age(a, n)
        PROVE  HasCopy(m)'
    BY <1>4 DEF Spool, SpoolContent, CleanupSent, RetryFailed, Age, HasCopy, TypeOK, FilesTyped
  <1>5. CASE Press \/ Lift \/ UNCHANGED vars
    BY <1>1, <1>5 DEF Press, Lift, vars, files
  <1> QED
    BY <1>2, <1>3, <1>4, <1>5, SpoolAssumption DEF Next

LEMMA SpooledKept ==
    ASSUME NEW w \in Workers,
           Step(w) \/ SendLostReply(w) \/ Tear(w) \/ Crash(w) \/ Stop(w) \/ Housekeep(w)
    PROVE  spooled' = spooled
  BY DEF Step, Start, OwnDone, SweepDone, Recover, PutBack, StartBatch, BatchDone, Rest,
     Touch, Decode, SendAccepted, SendFails, WriteLedger, File, Unlink, Unmark, LogSend,
     Rewrite, Move, OwnTake, SweepTake, Take, NextFile, SendLostReply, Tear, Crash, Stop, Housekeep

\* Only spool() brings a mail in.
LEMMA OnlySpool ==
    ASSUME [Next]_vars, NEW m \in Mails, m \in spooled', m \notin spooled
    PROVE  Spool(m)
  BY SpooledKept DEF Next, Spool, CleanupSent, RetryFailed, Age, Press, Lift, vars

\* All of it together, for the last two theorems.
SpoolInv == WholeInv /\ RecordsInv /\ NothingLost

LEMMA SpoolNext ==
    ASSUME WholeInv, WholeInv', RecordsInv, NothingLost, [Next]_vars
    PROVE  NothingLost'
  <1> SUFFICES ASSUME NEW m \in Mails, m \in spooled', ~(accepted'[m] > 0)
               PROVE  IntactCopy(m)'
    BY DEF NothingLost, WholeInv, CustodyInv, TypeOK, OthersTyped
  <1>1. TypeOK /\ TypeOK' /\ FilingTaken
    BY DEF WholeInv, CustodyInv, RecordsInv
  <1>2. ~(accepted[m] > 0)
    BY <1>1, AcceptedGrows DEF TypeOK, OthersTyped
  <1>3. CASE m \in spooled
    <2>1. HasCopy(m)
      BY <1>2, <1>3 DEF NothingLost, IntactCopy, HasCopy
    <2>2. HasCopy(m)'
      BY <1>1, <1>2, <2>1, CopyStays DEF WholeInv
    <2> QED
      BY <1>1, <2>2 DEF HasCopy, IntactCopy, WholeInv, Whole, TypeOK, FilesTyped, Content
  <1>4. CASE m \notin spooled
    <2>1. Spool(m)
      BY <1>4, OnlySpool
    <2> QED
      BY <1>1, <2>1 DEF Spool, SpoolContent, IntactCopy, TypeOK, FilesTyped
  <1> QED
    BY <1>3, <1>4

LEMMA SpoolKept ==
    ASSUME Undisturbed, "tear" \notin Faults
    PROVE  Spec => []SpoolInv
  <1>1. Init => NothingLost
    BY DEF Init, NothingLost
  <1>2. WholeInv /\ WholeInv' /\ RecordsInv /\ NothingLost /\ [Next]_vars => NothingLost'
    BY SpoolNext
  <1> QED
    BY <1>1, <1>2, WholeKept, RecordsKept, PTL DEF Spec, SpoolInv

\* "Nothing is dead-lettered": a spooled mail that SMTP has not taken always has an
\* intact copy somewhere, through every claim, re-queue, reclaim and restart.
THEOREM NoneLost ==
    ASSUME Undisturbed, "tear" \notin Faults
    PROVE  Spec => []NothingLost
  BY SpoolKept, PTL DEF SpoolInv

-------------------------------------------------------------------------------
(* The spool implements the safety part of MailDelivery. *)

\* What the status of a mail is when every copy is whole.
LEMMA Standing ==
    ASSUME WholeInv, NEW m \in Mails, m \in spooled, ~(accepted[m] > 0)
    PROVE  /\ pending[m] # "none" \/ (\E a \in Workers : sending[a][m] # "none")
                <=> StatusOf(m) = "owed"
           /\ NothingLost /\ StatusOf(m) # "owed" => StatusOf(m) = "aside"
           /\ failed[m] # "none" => StatusOf(m) = "aside"
  <1>1. /\ pending[m] \in {"none", "good"} /\ failed[m] \in {"none", "good"}
        /\ \A a \in Workers : sending[a][m] \in {"none", "good"}
    BY DEF WholeInv, Whole, CustodyInv, TypeOK, FilesTyped, Content
  <1>2. failed[m] # "none" => pending[m] = "none" /\ \A a \in Workers : sending[a][m] = "none"
    BY DEF WholeInv, CustodyInv, Custody, OnePlace, Clear
  <1> QED
    BY <1>1, <1>2 DEF StatusOf, NothingLost, IntactCopy

LEMMA StandingAfter ==
    ASSUME WholeInv', NEW m \in Mails, m \in spooled', ~(accepted'[m] > 0)
    PROVE  /\ pending'[m] # "none" \/ (\E a \in Workers : sending'[a][m] # "none")
                <=> StatusOf(m)' = "owed"
           /\ failed'[m] # "none" => StatusOf(m)' = "aside"
  <1>1. /\ pending'[m] \in {"none", "good"} /\ failed'[m] \in {"none", "good"}
        /\ \A a \in Workers : sending'[a][m] \in {"none", "good"}
    BY DEF WholeInv, Whole, CustodyInv, TypeOK, FilesTyped, Content
  <1>2. failed'[m] # "none" => pending'[m] = "none" /\ \A a \in Workers : sending'[a][m] = "none"
    BY DEF WholeInv, CustodyInv, Custody, OnePlace, Clear
  <1> QED
    BY <1>1, <1>2 DEF StatusOf

LEMMA SameStatus ==
    ASSUME NEW m \in Mails, Untouched(m)
    PROVE  StatusOf(m)' = StatusOf(m)
  BY DEF Untouched, StatusOf

LEMMA OneMoves ==
    ASSUME NEW m \in Mails, \A n \in Mails \ {m} : StatusOf(n)' = StatusOf(n),
           \/ StatusOf(m)' = StatusOf(m)
           \/ StatusOf(m) = "new" /\ StatusOf(m)' = "owed"
           \/ StatusOf(m) = "owed" /\ StatusOf(m)' \in {"delivered", "aside"}
           \/ StatusOf(m) = "aside" /\ StatusOf(m)' = "owed"
    PROVE  Delivery!Next \/ UNCHANGED Statuses
  <1>1. CASE StatusOf(m)' = StatusOf(m)
    BY <1>1 DEF Statuses
  <1>2. CASE StatusOf(m)' # StatusOf(m)
    <2>1. Statuses' = [Statuses EXCEPT ![m] = StatusOf(m)'] /\ Statuses[m] = StatusOf(m)
      BY DEF Statuses
    <2> QED
      BY <1>2, <2>1 DEF Delivery!Next, Delivery!Post, Delivery!Settle, Delivery!Deliver,
         Delivery!SetAside, Delivery!TryAgain, Delivery!Moves
  <1> QED
    BY <1>1, <1>2

\* A step of a daemon does not show in the status of a mail it had not in hand.
LEMMA ElsewhereShows ==
    ASSUME WholeInv, WholeInv', NEW w \in Workers, NEW m \in Mails, ~Has(w, m),
           Step(w) \/ SendLostReply(w) \/ Tear(w) \/ Crash(w) \/ Stop(w) \/ Housekeep(w)
    PROVE  StatusOf(m)' = StatusOf(m)
  <1> USE DEF WholeInv, CustodyInv
  <1>1. CASE ~Has(w, m)'
    BY <1>1, ElsewhereSame, SameStatus
  <1>2. CASE Has(w, m)' /\ Claim(w, m) /\ UNCHANGED <<ghost, spooled>>
    <2>1. pending[m] # "none" /\ sending'[w][m] # "none"
      BY <1>2, PutEffect DEF Claim, AreaOf
    <2>2. UNCHANGED <<accepted, spooled>>
      BY <1>2 DEF ghost
    <2>3. m \in spooled
      BY <2>1 DEF Custody, Unborn
    <2> QED
      BY <2>1, <2>2, <2>3, Standing, StandingAfter DEF StatusOf
  <1>3. CASE Has(w, m)' /\ \E a \in Workers, c \in {"own", "sweep"} : Takes(w, a, m, c)
    BY <1>3 DEF Takes, Take, files, ghost, StatusOf
  <1> QED
    BY <1>1, <1>2, <1>3, Enters

\* What a step does to the status of the mail a daemon has in hand.
LEMMA InHandShows ==
    ASSUME SpoolInv, SpoolInv', NEW w \in Workers, NEW m \in Mails, Has(w, m), m \in spooled',
           Step(w) \/ SendLostReply(w) \/ Tear(w) \/ Crash(w) \/ Stop(w) \/ Housekeep(w),
           [Next]_vars
    PROVE  \/ StatusOf(m)' = StatusOf(m)
           \/ StatusOf(m) = "owed" /\ StatusOf(m)' \in {"delivered", "aside"}
  <1> USE DEF SpoolInv, WholeInv, CustodyInv
  <1>1. /\ m \in spooled /\ pc[w] \notin Idling /\ job[w].mail = m /\ job[w].area \in Workers
        /\ InHand(w) = sending[job[w].area][m]
    BY Roles, Holding
  <1>2. accepted[m] \in Nat /\ accepted'[m] \in Nat /\ accepted'[m] >= accepted[m]
    BY AcceptedGrows DEF TypeOK, OthersTyped
  <1>3. CASE accepted[m] > 0
    BY <1>1, <1>2, <1>3 DEF StatusOf
  <1>4. CASE ~(accepted[m] > 0)
    <2>1. pc[w] \notin Filing
      BY <1>1, <1>4 DEF RecordsInv, FilingTaken
    <2>2. CASE UNCHANGED <<pending, failed, sending, accepted>>
      BY <1>1, <2>2 DEF StatusOf
    <2>3. InHand(w) # "none" => StatusOf(m) = "owed"
      BY <1>1, <1>4, Standing
    <2>4. CASE PutBack(w) \/ Decode(w) \/ Move(w)
      <3>1. accepted' = accepted
        BY <2>4 DEF PutBack, Decode, Move, ghost
      <3>2. CASE InHand(w) = "none"
        BY <2>2, <2>4, <3>1, <3>2 DEF PutBack, Decode, Move
      <3>3. CASE InHand(w) # "none"
        <4>1. UNCHANGED <<pending, failed, sending>> \/ pending'[m] # "none" \/ failed'[m] # "none"
          BY <1>1, <2>4, <3>3 DEF PutBack, Decode, Move, TypeOK, FilesTyped
        <4> QED
          BY <1>4, <2>2, <2>3, <3>1, <3>3, <4>1, StandingAfter
      <3> QED
        BY <3>2, <3>3
    <2>5. CASE Touch(w) \/ Rewrite(w)
      <3>1. sending'[job[w].area][m] # "none" /\ accepted' = accepted
        BY <1>1, <2>5, AtSend, PutEffect DEF Touch, Rewrite, ghost
      <3>2. StatusOf(m)' = "owed"
        BY <1>1, <1>4, <3>1, StandingAfter
      <3>3. pc[w] \in {"touch", "rewrite"}
        BY <2>5 DEF Touch, Rewrite
      <3>4. Sends(w, m) /\ Clear(m, w)
        BY <3>3, AtSend DEF Owns
      <3>5. \E a \in Workers : sending[a][m] # "none"
        BY <1>1, <1>4, <3>4 DEF NothingLost, IntactCopy, Clear
      <3> QED
        BY <1>1, <1>4, <3>2, <3>5, Standing
    <2>6. CASE SendAccepted(w) \/ SendLostReply(w)
      <3>1. accepted'[m] > 0 /\ pc[w] = "send"
        BY <1>1, <1>2, <2>6 DEF SendAccepted, SendLostReply, Accept, TypeOK, OthersTyped
      <3>2. InHand(w) # "none"
        BY <3>1, AtSend
      <3> QED
        BY <2>3, <3>1, <3>2 DEF StatusOf
    <2>7. CASE Recover(w) \/ Crash(w) \/ \E d \in {"pending", "failed"} : SendFails(w, d)
      BY <2>2, <2>7 DEF Recover, Crash, SendFails, files, ghost
    <2>8. Step(w) => PutBack(w) \/ Decode(w) \/ Move(w) \/ Touch(w) \/ Rewrite(w) \/ Recover(w)
                     \/ SendAccepted(w) \/ \E d \in {"pending", "failed"} : SendFails(w, d)
      BY <1>1, <2>1 DEF Step, Start, OwnDone, SweepDone, StartBatch, BatchDone, Rest, OwnTake,
         SweepTake, NextFile, WriteLedger, File, Unlink, Unmark, LogSend, Idling, Filing
    <2>9. ~Stop(w) /\ ~Housekeep(w)
      BY <1>1 DEF Stop, Housekeep, Idling
    <2>10. CASE Tear(w)
      <3>1. sending'[job[w].area][m] = "torn"
        BY <1>1, <2>10, PutEffect DEF Tear
      <3> QED
        BY <1>1, <3>1 DEF Whole
    <2> QED
      BY <2>4, <2>5, <2>6, <2>7, <2>8, <2>9, <2>10
  <1> QED
    BY <1>3, <1>4

LEMMA NextShows ==
    ASSUME SpoolInv, SpoolInv', [Next]_vars
    PROVE  [Delivery!Next]_Statuses
  <1> USE DEF SpoolInv, WholeInv, CustodyInv
  <1> SUFFICES Delivery!Next \/ UNCHANGED Statuses
    OBVIOUS
  <1>1. ASSUME NEW w \in Workers,
               Step(w) \/ SendLostReply(w) \/ Tear(w) \/ Crash(w) \/ Stop(w) \/ Housekeep(w)
        PROVE  Delivery!Next \/ UNCHANGED Statuses
    <2>1. CASE \E m \in Mails : Has(w, m)
      <3>1. PICK m \in Mails : Has(w, m)
        BY <2>1
      <3>2. \A n \in Mails \ {m} : StatusOf(n)' = StatusOf(n)
        BY <1>1, <3>1, ElsewhereShows DEF Has
      <3>3. m \in spooled'
        BY <1>1, <3>1, Roles, SpooledKept
      <3>4. \/ StatusOf(m)' = StatusOf(m)
            \/ StatusOf(m) = "owed" /\ StatusOf(m)' \in {"delivered", "aside"}
        BY <1>1, <3>1, <3>3, InHandShows
      <3> QED
        BY <3>2, <3>4, OneMoves
    <2>2. CASE ~ \E m \in Mails : Has(w, m)
      BY <1>1, <2>2, ElsewhereShows DEF Statuses
    <2> QED
      BY <2>1, <2>2
  <1>2. ASSUME NEW n \in Mails, Spool(n) \/ \E byId \in BOOLEAN : RetryFailed(n, byId),
               NEW m \in Mails \ {n}
        PROVE  StatusOf(m)' = StatusOf(m)
    BY <1>2 DEF Spool, RetryFailed, ghost, StatusOf, TypeOK, FilesTyped
  <1>3. ASSUME NEW n \in Mails, Spool(n)
        PROVE  Delivery!Next \/ UNCHANGED Statuses
    <2>1. StatusOf(n) = "new"
      BY <1>3 DEF Spool, StatusOf
    <2>2. n \in spooled' /\ pending'[n] # "none" /\ accepted'[n] = 0
      BY <1>3 DEF Spool, SpoolContent, ghost, TypeOK, FilesTyped, Custody, Unborn
    <2>3. StatusOf(n)' = "owed"
      BY <2>2, StandingAfter
    <2> QED
      BY <1>2, <1>3, <2>1, <2>3, OneMoves
  <1>4. ASSUME NEW n \in Mails, NEW byId \in BOOLEAN, RetryFailed(n, byId)
        PROVE  Delivery!Next \/ UNCHANGED Statuses
    <2>1. failed[n] # "none" /\ pending'[n] # "none" /\ UNCHANGED <<accepted, spooled>>
          /\ n \in spooled /\ accepted[n] \in Nat
      BY <1>4 DEF RetryFailed, ghost, TypeOK, FilesTyped, OthersTyped, Custody, Unborn
    <2>2. CASE accepted[n] > 0
      <3>1. StatusOf(n)' = StatusOf(n)
        BY <2>1, <2>2 DEF StatusOf
      <3> QED
        BY <1>2, <1>4, <3>1, OneMoves
    <2>3. CASE ~(accepted[n] > 0)
      <3>1. StatusOf(n) = "aside" /\ StatusOf(n)' = "owed"
        BY <2>1, <2>3, Standing, StandingAfter
      <3> QED
        BY <1>2, <1>4, <3>1, OneMoves
    <2> QED
      BY <2>2, <2>3
  <1>5. ASSUME NEW n \in Mails, NEW a \in Workers, CleanupSent(n) \/ Age(a, n)
        PROVE  UNCHANGED Statuses
    BY <1>5 DEF CleanupSent, Age, ghost, Statuses, StatusOf
  <1>6. CASE Press \/ Lift \/ UNCHANGED vars
    BY <1>6 DEF Press, Lift, vars, files, ghost, Statuses, StatusOf
  <1> QED
    BY <1>1, <1>3, <1>4, <1>5, <1>6, SpoolAssumption DEF Next

\* The spool keeps the promise of MailDelivery at every moment: each step of any daemon,
\* crash, fault or operator moves at most one mail, and only from owed to delivered or
\* aside, or from aside back to owed.
THEOREM Promise ==
    ASSUME Undisturbed, "tear" \notin Faults
    PROVE  Spec => KeepsPromise
  <1>1. Init => Delivery!Init
    BY DEF Init, Delivery!Init, Statuses, StatusOf
  <1>2. SpoolInv /\ SpoolInv' /\ [Next]_vars => [Delivery!Next]_Statuses
    BY NextShows
  <1> QED
    BY <1>1, <1>2, SpoolKept, PTL DEF Spec, KeepsPromise, Delivery!Safety
===============================================================================
