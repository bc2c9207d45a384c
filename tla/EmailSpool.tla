------------------------------ MODULE EmailSpool ------------------------------
(***************************************************************************)
(* The file-based mail spool of iznik-batch: EmailSpoolerService and the   *)
(* mail:spool:process daemons that drain it.                               *)
(*                                                                         *)
(* A mail is one file, whose name never changes; its state is the set of   *)
(* directories holding a copy.  A daemon claims a file by renaming it from *)
(* pending/ into its private area sending/w<id>/, sends it over SMTP,      *)
(* touches a marker in ledger/ once SMTP has accepted it, files it into    *)
(* sent/ and drops the marker.  Everything between two system calls is an  *)
(* atomic step, and a daemon may die between any two steps.                *)
(***************************************************************************)
EXTENDS Integers, FiniteSets

CONSTANTS
    Mails,        \* file names; their order is the order of spooling (uniqid)
    Workers,      \* the daemons, one private claim area each
    Band,         \* the priority band in each file name
    Allowlisted,  \* mails whose type is sent even while a lockdown holds email
    NoRecipient,  \* mails spooled with an empty To, Cc and Bcc
    Housekeeper,  \* the worker that sweeps hourly (--worker=00)
    Gone,         \* workers nobody restarts once they die (numprocs was reduced)
    Limit,        \* --limit, the size of one batch
    Faults,       \* the kinds of fault the environment may inject
    MaxFaults     \* how many faults it may inject in one behaviour

VALID_BANDS == {1, 3, 5, 9}

FaultKinds == {"crash", "tear", "stall", "lostReply", "disk", "log",
               "badRead", "lockdown", "backlog", "sweepRace", "restart"}

ASSUME SpoolAssumption ==
    /\ Mails \subseteq Nat
    /\ Band \in [Mails -> VALID_BANDS]
    /\ Allowlisted \subseteq Mails
    /\ NoRecipient \subseteq Mails
    /\ Housekeeper \in Workers /\ Gone \subseteq Workers
    /\ Limit \in Nat \ {0}
    /\ Faults \subseteq FaultKinds
    /\ MaxFaults \in Nat

VARIABLES
    pending, failed, sent,  \* directory -> content of each mail's file there
    sending,    \* sending[a][m]: content of m's file in worker a's claim area
    stale,      \* <<a, m>>: that claim is older than the sibling-sweep age
    ledger,     \* mails with a marker file in ledger/
    spooled,    \* mails spool() has returned an id for
    held,       \* the lockdown switch holds email
    pc, job, batch,  \* the daemons: next step, file in hand, files to do
    accepted,   \* how often SMTP has taken each mail (what members received)
    lostTrack,  \* how often the spool lost track of a mail SMTP had or might have
    budget      \* faults left to inject

files == <<pending, failed, sent, sending, stale, ledger>>
procs == <<pc, job, batch>>
ghost == <<accepted, lostTrack>>
vars  == <<files, procs, ghost, spooled, held, budget>>

Content == {"none", "good", "torn"}
PCs == {"down", "own", "sweep", "idle", "batch", "rest", "touch", "decode", "send",
        "ledger", "file", "unlink", "unmark", "log", "rewrite", "move",
        "recover", "putBack"}
\* What a daemon holds: the file, whose area it is in, the loop it serves, and
\* where a rewritten file goes.
NoJob == [mail |-> -1, area |-> Housekeeper, ctx |-> "batch", dest |-> "pending"]
Jobs  == [mail : Mails, area : Workers, ctx : {"batch", "own", "sweep"},
          dest : {"pending", "failed"}]

Nowhere == [m \in Mails |-> "none"]

\* Mutant: every daemon claims into the flat sending/ directory.
AreaOf_Shared(w) == Housekeeper
\* setWorkerId(): the private claim area sending/w<id>.
AreaOf(w) == w

\* The order processSpool() takes pending files in: by band, oldest first.
Before(m, n) == Band[m] < Band[n] \/ (Band[m] = Band[n] /\ m < n)

\* The first Limit files of the directory listing.
Listing(P) == {m \in P : Cardinality({n \in P : Before(n, m)}) < Limit}

\* isBlockedForLockdown().
Blocked(m) == held /\ m \notin Allowlisted

-------------------------------------------------------------------------------
Init ==
    /\ pending = Nowhere /\ failed = Nowhere /\ sent = Nowhere
    /\ sending = [a \in Workers |-> Nowhere]
    /\ stale = {} /\ ledger = {} /\ spooled = {}
    /\ held = FALSE
    /\ pc = [w \in Workers |-> "down"]
    /\ job = [w \in Workers |-> NoJob]
    /\ batch = [w \in Workers |-> {}]
    /\ accepted = [m \in Mails |-> 0]
    /\ lostTrack = [m \in Mails |-> 0]
    /\ budget = MaxFaults

Fault(kind) == kind \in Faults /\ budget > 0 /\ budget' = budget - 1

Goto(w, label) == pc' = [pc EXCEPT ![w] = label]

\* Mutant: a file that is set aside ends the whole batch (break for continue).
Resume_Break(w) == /\ Goto(w, IF job[w].ctx = "batch" THEN "rest" ELSE job[w].ctx)
                   /\ job' = [job EXCEPT ![w] = NoJob]
                   /\ UNCHANGED batch

\* Done with the file in hand: back to the loop the daemon was in.
Resume(w) == /\ Goto(w, job[w].ctx)
            /\ job' = [job EXCEPT ![w] = NoJob]
            /\ UNCHANGED batch

\* The process ends; its memory is gone, its files stay.
Dies(w) == /\ Goto(w, "down")
           /\ job' = [job EXCEPT ![w] = NoJob]
           /\ batch' = [batch EXCEPT ![w] = {}]

Put(a, m, c) == sending' = [sending EXCEPT ![a][m] = c]
InHand(w) == sending[job[w].area][job[w].mail]
Drop(w) == /\ Put(job[w].area, job[w].mail, "none")
           /\ stale' = stale \ {<<job[w].area, job[w].mail>>}
LoseTrack(m) == lostTrack' = [lostTrack EXCEPT ![m] = @ + 1]

-------------------------------------------------------------------------------
\* Mutant: the payload is written straight into pending/ and only half lands.
SpoolContent_Short == "torn"

\* spool(): build the message, write a temp file, check every byte landed and
\* rename it into pending/.  A suppressed recipient or a permanent address error
\* spools nothing, which is the same as not calling it.
SpoolContent == "good"
Spool(m) ==
    /\ m \notin spooled /\ \A n \in spooled : n < m
    /\ spooled' = spooled \union {m}
    /\ pending' = [pending EXCEPT ![m] = SpoolContent]
    /\ UNCHANGED <<failed, sent, sending, stale, ledger, procs, ghost, held, budget>>

\* A lockdown presses or lifts the email surface.
Press == /\ ~held /\ Fault("lockdown") /\ held' = TRUE
         /\ UNCHANGED <<files, procs, ghost, spooled>>
Lift  == /\ held /\ held' = FALSE
         /\ UNCHANGED <<files, procs, ghost, spooled, budget>>

\* Half an hour passes over a claim.  A send is bounded by the socket timeout,
\* so a live owner's own file only ages when the fault "stall" is allowed.
Age(a, m) ==
    /\ sending[a][m] # "none" /\ <<a, m>> \notin stale
    /\ \/ /\ \A w \in Workers : ~(AreaOf(w) = a /\ job[w].mail = m)
          /\ UNCHANGED budget
       \/ Fault("stall")
    /\ stale' = stale \union {<<a, m>>}
    /\ UNCHANGED <<pending, failed, sent, sending, ledger, procs, ghost, spooled, held>>

-------------------------------------------------------------------------------
(* Starting up: reclaimOrphanedSending(), own area first, then siblings. *)

Start(w) ==
    /\ pc[w] = "down" /\ Goto(w, "own")
    /\ UNCHANGED <<files, ghost, spooled, held, budget, job, batch>>

Take(w, a, m, ctx) ==
    /\ Goto(w, "recover")
    /\ job' = [job EXCEPT ![w] = [mail |-> m, area |-> a, ctx |-> ctx, dest |-> "pending"]]
    /\ UNCHANGED <<files, ghost, spooled, held, budget, batch>>

OwnTake(w, m) ==
    /\ pc[w] = "own" /\ sending[AreaOf(w)][m] # "none"
    /\ Take(w, AreaOf(w), m, "own")

OwnDone(w) ==
    /\ pc[w] = "own" /\ sending[AreaOf(w)] = Nowhere /\ Goto(w, "sweep")
    /\ UNCHANGED <<files, ghost, spooled, held, budget, job, batch>>

\* Mutant: the sweep looks at no sibling area.
Sweepable_Never(w, a, m) == FALSE

\* reclaimStaleSiblingSending(): only claims untouched for the reclaim age.
Sweepable(w, a, m) == a # AreaOf(w) /\ sending[a][m] # "none" /\ <<a, m>> \in stale

SweepTake(w, a, m) ==
    /\ pc[w] = "sweep" /\ Sweepable(w, a, m)
    /\ Take(w, a, m, "sweep")

SweepDone(w) ==
    /\ pc[w] = "sweep" /\ \A a \in Workers, m \in Mails : ~Sweepable(w, a, m)
    /\ Goto(w, "idle")
    /\ UNCHANGED <<files, ghost, spooled, held, budget, job, batch>>

\* Mutants: the marker is never looked at, or taken for granted.
Recover_NoLedger(w) ==
    /\ pc[w] = "recover" /\ Goto(w, "putBack")
    /\ UNCHANGED <<files, ghost, spooled, held, budget, job, batch>>
Recover_AlwaysFiled(w) ==
    /\ pc[w] = "recover" /\ Goto(w, "file")
    /\ UNCHANGED <<files, ghost, spooled, held, budget, job, batch>>

\* fileAlreadyDelivered(): with a marker the file is filed, without one re-queued.
Recover(w) ==
    /\ pc[w] = "recover"
    /\ Goto(w, IF job[w].mail \in ledger THEN "file" ELSE "putBack")
    /\ UNCHANGED <<files, ghost, spooled, held, budget, job, batch>>

\* Re-queue a reclaimed file.  When it has gone meanwhile, the own-area pass
\* raises (its rename is not silenced) and the sweep carries on.
PutBack(w) ==
    /\ pc[w] = "putBack"
    /\ UNCHANGED <<failed, sent, ledger, ghost, spooled, held, budget>>
    /\ \/ /\ InHand(w) # "none"
          /\ pending' = [pending EXCEPT ![job[w].mail] = InHand(w)]
          /\ Drop(w) /\ Resume(w)
       \/ /\ InHand(w) = "none"
          /\ UNCHANGED <<pending, sending, stale>>
          /\ IF job[w].ctx = "own" THEN Dies(w) ELSE Resume(w)

-------------------------------------------------------------------------------
(* processSpool() *)

\* List pending/ and keep the first Limit files, by band and then by age.
StartBatch(w) ==
    /\ pc[w] = "idle"
    /\ batch' = [batch EXCEPT ![w] = Listing({m \in Mails : pending[m] # "none"})]
    /\ Goto(w, "batch")
    /\ UNCHANGED <<files, ghost, spooled, held, budget, job>>

\* A sweep goes from filemtime() to rename() in microseconds, so a restarted
\* owner does not claim the file again in between, except under "sweepRace".
NotBeingSwept(w, m) ==
    \/ "sweepRace" \in Faults
    \/ \A v \in Workers : ~(/\ job[v].ctx = "sweep" /\ job[v].mail = m
                             /\ job[v].area = AreaOf(w))

\* The next file of the batch has gone: another daemon claimed it.
ClaimSkip(w, m) ==
    /\ pending[m] = "none"
    /\ UNCHANGED <<files, pc, job, budget>>

\* rename() pending/ -> own area; the file keeps pending's modification time,
\* which is older than the sweep age when mail has waited that long ("backlog").
Claim(w, m) ==
    /\ pending[m] # "none" /\ NotBeingSwept(w, m)
    /\ pending' = [pending EXCEPT ![m] = "none"]
    /\ Put(AreaOf(w), m, pending[m])
    /\ \/ stale' = stale \ {<<AreaOf(w), m>>} /\ UNCHANGED budget
       \/ stale' = stale \union {<<AreaOf(w), m>>} /\ Fault("backlog")
    /\ job' = [job EXCEPT ![w] = [mail |-> m, area |-> AreaOf(w), ctx |-> "batch",
                                  dest |-> "pending"]]
    /\ Goto(w, "touch")
    /\ UNCHANGED <<failed, sent, ledger>>

NextFile(w, m) ==
    /\ pc[w] = "batch" /\ m \in batch[w]
    /\ \A n \in batch[w] \ {m} : Before(m, n)
    /\ batch' = [batch EXCEPT ![w] = @ \ {m}]
    /\ ClaimSkip(w, m) \/ Claim(w, m)
    /\ UNCHANGED <<ghost, spooled, held>>

BatchDone(w) ==
    /\ pc[w] = "batch" /\ batch[w] = {} /\ Goto(w, "rest")
    /\ UNCHANGED <<files, ghost, spooled, held, budget, job, batch>>

\* touch() stamps the claim; on a file swept away meanwhile it makes an empty one.
Touch(w) ==
    /\ pc[w] = "touch"
    /\ Put(job[w].area, job[w].mail, IF InHand(w) = "none" THEN "torn" ELSE InHand(w))
    /\ stale' = stale \ {<<job[w].area, job[w].mail>>}
    /\ Goto(w, "decode")
    /\ UNCHANGED <<pending, failed, sent, ledger, job, batch, ghost, spooled, held, budget>>

\* Read and decode, twice if need be.  Undecodable goes to failed/, held mail
\* back to pending/, and a file that has gone is an uncaught error.
Decode(w) ==
    /\ pc[w] = "decode"
    /\ UNCHANGED <<sent, ledger, ghost, spooled, held>>
    /\ \/ /\ \/ InHand(w) = "torn" /\ UNCHANGED budget
             \/ InHand(w) = "good" /\ Fault("badRead")
          /\ failed' = [failed EXCEPT ![job[w].mail] = InHand(w)]
          /\ Drop(w) /\ Resume(w)
          /\ UNCHANGED pending
       \/ /\ InHand(w) = "good" /\ Blocked(job[w].mail)
          /\ pending' = [pending EXCEPT ![job[w].mail] = InHand(w)]
          /\ Drop(w) /\ Resume(w)
          /\ UNCHANGED <<failed, budget>>
       \/ /\ InHand(w) = "good" /\ ~Blocked(job[w].mail)
          /\ Goto(w, "send")
          /\ UNCHANGED <<pending, failed, sending, stale, job, batch, budget>>
       \/ /\ InHand(w) = "none" /\ Dies(w)
          /\ UNCHANGED <<pending, failed, sending, stale, budget>>

\* catch (\Exception): the file is rewritten and moved to pending/ or failed/.
Catch(w, dest) ==
    /\ Goto(w, "rewrite")
    /\ job' = [job EXCEPT ![w] = [mail |-> @.mail, area |-> @.area, ctx |-> @.ctx,
                                  dest |-> dest]]
    /\ UNCHANGED batch

Accept(m) == accepted' = [accepted EXCEPT ![m] = @ + 1]

\* SMTP takes the mail.
SendAccepted(w) ==
    /\ pc[w] = "send" /\ job[w].mail \notin NoRecipient
    /\ Accept(job[w].mail) /\ Goto(w, "ledger")
    /\ UNCHANGED <<files, job, batch, lostTrack, spooled, held, budget>>

\* SMTP takes it but the reply is lost: the daemon sees a transient failure.
SendLostReply(w) ==
    /\ pc[w] = "send" /\ job[w].mail \notin NoRecipient /\ Fault("lostReply")
    /\ Accept(job[w].mail) /\ LoseTrack(job[w].mail) /\ Catch(w, "pending")
    /\ UNCHANGED <<files, spooled, held>>

\* A transient failure goes back to pending/; a permanent one (which records a
\* bounce) and a mail without recipients go to failed/.
SendFails(w, dest) ==
    /\ pc[w] = "send"
    /\ job[w].mail \in NoRecipient => dest = "failed"
    /\ Catch(w, dest)
    /\ UNCHANGED <<files, ghost, spooled, held, budget>>

-------------------------------------------------------------------------------
(* After SMTP has accepted. *)

\* Touch the marker; a failure to is silenced.
WriteLedger(w) ==
    /\ pc[w] = "ledger"
    /\ \/ ledger' = ledger \union {job[w].mail} /\ UNCHANGED <<lostTrack, budget>>
       \/ UNCHANGED ledger /\ LoseTrack(job[w].mail) /\ Fault("disk")
    /\ Goto(w, "file")
    /\ UNCHANGED <<pending, failed, sent, sending, stale, job, batch, accepted, spooled, held>>

\* Write the gzipped record to sent/ (or, when that fails, move the file there).
\* With the file gone, a send in progress raises into its catch block and a
\* recovery falls back to re-queueing.
File(w) ==
    /\ pc[w] = "file"
    /\ UNCHANGED <<pending, failed, ledger, accepted, spooled, held>>
    /\ \/ /\ InHand(w) # "none"
          /\ sent' = [sent EXCEPT ![job[w].mail] = InHand(w)]
          /\ \/ Goto(w, "unlink") /\ UNCHANGED <<sending, stale, budget>>
             \/ Goto(w, "unmark") /\ Drop(w) /\ Fault("disk")
          /\ UNCHANGED <<lostTrack, job, batch>>
       \/ /\ InHand(w) = "none"
          /\ UNCHANGED <<sent, sending, stale, budget>>
          /\ IF job[w].ctx = "batch"
             THEN Catch(w, "pending") /\ LoseTrack(job[w].mail)
             ELSE Goto(w, "putBack") /\ UNCHANGED <<lostTrack, job, batch>>

Unlink(w) ==
    /\ pc[w] = "unlink" /\ Drop(w) /\ Goto(w, "unmark")
    /\ UNCHANGED <<pending, failed, sent, ledger, job, batch, ghost, spooled, held, budget>>

\* Drop the marker; a send goes on to its logging, a recovery to its loop.
Unmark(w) ==
    /\ pc[w] = "unmark"
    /\ ledger' = ledger \ {job[w].mail}
    /\ IF job[w].ctx = "batch" THEN Goto(w, "log") /\ UNCHANGED <<job, batch>> ELSE Resume(w)
    /\ UNCHANGED <<pending, failed, sent, sending, stale, ghost, spooled, held, budget>>

\* The logging is still inside the try block: if it raises, the mail that has
\* just been filed is written back and re-queued.
LogSend(w) ==
    /\ pc[w] = "log"
    /\ \/ Resume(w) /\ UNCHANGED <<lostTrack, budget>>
       \/ Fault("log") /\ Catch(w, "pending") /\ LoseTrack(job[w].mail)
    /\ UNCHANGED <<files, accepted, spooled, held>>

-------------------------------------------------------------------------------
(* The catch block, and the ways a daemon ends. *)

\* file_put_contents() over the claimed file, creating it if it has gone.
Rewrite(w) ==
    /\ pc[w] = "rewrite"
    /\ Put(job[w].area, job[w].mail, "good")
    /\ stale' = stale \ {<<job[w].area, job[w].mail>>}
    /\ Goto(w, "move")
    /\ UNCHANGED <<pending, failed, sent, ledger, job, batch, ghost, spooled, held, budget>>

\* The rename after it; a file swept away in between is an uncaught error.
Move(w) ==
    /\ pc[w] = "move"
    /\ UNCHANGED <<sent, ledger, ghost, spooled, held, budget>>
    /\ \/ /\ InHand(w) # "none" /\ job[w].dest = "pending"
          /\ pending' = [pending EXCEPT ![job[w].mail] = InHand(w)]
          /\ UNCHANGED failed /\ Drop(w) /\ Resume(w)
       \/ /\ InHand(w) # "none" /\ job[w].dest = "failed"
          /\ failed' = [failed EXCEPT ![job[w].mail] = InHand(w)]
          /\ UNCHANGED pending /\ Drop(w) /\ Resume(w)
       \/ /\ InHand(w) = "none" /\ Dies(w)
          /\ UNCHANGED <<pending, failed, sending, stale>>

\* The rewrite truncates before it writes: a kill, or a full disk, in the middle
\* leaves a torn file in the claim area.
Tear(w) ==
    /\ pc[w] = "rewrite" /\ Fault("tear")
    /\ Put(job[w].area, job[w].mail, "torn")
    /\ stale' = stale \ {<<job[w].area, job[w].mail>>}
    /\ Dies(w)
    /\ UNCHANGED <<pending, failed, sent, ledger, ghost, spooled, held>>

\* SIGKILL, OOM or host loss between any two steps.
Crash(w) ==
    /\ pc[w] # "down" /\ Fault("crash") /\ Dies(w)
    /\ IF pc[w] = "ledger" THEN LoseTrack(job[w].mail) ELSE UNCHANGED lostTrack
    /\ UNCHANGED <<files, accepted, spooled, held>>

\* shouldStop() is looked at between batches only; supervisor stops a daemon to
\* restart it.
Stop(w) ==
    /\ pc[w] = "idle" /\ Fault("restart") /\ Dies(w)
    /\ UNCHANGED <<files, ghost, spooled, held>>

\* After a batch: sleep(1), and for the housekeeper once an hour the sweep again.
Rest(w) ==
    /\ pc[w] = "rest" /\ Goto(w, "idle")
    /\ UNCHANGED <<files, ghost, spooled, held, budget, job, batch>>

Housekeep(w) ==
    /\ w = Housekeeper /\ pc[w] = "rest" /\ Goto(w, "sweep")
    /\ UNCHANGED <<files, ghost, spooled, held, budget, job, batch>>

-------------------------------------------------------------------------------
(* Operator commands. *)

\* Mutant: the cleanup sweeps failed/ instead of sent/.
CleanupSent_Failed(m) ==
    /\ failed[m] # "none" /\ failed' = [failed EXCEPT ![m] = "none"]
    /\ UNCHANGED <<pending, sent, sending, stale, ledger, procs, ghost, spooled, held, budget>>

\* cleanupSent() after --cleanup-days: sent records, and markers nothing is left
\* to reclaim (seven days against an hourly sweep).
CleanupSent(m) ==
    /\ \/ sent[m] # "none" /\ sent' = [sent EXCEPT ![m] = "none"] /\ UNCHANGED ledger
       \/ /\ m \in ledger /\ \A a \in Workers : sending[a][m] = "none"
          /\ \A w \in Workers : job[w].mail # m
          /\ ledger' = ledger \ {m} /\ UNCHANGED sent
    /\ UNCHANGED <<pending, failed, sending, stale, procs, ghost, spooled, held, budget>>

\* retryFailed(id) moves any failed file; retryAllFailed() skips undecodable ones.
RetryFailed(m, byId) ==
    /\ failed[m] = "good" \/ (byId /\ failed[m] = "torn")
    /\ pending' = [pending EXCEPT ![m] = failed[m]]
    /\ failed' = [failed EXCEPT ![m] = "none"]
    /\ UNCHANGED <<sent, sending, stale, ledger, procs, ghost, spooled, held, budget>>

-------------------------------------------------------------------------------
\* What a daemon does by itself, without the environment's help or harm.
Step(w) ==
    \/ Start(w) \/ OwnDone(w) \/ SweepDone(w) \/ Recover(w) \/ PutBack(w)
    \/ StartBatch(w) \/ BatchDone(w) \/ Rest(w) \/ Touch(w) \/ Decode(w)
    \/ SendAccepted(w) \/ (\E dest \in {"pending", "failed"} : SendFails(w, dest))
    \/ WriteLedger(w) \/ File(w) \/ Unlink(w) \/ Unmark(w) \/ LogSend(w)
    \/ Rewrite(w) \/ Move(w)
    \/ \E m \in Mails : OwnTake(w, m) \/ NextFile(w, m)
    \/ \E a \in Workers, m \in Mails : SweepTake(w, a, m)

Next ==
    \/ \E w \in Workers : Step(w) \/ SendLostReply(w) \/ Tear(w) \/ Crash(w)
                          \/ Stop(w) \/ Housekeep(w)
    \/ \E m \in Mails : Spool(m) \/ CleanupSent(m)
    \/ \E m \in Mails, byId \in BOOLEAN : RetryFailed(m, byId)
    \/ \E a \in Workers, m \in Mails : Age(a, m)
    \/ Press \/ Lift

Spec == Init /\ [][Next]_vars

\* What the code's scheduling justifies: supervisor restarts every daemon that is
\* not gone and a daemon always takes its next step; the housekeeper gets to its hourly sweep;
\* time passes; SMTP, tried for ever, in the end takes a mail; and a lockdown is in the end lifted.
Fairness ==
    /\ \A w \in Workers : /\ WF_vars((w \in Gone => pc[w] # "down") /\ Step(w))
                          /\ SF_vars(SendAccepted(w))
    /\ SF_vars(Housekeep(Housekeeper))
    /\ \A a \in Workers, m \in Mails : WF_vars(Age(a, m))
    /\ WF_vars(Lift)

FairSpec == Spec /\ Fairness

-------------------------------------------------------------------------------
(* Properties *)

\* The steps of a daemon that has no file in hand, and of one that is sending.
Idling == {"down", "own", "sweep", "idle", "batch", "rest"}
Sending(w) == job[w] # NoJob /\ job[w].ctx = "batch"

\* The shape of the state: a daemon has a file in hand exactly in the steps that
\* work on one, and files to do only inside a batch.
FilesTyped ==
    /\ pending \in [Mails -> Content] /\ failed \in [Mails -> Content]
    /\ sent \in [Mails -> Content] /\ sending \in [Workers -> [Mails -> Content]]
    /\ stale \subseteq Workers \X Mails /\ ledger \subseteq Mails
DaemonsTyped ==
    /\ pc \in [Workers -> PCs]
    /\ job \in [Workers -> Jobs \union {NoJob}]
    /\ batch \in [Workers -> SUBSET Mails]
    /\ \A w \in Workers : /\ job[w] = NoJob <=> pc[w] \in Idling
                          /\ batch[w] # {} => pc[w] = "batch" \/ Sending(w)
OthersTyped ==
    /\ spooled \subseteq Mails /\ held \in BOOLEAN /\ budget \in Nat
    /\ accepted \in [Mails -> Nat] /\ lostTrack \in [Mails -> Nat]
TypeOK == FilesTyped /\ DaemonsTyped /\ OthersTyped

\* fileAlreadyDelivered() files a stranded mail as sent on the strength of a
\* marker alone: so a marker, or a record in sent/, must mean that SMTP really
\* took the mail, whatever crashed, stalled or was swept in between.
RecordsAreTrue ==
    \A m \in Mails : (m \in ledger \/ sent[m] # "none") => accepted[m] > 0

\* "nothing is dead-lettered": a spooled mail SMTP has not taken still has an
\* intact copy somewhere, or is in the memory of a daemon rewriting its file.
IntactCopy(m) ==
    \/ pending[m] = "good" \/ failed[m] = "good"
    \/ \E a \in Workers : sending[a][m] = "good"
NothingLost ==
    \A m \in spooled : accepted[m] > 0 \/ IntactCopy(m)

\* A mail is delivered twice only when the spool lost track of an acceptance:
\* a crash anywhere else, a re-queue, a reclaim by the restarted owner or by a
\* sibling never sends it again.
DuplicatesAccountedFor ==
    \A m \in Mails : accepted[m] <= 1 + lostTrack[m]

\* While a worker is sending, its claim stays where it is: nobody else re-queues
\* a file from under a live send.
InFlight(w) == pc[w] \in {"decode", "send", "ledger"}
LiveClaimsKept ==
    \A w \in Workers : InFlight(w) => InHand(w) # "none"

\* A complete file in pending/ is always valid JSON (the comment in processSpool()).
PendingAlwaysValid == \A m \in Mails : pending[m] # "torn"

\* A spooled mail is in the end taken by SMTP or set aside in failed/.
Settled(m) == accepted[m] > 0 \/ failed[m] # "none"
Drains == \A m \in Mails : m \in spooled ~> Settled(m)

\* What has become of a mail, for the one who spooled it.
StatusOf(m) ==
    IF m \notin spooled THEN "new"
    ELSE IF accepted[m] > 0 THEN "delivered"
    ELSE IF pending[m] = "good" \/ (\E a \in Workers : sending[a][m] = "good") THEN "owed"
    ELSE IF failed[m] = "good" THEN "aside"
    ELSE "lost"
Statuses == [m \in Mails |-> StatusOf(m)]

Delivery == INSTANCE MailDelivery WITH status <- Statuses

\* The spool keeps the promise of MailDelivery at every moment: a mail goes from
\* spool() to owed, from owed to delivered or aside, back only by an operator's
\* retry, one mail at a time and never nowhere, through every claim, re-queue,
\* reclaim and crash.
KeepsPromise == Delivery!Safety

\* And with the daemons' fairness it is not owed for ever.
ImplementsDelivery == Delivery!Spec
===============================================================================
