-------------------------- MODULE EmailSpool_proofs ---------------------------
(* Machine-checked theorems about EmailSpool, for any mails, workers, batch *)
(* limit and fault budget.                                                  *)
EXTENDS EmailSpool, TLAPS

-------------------------------------------------------------------------------
(* What the building blocks of the actions keep. *)

\* A file in hand is a real mail: NoJob stands for empty hands only.
LEMMA JobFields ==
    ASSUME NEW j \in Jobs
    PROVE  /\ j.mail \in Mails /\ j.area \in Workers
           /\ j.ctx \in {"batch", "own", "sweep"} /\ j.dest \in {"pending", "failed"}
           /\ j # NoJob
  BY SpoolAssumption DEF Jobs, NoJob

LEMMA JobMade ==
    ASSUME NEW m \in Mails, NEW a \in Workers, NEW c \in {"batch", "own", "sweep"},
           NEW d \in {"pending", "failed"}
    PROVE  [mail |-> m, area |-> a, ctx |-> c, dest |-> d] \in Jobs
  BY DEF Jobs

\* A daemon in a working step has a file in hand, of known content.
LEMMA InHandTyped ==
    ASSUME TypeOK, NEW w \in Workers, pc[w] \notin Idling
    PROVE  job[w] \in Jobs /\ InHand(w) \in Content
  <1>1. job[w] \in Jobs
    BY DEF TypeOK, DaemonsTyped
  <1> QED
    BY <1>1, JobFields DEF TypeOK, FilesTyped, InHand

LEMMA PutTyped ==
    ASSUME FilesTyped, NEW a \in Workers, NEW m \in Mails, NEW c \in Content, Put(a, m, c)
    PROVE  sending' \in [Workers -> [Mails -> Content]]
  BY DEF FilesTyped, Put

LEMMA DropTyped ==
    ASSUME TypeOK, NEW w \in Workers, pc[w] \notin Idling, Drop(w)
    PROVE  sending' \in [Workers -> [Mails -> Content]] /\ stale' \subseteq stale
  BY InHandTyped, JobFields, PutTyped DEF TypeOK, Drop, Content

LEMMA GotoTyped ==
    ASSUME DaemonsTyped, NEW w \in Workers, NEW l \in PCs, Goto(w, l),
           UNCHANGED <<job, batch>>,
           l \in Idling <=> pc[w] \in Idling,
           batch[w] = {} \/ Sending(w) \/ l = "batch"
    PROVE  DaemonsTyped'
  BY DEF DaemonsTyped, Goto, Sending

LEMMA ResumeTyped ==
    ASSUME DaemonsTyped, NEW w \in Workers, pc[w] \notin Idling, Resume(w)
    PROVE  DaemonsTyped'
  <1>1. job[w] \in Jobs
    BY DEF DaemonsTyped
  <1>2. job[w].ctx \in {"batch", "own", "sweep"}
    BY <1>1, JobFields
  <1>3. job[w].ctx \in PCs \cap Idling
    BY <1>2 DEF PCs, Idling
  <1>4. batch[w] # {} => job[w].ctx = "batch"
    BY <1>1 DEF DaemonsTyped, Sending, Idling
  <1> QED
    BY <1>3, <1>4 DEF DaemonsTyped, Resume, Goto, Sending

LEMMA DiesTyped ==
    ASSUME DaemonsTyped, NEW w \in Workers, Dies(w)
    PROVE  DaemonsTyped'
  BY DEF DaemonsTyped, Dies, Goto, Sending, PCs, Idling

LEMMA CatchTyped ==
    ASSUME DaemonsTyped, NEW w \in Workers, pc[w] \notin Idling,
           NEW d \in {"pending", "failed"}, Catch(w, d)
    PROVE  DaemonsTyped'
  <1> DEFINE j == [mail |-> job[w].mail, area |-> job[w].area, ctx |-> job[w].ctx, dest |-> d]
  <1>1. job[w] \in Jobs
    BY DEF DaemonsTyped
  <1>2. j \in Jobs /\ j.ctx = job[w].ctx
    BY <1>1, JobFields, JobMade
  <1>3. j # NoJob
    BY <1>2, JobFields
  <1>4. job' = [job EXCEPT ![w] = j]
    BY DEF Catch, DaemonsTyped
  <1> HIDE DEF j
  <1> QED
    BY <1>1, <1>2, <1>3, <1>4 DEF DaemonsTyped, Catch, Goto, Sending, PCs, Idling

LEMMA TakeTyped ==
    ASSUME DaemonsTyped, NEW w \in Workers, pc[w] \in Idling,
           NEW j \in Jobs, NEW l \in PCs \ Idling,
           job' = [job EXCEPT ![w] = j], Goto(w, l),
           NEW b \in SUBSET Mails, batch' = [batch EXCEPT ![w] = b],
           b # {} => j.ctx = "batch"
    PROVE  DaemonsTyped'
  <1>1. j # NoJob
    BY JobFields
  <1> QED
    BY <1>1 DEF DaemonsTyped, Goto, Sending

LEMMA LoseTrackTyped ==
    ASSUME OthersTyped, NEW m \in Mails
    PROVE  /\ LoseTrack(m) => lostTrack' \in [Mails -> Nat]
           /\ Accept(m) => accepted' \in [Mails -> Nat]
  BY DEF OthersTyped, LoseTrack, Accept

LEMMA FaultTyped ==
    ASSUME OthersTyped, NEW k, Fault(k)
    PROVE  budget' \in Nat
  BY DEF OthersTyped, Fault
-------------------------------------------------------------------------------
\* The state keeps its shape: a daemon has a file in hand exactly in the steps
\* that work on one, and files to do only inside a batch.
LEMMA StepTyped ==
    ASSUME TypeOK, NEW w \in Workers, Step(w)
    PROVE  TypeOK'
  <1> USE DEF TypeOK
  <1>1. CASE Start(w) \/ OwnDone(w) \/ SweepDone(w) \/ BatchDone(w) \/ Rest(w)
    BY <1>1 DEF Start, OwnDone, SweepDone, BatchDone, Rest, FilesTyped, DaemonsTyped, OthersTyped,
       files, ghost, Goto, Sending, PCs, Idling
  <1>2. CASE Recover(w)
    <2>1. DaemonsTyped'
      BY <1>2, GotoTyped DEF Recover, PCs, Idling, DaemonsTyped
    <2> QED
      BY <1>2, <2>1 DEF Recover, FilesTyped, OthersTyped, files, ghost
  <1>3. CASE PutBack(w)
    <2>1. pc[w] \notin Idling
      BY <1>3 DEF PutBack, Idling
    <2>2. DaemonsTyped'
      BY <1>3, <2>1, ResumeTyped, DiesTyped DEF PutBack
    <2>3. FilesTyped'
      BY <1>3, <2>1, InHandTyped, JobFields, DropTyped DEF PutBack, FilesTyped
    <2> QED
      BY <1>3, <2>2, <2>3 DEF PutBack, OthersTyped, ghost
  <1>4. CASE StartBatch(w)
    <2>1. Listing({m \in Mails : pending[m] # "none"}) \subseteq Mails
      BY DEF Listing
    <2> QED
      BY <1>4, <2>1 DEF StartBatch, FilesTyped, DaemonsTyped, OthersTyped, files, ghost, Goto,
         Sending, PCs, Idling
  <1>5. CASE Touch(w)
    <2>1. pc[w] \notin Idling
      BY <1>5 DEF Touch, Idling
    <2>2. sending' \in [Workers -> [Mails -> Content]]
      BY <1>5, <2>1, InHandTyped, JobFields, PutTyped DEF Touch, Content
    <2>3. DaemonsTyped'
      BY <1>5, <2>1, GotoTyped DEF Touch, PCs, Idling, DaemonsTyped
    <2> QED
      BY <1>5, <2>2, <2>3 DEF Touch, FilesTyped, OthersTyped, ghost
  <1>6. CASE Decode(w)
    <2>1. pc[w] \notin Idling
      BY <1>6 DEF Decode, Idling
    <2>2. job[w].mail \in Mails /\ InHand(w) \in Content
      BY <2>1, InHandTyped, JobFields
    <2>3. DaemonsTyped'
      <3>1. Goto(w, "send") /\ UNCHANGED <<job, batch>> => DaemonsTyped'
        BY <1>6, <2>1, GotoTyped DEF Decode, PCs, Idling, DaemonsTyped
      <3> QED
        BY <1>6, <2>1, <3>1, ResumeTyped, DiesTyped DEF Decode
    <2>4. FilesTyped'
      BY <1>6, <2>1, <2>2, DropTyped DEF Decode, FilesTyped
    <2>5. OthersTyped'
      BY <1>6, FaultTyped DEF Decode, OthersTyped, ghost
    <2> QED
      BY <2>3, <2>4, <2>5
  <1>7. CASE SendAccepted(w)
    <2>1. pc[w] \notin Idling
      BY <1>7 DEF SendAccepted, Idling
    <2>2. accepted' \in [Mails -> Nat]
      BY <1>7, <2>1, InHandTyped, JobFields, LoseTrackTyped DEF SendAccepted
    <2>3. DaemonsTyped'
      BY <1>7, <2>1, GotoTyped DEF SendAccepted, PCs, Idling, DaemonsTyped
    <2> QED
      BY <1>7, <2>2, <2>3 DEF SendAccepted, FilesTyped, OthersTyped, files
  <1>8. ASSUME NEW dest \in {"pending", "failed"}, SendFails(w, dest)
        PROVE  TypeOK'
    <2>1. DaemonsTyped'
      BY <1>8, CatchTyped DEF SendFails, Idling
    <2> QED
      BY <1>8, <2>1 DEF SendFails, FilesTyped, OthersTyped, files, ghost
  <1>9. CASE WriteLedger(w)
    <2>1. pc[w] \notin Idling
      BY <1>9 DEF WriteLedger, Idling
    <2>2. job[w].mail \in Mails
      BY <2>1, InHandTyped, JobFields
    <2>3. DaemonsTyped'
      BY <1>9, <2>1, GotoTyped DEF WriteLedger, PCs, Idling, DaemonsTyped
    <2>4. OthersTyped'
      BY <1>9, <2>2, FaultTyped, LoseTrackTyped DEF WriteLedger, OthersTyped
    <2> QED
      BY <1>9, <2>2, <2>3, <2>4 DEF WriteLedger, FilesTyped
  <1>10. CASE File(w)
    <2>1. pc[w] \notin Idling
      BY <1>10 DEF File, Idling
    <2>2. job[w].mail \in Mails /\ InHand(w) \in Content
      BY <2>1, InHandTyped, JobFields
    <2>3. DaemonsTyped'
      <3>1. ASSUME NEW l \in {"unlink", "unmark", "putBack"}, Goto(w, l), UNCHANGED <<job, batch>>
            PROVE  DaemonsTyped'
        BY <1>10, <2>1, <3>1, GotoTyped DEF File, PCs, Idling, DaemonsTyped
      <3> QED
        BY <1>10, <2>1, <3>1, CatchTyped DEF File
    <2>4. FilesTyped'
      BY <1>10, <2>1, <2>2, DropTyped DEF File, FilesTyped
    <2>5. OthersTyped'
      BY <1>10, <2>2, FaultTyped, LoseTrackTyped DEF File, OthersTyped
    <2> QED
      BY <2>3, <2>4, <2>5
  <1>11. CASE Unlink(w)
    <2>1. pc[w] \notin Idling
      BY <1>11 DEF Unlink, Idling
    <2>2. DaemonsTyped'
      BY <1>11, <2>1, GotoTyped DEF Unlink, PCs, Idling, DaemonsTyped
    <2> QED
      BY <1>11, <2>1, <2>2, DropTyped DEF Unlink, FilesTyped, OthersTyped, ghost
  <1>12. CASE Unmark(w)
    <2>1. pc[w] \notin Idling
      BY <1>12 DEF Unmark, Idling
    <2>2. Goto(w, "log") /\ UNCHANGED <<job, batch>> => DaemonsTyped'
      BY <1>12, <2>1, GotoTyped DEF Unmark, PCs, Idling, DaemonsTyped
    <2>3. DaemonsTyped'
      BY <1>12, <2>1, <2>2, ResumeTyped DEF Unmark
    <2> QED
      BY <1>12, <2>3 DEF Unmark, FilesTyped, OthersTyped, ghost
  <1>13. CASE LogSend(w)
    <2>1. pc[w] \notin Idling
      BY <1>13 DEF LogSend, Idling
    <2>2. job[w].mail \in Mails
      BY <2>1, InHandTyped, JobFields
    <2>3. DaemonsTyped'
      BY <1>13, <2>1, ResumeTyped, CatchTyped DEF LogSend
    <2>4. OthersTyped'
      BY <1>13, <2>2, FaultTyped, LoseTrackTyped DEF LogSend, OthersTyped
    <2> QED
      BY <1>13, <2>3, <2>4 DEF LogSend, FilesTyped, files
  <1>14. CASE Rewrite(w)
    <2>1. pc[w] \notin Idling
      BY <1>14 DEF Rewrite, Idling
    <2>2. sending' \in [Workers -> [Mails -> Content]]
      BY <1>14, <2>1, InHandTyped, JobFields, PutTyped DEF Rewrite, Content
    <2>3. DaemonsTyped'
      BY <1>14, <2>1, GotoTyped DEF Rewrite, PCs, Idling, DaemonsTyped
    <2> QED
      BY <1>14, <2>2, <2>3 DEF Rewrite, FilesTyped, OthersTyped, ghost
  <1>15. CASE Move(w)
    <2>1. pc[w] \notin Idling
      BY <1>15 DEF Move, Idling
    <2>2. job[w].mail \in Mails /\ InHand(w) \in Content
      BY <2>1, InHandTyped, JobFields
    <2>3. DaemonsTyped'
      BY <1>15, <2>1, ResumeTyped, DiesTyped DEF Move
    <2>4. FilesTyped'
      BY <1>15, <2>1, <2>2, DropTyped DEF Move, FilesTyped
    <2> QED
      BY <1>15, <2>3, <2>4 DEF Move, OthersTyped, ghost
  <1>16. ASSUME NEW m \in Mails, NextFile(w, m)
         PROVE  TypeOK'
    <2> DEFINE j == [mail |-> m, area |-> w, ctx |-> "batch", dest |-> "pending"]
    <2>1. pc[w] \in Idling /\ batch[w] \ {m} \in SUBSET Mails
      BY <1>16 DEF NextFile, Idling, DaemonsTyped
    <2>2. CASE ClaimSkip(w, m)
      BY <1>16, <2>1, <2>2 DEF NextFile, ClaimSkip, FilesTyped, DaemonsTyped, OthersTyped, files,
         ghost, Sending
    <2>3. CASE Claim(w, m)
      <3>1. j \in Jobs /\ j.ctx = "batch"
        BY JobMade
      <3>2. job' = [job EXCEPT ![w] = j] /\ Goto(w, "touch")
            /\ batch' = [batch EXCEPT ![w] = batch[w] \ {m}]
        BY <1>16, <2>3 DEF Claim, NextFile, AreaOf, DaemonsTyped
      <3> HIDE DEF j
      <3>3. "touch" \in PCs \ Idling
        BY DEF PCs, Idling
      <3>4. DaemonsTyped'
        BY <2>1, <3>1, <3>2, <3>3, TakeTyped
      <3>5. pending[m] \in Content
        BY DEF FilesTyped
      <3>6. sending' \in [Workers -> [Mails -> Content]]
        BY <2>3, <3>5, PutTyped DEF Claim, AreaOf
      <3>7. FilesTyped'
        BY <2>3, <3>6 DEF Claim, FilesTyped, Content, AreaOf
      <3>8. OthersTyped'
        BY <1>16, <2>3, FaultTyped DEF NextFile, Claim, OthersTyped, ghost
      <3> QED
        BY <3>4, <3>7, <3>8
    <2> QED
      BY <1>16, <2>2, <2>3 DEF NextFile
  <1>17. ASSUME NEW m \in Mails, OwnTake(w, m) \/ \E a \in Workers : SweepTake(w, a, m)
         PROVE  TypeOK'
    <2>1. PICK a \in Workers, c \in {"own", "sweep"} : pc[w] = c /\ Take(w, a, m, c)
      BY <1>17 DEF OwnTake, SweepTake, AreaOf
    <2> DEFINE j == [mail |-> m, area |-> a, ctx |-> c, dest |-> "pending"]
    <2>2. j \in Jobs
      BY JobMade
    <2>3. job' = [job EXCEPT ![w] = j] /\ Goto(w, "recover") /\ batch' = batch
      BY <2>1 DEF Take
    <2> HIDE DEF j
    <2>4. "recover" \in PCs \ Idling /\ pc[w] \in Idling /\ batch[w] = {}
      BY <2>1 DEF PCs, Idling, DaemonsTyped, Sending
    <2>5. batch' = [batch EXCEPT ![w] = {}]
      BY <2>3, <2>4 DEF DaemonsTyped
    <2>6. DaemonsTyped'
      BY <2>2, <2>3, <2>4, <2>5, TakeTyped
    <2> QED
      BY <2>1, <2>6 DEF Take, FilesTyped, OthersTyped, files, ghost
  <1> QED
    BY <1>1, <1>2, <1>3, <1>4, <1>5, <1>6, <1>7, <1>8, <1>9, <1>10, <1>11, <1>12, <1>13,
       <1>14, <1>15, <1>16, <1>17 DEF Step
\* A fault, or somebody outside the daemons, keeps the shape too.
LEMMA OtherTyped ==
    ASSUME TypeOK,
           \/ \E w \in Workers : SendLostReply(w) \/ Tear(w) \/ Crash(w) \/ Stop(w) \/ Housekeep(w)
           \/ \E m \in Mails : Spool(m) \/ CleanupSent(m)
           \/ \E m \in Mails, byId \in BOOLEAN : RetryFailed(m, byId)
           \/ \E a \in Workers, m \in Mails : Age(a, m)
           \/ Press \/ Lift
    PROVE  TypeOK'
  <1> USE DEF TypeOK
  <1>1. ASSUME NEW w \in Workers, SendLostReply(w)
        PROVE  TypeOK'
    <2>1. pc[w] \notin Idling
      BY <1>1 DEF SendLostReply, Idling
    <2>2. OthersTyped'
      BY <1>1, <2>1, InHandTyped, JobFields, FaultTyped, LoseTrackTyped DEF SendLostReply, OthersTyped
    <2> QED
      BY <1>1, <2>1, <2>2, CatchTyped DEF SendLostReply, FilesTyped, files
  <1>2. ASSUME NEW w \in Workers, Tear(w)
        PROVE  TypeOK'
    <2>1. pc[w] \notin Idling
      BY <1>2 DEF Tear, Idling
    <2>2. sending' \in [Workers -> [Mails -> Content]]
      BY <1>2, <2>1, InHandTyped, JobFields, PutTyped DEF Tear, Content
    <2> QED
      BY <1>2, <2>2, DiesTyped, FaultTyped DEF Tear, FilesTyped, OthersTyped, ghost
  <1>3. ASSUME NEW w \in Workers, Crash(w)
        PROVE  TypeOK'
    <2>1. pc[w] = "ledger" => job[w].mail \in Mails
      BY InHandTyped, JobFields DEF Idling
    <2>2. OthersTyped'
      BY <1>3, <2>1, FaultTyped, LoseTrackTyped DEF Crash, OthersTyped
    <2> QED
      BY <1>3, <2>2, DiesTyped DEF Crash, FilesTyped, files
  <1>4. ASSUME NEW w \in Workers, Stop(w)
        PROVE  TypeOK'
    BY <1>4, DiesTyped, FaultTyped DEF Stop, FilesTyped, OthersTyped, files, ghost
  <1>5. ASSUME NEW w \in Workers, Housekeep(w)
        PROVE  TypeOK'
    BY <1>5 DEF Housekeep, FilesTyped, DaemonsTyped, OthersTyped, files, ghost, Goto, Sending,
       PCs, Idling
  <1>6. ASSUME NEW m \in Mails, Spool(m)
        PROVE  TypeOK'
    BY <1>6 DEF Spool, SpoolContent, FilesTyped, DaemonsTyped, OthersTyped, procs, ghost, Content,
       Sending
  <1>10. ASSUME NEW m \in Mails, CleanupSent(m)
         PROVE  TypeOK'
    <2>1. sent' \in [Mails -> Content] /\ ledger' \subseteq Mails
      BY <1>10 DEF CleanupSent, FilesTyped, Content
    <2> QED
      BY <1>10, <2>1 DEF CleanupSent, FilesTyped, DaemonsTyped, OthersTyped, procs, ghost, Sending
  <1>7. ASSUME NEW m \in Mails, NEW byId \in BOOLEAN, RetryFailed(m, byId)
        PROVE  TypeOK'
    BY <1>7 DEF RetryFailed, FilesTyped, DaemonsTyped, OthersTyped, procs, ghost, Content, Sending
  <1>8. ASSUME NEW a \in Workers, NEW m \in Mails, Age(a, m)
        PROVE  TypeOK'
    <2>1. FilesTyped' /\ DaemonsTyped'
      BY <1>8 DEF Age, FilesTyped, DaemonsTyped, procs, Sending
    <2>2. budget' \in Nat
      BY <1>8, FaultTyped DEF Age, OthersTyped
    <2> QED
      BY <1>8, <2>1, <2>2 DEF Age, OthersTyped, ghost
  <1>9. CASE Press \/ Lift
    BY <1>9, FaultTyped DEF Press, Lift, FilesTyped, DaemonsTyped, OthersTyped, files, procs,
       ghost, Sending
  <1> QED
    BY <1>1, <1>2, <1>3, <1>4, <1>5, <1>6, <1>7, <1>8, <1>9, <1>10

LEMMA InitTyped == Init => TypeOK
  <1> SUFFICES ASSUME Init PROVE TypeOK
    OBVIOUS
  <1>1. FilesTyped
    BY DEF Init, FilesTyped, Nowhere, Content
  <1>2. DaemonsTyped
    BY DEF Init, DaemonsTyped, PCs, Idling
  <1>3. OthersTyped
    BY SpoolAssumption DEF Init, OthersTyped
  <1> QED
    BY <1>1, <1>2, <1>3 DEF TypeOK

LEMMA NextTyped ==
    ASSUME TypeOK, [Next]_vars
    PROVE  TypeOK'
  <1>1. CASE UNCHANGED vars
    BY <1>1 DEF vars, files, procs, ghost, TypeOK, FilesTyped, DaemonsTyped, OthersTyped, Sending
  <1> QED
    BY <1>1, StepTyped, OtherTyped DEF Next

\* In every state of the spool a daemon has a file in hand exactly in the steps
\* that work on one, and files to do only inside a batch.
THEOREM Typing == Spec => []TypeOK
  BY InitTyped, NextTyped, PTL DEF Spec

-------------------------------------------------------------------------------
\* A daemon that goes on to file a mail does so because SMTP took it: the
\* strengthening that makes RecordsAreTrue inductive.
Filing == {"ledger", "file", "unlink", "unmark", "log"}
FilingTaken == \A w \in Workers : pc[w] \in Filing => accepted[job[w].mail] > 0
RecordsInv == TypeOK /\ RecordsAreTrue /\ FilingTaken

\* SMTP never takes a mail back.
LEMMA AcceptedGrows ==
    ASSUME TypeOK, [Next]_vars, NEW m \in Mails
    PROVE  accepted'[m] >= accepted[m]
  <1>1. ASSUME NEW w \in Workers, SendAccepted(w) \/ SendLostReply(w)
        PROVE  accepted'[m] >= accepted[m]
    <2>1. \A n \in Mails : accepted[n] \in Nat
      BY DEF TypeOK, OthersTyped
    <2>2. job[w].mail \in Mails
      BY <1>1, InHandTyped, JobFields DEF SendAccepted, SendLostReply, Idling
    <2> QED
      BY <1>1, <2>1, <2>2 DEF SendAccepted, SendLostReply, Accept, TypeOK, OthersTyped
  <1>2. ASSUME NEW w \in Workers, Step(w), ~SendAccepted(w)
        PROVE  UNCHANGED accepted
    BY <1>2 DEF Step, Start, OwnDone, SweepDone, Recover, PutBack, StartBatch, BatchDone, Rest,
       Touch, Decode, SendFails, WriteLedger, File, Unlink, Unmark, LogSend, Rewrite, Move,
       OwnTake, SweepTake, Take, NextFile, ghost
  <1>3. ASSUME NEW w \in Workers, Tear(w) \/ Crash(w) \/ Stop(w) \/ Housekeep(w)
        PROVE  UNCHANGED accepted
    BY <1>3 DEF Tear, Crash, Stop, Housekeep, ghost
  <1>4. ASSUME NEW a \in Workers, NEW n \in Mails, NEW byId \in BOOLEAN,
               Spool(n) \/ CleanupSent(n) \/ RetryFailed(n, byId) \/ Age(a, n)
        PROVE  UNCHANGED accepted
    BY <1>4 DEF Spool, CleanupSent, RetryFailed, Age, ghost
  <1>5. CASE Press \/ Lift \/ UNCHANGED vars
    BY <1>5 DEF Press, Lift, vars, ghost, TypeOK, OthersTyped
  <1>6. UNCHANGED accepted => accepted'[m] >= accepted[m]
    BY DEF TypeOK, OthersTyped
  <1>7. CASE \E w \in Workers : Step(w) \/ SendLostReply(w) \/ Tear(w) \/ Crash(w)
                               \/ Stop(w) \/ Housekeep(w)
    BY <1>1, <1>2, <1>3, <1>6, <1>7
  <1>8. CASE \/ \E n \in Mails : Spool(n) \/ CleanupSent(n)
             \/ \E n \in Mails, byId \in BOOLEAN : RetryFailed(n, byId)
             \/ \E a \in Workers, n \in Mails : Age(a, n)
    BY <1>4, <1>6, <1>8, SpoolAssumption
  <1> QED
    BY <1>5, <1>6, <1>7, <1>8 DEF Next
\* What a step of daemon w does to the daemons: the others stay as they are, and w
\* comes to a filing step only from another one with the same file, from SMTP's
\* acceptance, or from finding a marker.
FilesOn(w) == pc[w] \in Filing /\ job'[w] = job[w]
FindsMarker(w) == pc[w] = "recover" /\ job[w].mail \in ledger /\ job'[w] = job[w]

LEMMA DaemonStep ==
    ASSUME TypeOK, NEW w \in Workers,
           Step(w) \/ SendLostReply(w) \/ Tear(w) \/ Crash(w) \/ Stop(w) \/ Housekeep(w)
    PROVE  /\ \A v \in Workers \ {w} : pc'[v] = pc[v] /\ job'[v] = job[v]
           /\ pc'[w] \in Filing => FilesOn(w) \/ FindsMarker(w) \/ SendAccepted(w)
  <1> USE DEF TypeOK, DaemonsTyped, FilesOn, FindsMarker, Filing, Goto
  <1>1. ASSUME pc[w] \notin Idling
        PROVE  job[w].ctx \notin Filing
    BY <1>1, InHandTyped, JobFields
  <1>2. CASE \/ Start(w) \/ OwnDone(w) \/ SweepDone(w) \/ BatchDone(w) \/ Rest(w)
             \/ StartBatch(w) \/ Touch(w) \/ Rewrite(w) \/ Housekeep(w)
    BY <1>2 DEF Start, OwnDone, SweepDone, BatchDone, Rest, StartBatch, Touch, Rewrite, Housekeep
  <1>3. CASE Recover(w) \/ SendAccepted(w) \/ WriteLedger(w) \/ Unlink(w)
    BY <1>3 DEF Recover, SendAccepted, WriteLedger, Unlink
  <1>4. CASE PutBack(w) \/ Decode(w) \/ Move(w)
    BY <1>1, <1>4 DEF PutBack, Decode, Move, Resume, Dies, Idling
  <1>5. CASE Unmark(w) \/ LogSend(w)
    BY <1>1, <1>5 DEF Unmark, LogSend, Resume, Catch, Idling
  <1>6. CASE File(w)
    BY <1>6 DEF File, Catch
  <1>7. CASE SendLostReply(w) \/ \E dest \in {"pending", "failed"} : SendFails(w, dest)
    BY <1>7 DEF SendFails, SendLostReply, Catch
  <1>8. CASE Tear(w) \/ Crash(w) \/ Stop(w)
    BY <1>8 DEF Tear, Crash, Stop, Dies
  <1>9. CASE \/ \E m \in Mails : OwnTake(w, m)
             \/ \E a \in Workers, m \in Mails : SweepTake(w, a, m)
    BY <1>9 DEF OwnTake, SweepTake, Take
  <1>10. CASE \E m \in Mails : NextFile(w, m)
    BY <1>10 DEF NextFile, ClaimSkip, Claim
  <1> QED
    BY <1>2, <1>3, <1>4, <1>5, <1>6, <1>7, <1>8, <1>9, <1>10 DEF Step

\* Who else acts touches no daemon.
LEMMA OutsideStep ==
    ASSUME [Next]_vars,
           ~ \E w \in Workers : Step(w) \/ SendLostReply(w) \/ Tear(w) \/ Crash(w)
                                \/ Stop(w) \/ Housekeep(w)
    PROVE  pc' = pc /\ job' = job
  BY DEF Next, Spool, CleanupSent, RetryFailed, Age, Press, Lift, vars, procs

\* A record appears only at a filing step.
LEMMA RecordStep ==
    ASSUME TypeOK, [Next]_vars, NEW m \in Mails,
           m \in ledger' \/ sent'[m] # "none", m \notin ledger, sent[m] = "none"
    PROVE  \E w \in Workers : pc[w] \in Filing /\ job[w].mail = m
  <1>1. ASSUME NEW w \in Workers, WriteLedger(w) \/ File(w)
        PROVE  pc[w] \in Filing /\ job[w].mail = m
    BY <1>1 DEF WriteLedger, File, Filing, TypeOK, FilesTyped
  <1>2. ASSUME NEW w \in Workers, Step(w)
        PROVE  WriteLedger(w) \/ File(w)
    BY <1>2 DEF Step, Start, OwnDone, SweepDone, Recover, PutBack, StartBatch, BatchDone, Rest,
       Touch, Decode, SendAccepted, SendFails, Unlink, Unmark, LogSend, Rewrite, Move,
       OwnTake, SweepTake, Take, NextFile, Claim, ClaimSkip, files
  <1>3. ASSUME NEW w \in Workers, SendLostReply(w) \/ Tear(w) \/ Crash(w) \/ Stop(w) \/ Housekeep(w)
        PROVE  FALSE
    BY <1>3 DEF SendLostReply, Tear, Crash, Stop, Housekeep, files
  <1>4. ASSUME NEW a \in Workers, NEW n \in Mails, NEW byId \in BOOLEAN,
               Spool(n) \/ CleanupSent(n) \/ RetryFailed(n, byId) \/ Age(a, n)
        PROVE  FALSE
    BY <1>4 DEF Spool, CleanupSent, RetryFailed, Age, TypeOK, FilesTyped
  <1>5. CASE Press \/ Lift \/ UNCHANGED vars
    BY <1>5 DEF Press, Lift, vars, files
  <1> QED
    BY <1>1, <1>2, <1>3, <1>4, <1>5, SpoolAssumption DEF Next

LEMMA RecordsKept == Spec => []RecordsInv
  <1>1. Init => RecordsInv
    <2>1. Init => RecordsAreTrue /\ FilingTaken
      BY DEF Init, RecordsAreTrue, FilingTaken, Nowhere, Filing
    <2> QED
      BY <2>1, InitTyped DEF RecordsInv
  <1>2. RecordsInv /\ [Next]_vars => RecordsInv'
    <2> SUFFICES ASSUME RecordsInv, [Next]_vars PROVE RecordsInv'
      OBVIOUS
    <2> USE DEF RecordsInv
    <2>1. TypeOK'
      BY NextTyped
    <2>2. \A m \in Mails : accepted[m] \in Nat /\ accepted'[m] >= accepted[m]
      BY AcceptedGrows DEF TypeOK, OthersTyped
    <2>3. RecordsAreTrue'
      <3> SUFFICES ASSUME NEW m \in Mails, m \in ledger' \/ sent'[m] # "none"
                   PROVE  accepted'[m] > 0
        BY DEF RecordsAreTrue
      <3>1. accepted[m] > 0
        BY RecordStep DEF RecordsAreTrue, FilingTaken
      <3>2. accepted[m] \in Nat /\ accepted'[m] \in Nat /\ accepted'[m] >= accepted[m]
        BY <2>1, <2>2 DEF TypeOK, OthersTyped
      <3> QED
        BY <3>1, <3>2
    <2>4. FilingTaken'
      <3> SUFFICES ASSUME NEW v \in Workers, pc'[v] \in Filing
                   PROVE  accepted'[job'[v].mail] > 0
        BY DEF FilingTaken
      <3>1. job'[v] \in Jobs /\ job'[v].mail \in Mails
        BY <2>1, JobFields DEF TypeOK, DaemonsTyped, Filing, Idling
      <3>2. ASSUME pc[v] \in Filing, job'[v] = job[v]
            PROVE  accepted'[job'[v].mail] > 0
        BY <2>1, <2>2, <3>1, <3>2 DEF FilingTaken, TypeOK, OthersTyped
      <3>3. ASSUME FindsMarker(v)
            PROVE  accepted'[job'[v].mail] > 0
        BY <2>1, <2>2, <3>1, <3>3 DEF FindsMarker, RecordsAreTrue, TypeOK, OthersTyped
      <3>4. ASSUME SendAccepted(v)
            PROVE  accepted'[job'[v].mail] > 0
        BY <2>2, <3>1, <3>4 DEF SendAccepted, Accept, TypeOK, OthersTyped
      <3>5. ASSUME NEW w \in Workers,
                   Step(w) \/ SendLostReply(w) \/ Tear(w) \/ Crash(w) \/ Stop(w) \/ Housekeep(w)
            PROVE  accepted'[job'[v].mail] > 0
        BY <3>2, <3>3, <3>4, <3>5, DaemonStep DEF FilesOn
      <3> QED
        BY <3>2, <3>5, OutsideStep
    <2> QED
      BY <2>1, <2>3, <2>4
  <1> QED
    BY <1>1, <1>2, PTL DEF Spec

\* A marker in the ledger, or a record in sent/, always means that SMTP took the
\* mail: filing a stranded mail on the marker's word never loses it.
THEOREM RecordsTrue == Spec => []RecordsAreTrue
  <1>1. RecordsInv => RecordsAreTrue
    BY DEF RecordsInv
  <1> QED
    BY <1>1, RecordsKept, PTL
===============================================================================
