-------------------------- MODULE CorpusScanProofs --------------------------
(***************************************************************************)
(* Proofs about CorpusScan, for any number of targets, any corpora and any *)
(* number of runs: a published report is whole and earned.                 *)
(*                                                                         *)
(* Whole: while a run lasts, a target without a result has a child or is   *)
(* in the queue.  Earned: a child, a result and a checkpoint each carry    *)
(* the scan that they come from, the checkpoint with the context it was    *)
(* made under; a child never outlives its run, so the context of the run   *)
(* is that of the child.                                                   *)
(***************************************************************************)
EXTENDS CorpusScan, SequenceTheorems, FiniteSetTheorems, TLAPS

-----------------------------------------------------------------------------
(* The inductive invariant. *)

Checkpoints == [context : Contexts \cup {Nothing}, outcome : Outcomes]

CorpusTypeOK ==
    /\ corpus \in Corpora
    /\ file \in [Targets -> {"listed", "other"}]
    /\ saved \in [Targets -> Checkpoints \cup {Nothing}]
    /\ phase \in {"idle", "scanning", "done", "aborted", "killed"}
    /\ context \in Contexts \cup {Nothing}
    /\ queue \in Seq(Targets)
    /\ child \in [Targets -> Children \cup {Nothing}]
    /\ result \in [Targets -> Outcomes \cup {Nothing}]

Queued(t) == \E i \in DOMAIN queue : queue[i] = t

\* No target is forgotten, and no child is left over.
NobodyIsLost ==
    /\ phase = "scanning" =>
         \A t \in Targets : result[t] # Nothing \/ child[t] # Nothing \/ Queued(t)
    /\ phase = "done" => \A t \in Targets : result[t] # Nothing
    /\ phase # "scanning" => \A t \in Targets : child[t] = Nothing

\* What a complete outcome rests on: a complete scan of these bytes.
EarnedUnder(t, now, outcome) ==
    outcome.status = "complete" =>
        /\ <<t, now, outcome.read>> \in scanned
        /\ Listed => outcome.read = "listed" /\ t \notin corpus.wrong

CompleteIsScanned ==
    \A t \in Targets :
        /\ result[t] # Nothing => EarnedUnder(t, context, result[t])
        /\ saved[t] # Nothing => EarnedUnder(t, saved[t].context, saved[t].outcome)
        /\ child[t] # Nothing /\ child[t].end = "complete" =>
             <<t, context, child[t].read>> \in scanned

\* --jobs 1: the child that is waited for is the only one.
OneAtATime ==
    Parallel \/ \A t, u \in Targets : child[t] # Nothing /\ child[u] # Nothing => t = u

CorpusInv ==
    /\ CorpusTypeOK
    /\ NobodyIsLost
    /\ OneAtATime
    /\ CompleteIsScanned

-----------------------------------------------------------------------------
(* What the parent records. *)

LEMMA OutcomeTypes ==
    /\ Failed \in Outcomes /\ Failed.status = "error"
    /\ Started \in Children /\ Started.end = "none"
    /\ Nothing \notin Children /\ Nothing \notin Outcomes
  BY CorpusAssumption DEF Failed, Outcome, Outcomes, Started, Children, Reads

\* Results of the current run, of a set of targets.
LEMMA RecordKeeps ==
    ASSUME CorpusInv, NEW D \in SUBSET Targets, NEW new \in [D -> Outcomes],
           \A t \in D : EarnedUnder(t, context, new[t]), Record(new)
    PROVE  /\ result' \in [Targets -> Outcomes \cup {Nothing}]
           /\ saved' \in [Targets -> Checkpoints \cup {Nothing}]
           /\ \A t \in Targets : (t \in D \/ result[t] # Nothing) => result'[t] # Nothing
           /\ \A t \in Targets : result'[t] # Nothing => EarnedUnder(t, context, result'[t])
           /\ \A t \in Targets :
                saved'[t] # Nothing => EarnedUnder(t, saved'[t].context, saved'[t].outcome)
<1>1. /\ result' = [t \in Targets |-> IF t \in D THEN new[t] ELSE result[t]]
      /\ saved' = Kept(new)
      /\ DOMAIN new = D
  BY DEF Record
<1>2. \A t \in D : [context |-> context, outcome |-> new[t]] \in Checkpoints
  BY DEF CorpusInv, CorpusTypeOK, Checkpoints
<1>3. \/ saved' = saved
      \/ saved' = [t \in Targets |-> IF t \in D THEN [context |-> context, outcome |-> new[t]]
                                     ELSE saved[t]]
  BY <1>1 DEF Kept
<1>4. result' \in [Targets -> Outcomes \cup {Nothing}]
  BY <1>1 DEF CorpusInv, CorpusTypeOK
<1>5. saved' \in [Targets -> Checkpoints \cup {Nothing}]
  BY <1>2, <1>3 DEF CorpusInv, CorpusTypeOK
<1>6. \A t \in Targets : (t \in D \/ result[t] # Nothing) => result'[t] # Nothing
  BY <1>1, OutcomeTypes
<1>7. \A t \in Targets : result'[t] # Nothing => EarnedUnder(t, context, result'[t])
  BY <1>1 DEF CorpusInv, CompleteIsScanned
<1>8. ASSUME NEW t \in Targets, saved'[t] # Nothing
      PROVE  EarnedUnder(t, saved'[t].context, saved'[t].outcome)
  <2>1. CASE saved'[t] = saved[t]
    BY <1>8, <2>1 DEF CorpusInv, CompleteIsScanned
  <2>2. CASE t \in D /\ saved'[t] = [context |-> context, outcome |-> new[t]]
    BY <2>2
  <2> QED BY <1>3, <2>1, <2>2
<1> QED BY <1>4, <1>5, <1>6, <1>7, <1>8

\* _read_worker_report: a complete report is one the child has made.
LEMMA ResultIsEarned ==
    ASSUME CorpusInv, NEW t \in Targets, child[t] # Nothing
    PROVE  ResultOf(t) \in Outcomes /\ EarnedUnder(t, context, ResultOf(t))
<1> DEFINE ours == t \notin corpus.wrong /\ child[t].read = "listed"
<1>1. child[t] \in Children
  BY DEF CorpusInv, CorpusTypeOK
<1>2. CASE ResultOf(t) = Failed
  BY <1>2, OutcomeTypes DEF EarnedUnder
<1>3. CASE /\ child[t].end \in {"complete", "partial"}
           /\ Listed => ours
           /\ ResultOf(t) = Outcome(child[t].end, child[t].read)
  <2>1. ResultOf(t) \in Outcomes
    BY <1>1, <1>3 DEF Outcome, Outcomes, Children
  <2>2. ResultOf(t).status = child[t].end /\ ResultOf(t).read = child[t].read
    BY <1>3 DEF Outcome
  <2>3. child[t].end = "complete" => <<t, context, child[t].read>> \in scanned
    BY DEF CorpusInv, CompleteIsScanned
  <2> QED BY <1>3, <2>1, <2>2, <2>3 DEF EarnedUnder
<1> QED BY <1>2, <1>3 DEF ResultOf, Reported

\* A step of the parent within a run, which reads no file and makes no scan.
LEMMA ParentKeeps ==
    ASSUME CorpusInv, UNCHANGED <<corpus, file, context, scanned>>, phase = "scanning",
           phase' = "scanning",
           queue' \in Seq(Targets),
           result' \in [Targets -> Outcomes \cup {Nothing}],
           saved' \in [Targets -> Checkpoints \cup {Nothing}],
           child' \in [Targets -> Children \cup {Nothing}],
           \A t \in Targets : result'[t] # Nothing \/ child'[t] # Nothing \/ Queued(t)',
           \A t \in Targets : result'[t] # Nothing => EarnedUnder(t, context, result'[t]),
           \A t \in Targets :
             saved'[t] # Nothing => EarnedUnder(t, saved'[t].context, saved'[t].outcome),
           \A t \in Targets :
             child'[t] = child[t] \/ child'[t] = Nothing \/ child'[t] = Started,
           OneAtATime'
    PROVE  CorpusInv'
<1>1. CorpusTypeOK'
  BY DEF CorpusInv, CorpusTypeOK
<1>2. NobodyIsLost'
  BY DEF NobodyIsLost
<1>3. \A t \in Targets : \A now, o : EarnedUnder(t, now, o) => EarnedUnder(t, now, o)'
  BY DEF EarnedUnder, Listed
<1>4. CompleteIsScanned'
  BY <1>3, OutcomeTypes DEF CorpusInv, CompleteIsScanned
<1> QED BY <1>1, <1>2, <1>4 DEF CorpusInv

-----------------------------------------------------------------------------
(* The steps of the parent. *)

LEMMA InitIsSound == Init => CorpusInv
  BY DEF Init, CorpusInv, CorpusTypeOK, NobodyIsLost, OneAtATime, CompleteIsScanned

\* The queue without its i-th target.
LEMMA RemovedFromQueue ==
    ASSUME NEW q \in Seq(Targets), NEW i \in DOMAIN q
    PROVE  /\ RemoveAt(q, i) \in Seq(Targets)
           /\ \A j \in DOMAIN q :
                j = i \/ \E k \in DOMAIN RemoveAt(q, i) : RemoveAt(q, i)[k] = q[j]
<1> DEFINE front == SubSeq(q, 1, i - 1)
           back == SubSeq(q, i + 1, Len(q))
<1>1. i \in 1..Len(q) /\ Len(q) \in Nat /\ DOMAIN q = 1..Len(q)
  BY LenProperties
<1>2. /\ front \in Seq(Targets) /\ Len(front) = i - 1
      /\ \A k \in 1..(i - 1) : front[k] = q[k]
  BY <1>1, SubSeqProperties
<1>3. /\ back \in Seq(Targets) /\ Len(back) = Len(q) - i
      /\ \A k \in 1..(Len(q) - i) : back[k] = q[i + k]
  BY SMTT(30), <1>1, SubSeqProperties
<1>4. RemoveAt(q, i) = front \o back
  BY DEF RemoveAt
<1> HIDE DEF front, back
<1> DEFINE all == front \o back
<1>5. /\ all \in Seq(Targets) /\ DOMAIN all = 1..(Len(q) - 1)
      /\ \A k \in 1..(Len(q) - 1) : all[k] = IF k <= i - 1 THEN front[k] ELSE back[k - (i - 1)]
  <2>1. /\ all \in Seq(Targets) /\ Len(all) = Len(front) + Len(back)
        /\ \A k \in 1..(Len(front) + Len(back)) :
             all[k] = IF k <= Len(front) THEN front[k] ELSE back[k - Len(front)]
    BY <1>2, <1>3, ConcatProperties
  <2>2. Len(front) + Len(back) = Len(q) - 1 /\ Len(front) = i - 1
    BY <1>1, <1>2, <1>3
  <2>3. DOMAIN all = 1..Len(all)
    BY <2>1, LenProperties
  <2> HIDE DEF all
  <2> QED BY <2>1, <2>2, <2>3
<1> HIDE DEF all
<1>6. ASSUME NEW j \in DOMAIN q, j # i PROVE \E k \in DOMAIN all : all[k] = q[j]
  <2>1. CASE j < i
    <3>1. j \in DOMAIN all /\ all[j] = q[j]
      BY <1>1, <1>2, <1>5, <2>1
    <3> QED BY <3>1
  <2>2. CASE j > i
    <3>1. /\ j - 1 \in DOMAIN all /\ all[j - 1] = back[j - i]
          /\ back[j - i] = q[j]
      BY SMTT(30), <1>1, <1>3, <1>5, <2>2
    <3> QED BY <3>1
  <2> QED BY <1>1, <1>6, <2>1, <2>2
<1> QED BY <1>4, <1>5, <1>6 DEF all

\* Start, of a target that leaves the queue.
LEMMA StartKeeps ==
    ASSUME CorpusInv, phase = "scanning", NEW i \in DOMAIN queue, Start(queue[i]),
           UNCHANGED <<corpus, file, context, phase, scanned>>,
           queue' \in Seq(Targets),
           \A u \in Targets : Queued(u) => u = queue[i] \/ Queued(u)',
           Parallel \/ Running = {}
    PROVE  CorpusInv'
<1> DEFINE t == queue[i]
<1>1. t \in Targets
  BY ElementOfSeq, LenProperties DEF CorpusInv, CorpusTypeOK
<1> HIDE DEF t
<1>2. \A u \in Targets : result[u] # Nothing \/ child[u] # Nothing \/ u = t \/ Queued(u)'
  BY DEF CorpusInv, NobodyIsLost, t
<1>3. /\ \A u \in Targets : result[u] # Nothing => EarnedUnder(u, context, result[u])
      /\ \A u \in Targets :
           saved[u] # Nothing => EarnedUnder(u, saved[u].context, saved[u].outcome)
  BY DEF CorpusInv, CompleteIsScanned
<1>4. CASE Mismatched(t)
  <2> DEFINE new == [u \in {t} |-> Failed]
  <2>1. Record(new) /\ child' = child
    BY <1>4 DEF Start, t
  <2>2. new \in [{t} -> Outcomes] /\ \A u \in {t} : EarnedUnder(u, context, new[u])
    BY OutcomeTypes DEF EarnedUnder
  <2> HIDE DEF new
  <2>3. {t} \in SUBSET Targets /\ OneAtATime'
    BY <1>1, <2>1 DEF CorpusInv, OneAtATime, Parallel
  <2> QED BY <1>2, <2>1, <2>2, <2>3, RecordKeeps, ParentKeeps DEF CorpusInv, CorpusTypeOK
<1>5. CASE ~Mismatched(t)
  <2>1. child' = [child EXCEPT ![t] = Started] /\ result' = result /\ saved' = saved
    BY <1>5 DEF Start, t
  <2>2. /\ child' \in [Targets -> Children \cup {Nothing}]
        /\ \A u \in Targets : child'[u] = IF u = t THEN Started ELSE child[u]
    BY <1>1, <2>1, OutcomeTypes DEF CorpusInv, CorpusTypeOK
  <2>3. OneAtATime'
    BY <2>2 DEF OneAtATime, Parallel, Running
  <2> QED BY <1>2, <1>3, <2>1, <2>2, <2>3, OutcomeTypes, ParentKeeps DEF CorpusInv, CorpusTypeOK
<1> QED BY <1>4, <1>5

LEMMA PlaceKeeps ==
    ASSUME CorpusInv, Place PROVE CorpusInv'
<1> PICK i \in Fitting : Start(queue[i]) /\ queue' = RemoveAt(queue, i)
  BY DEF Place
<1>1. phase = "scanning" /\ Parallel /\ UNCHANGED <<corpus, file, context, phase, scanned>>
  BY DEF Place
<1>2. i \in DOMAIN queue /\ queue \in Seq(Targets)
  BY DEF Fitting, CorpusInv, CorpusTypeOK
<1>3. queue' \in Seq(Targets)
  BY <1>2, RemovedFromQueue
<1>4. ASSUME NEW u \in Targets, Queued(u) PROVE u = queue[i] \/ Queued(u)'
  BY <1>2, <1>4, RemovedFromQueue DEF Queued
<1> QED BY <1>1, <1>2, <1>3, <1>4, StartKeeps

LEMMA PlaceNextKeeps ==
    ASSUME CorpusInv, PlaceNext PROVE CorpusInv'
<1>1. /\ phase = "scanning" /\ UNCHANGED <<corpus, file, context, phase, scanned>>
      /\ Running = {}
      /\ queue # <<>> /\ Start(Head(queue)) /\ queue' = Tail(queue)
  BY DEF PlaceNext
<1>2. queue \in Seq(Targets)
  BY DEF CorpusInv, CorpusTypeOK
<1>3. /\ 1 \in DOMAIN queue /\ Head(queue) = queue[1]
      /\ queue' \in Seq(Targets)
      /\ DOMAIN queue = 1..Len(queue) /\ DOMAIN queue' = 1..(Len(queue) - 1)
      /\ \A k \in 1..(Len(queue) - 1) : queue'[k] = queue[k + 1]
      /\ Len(queue) \in Nat
  BY <1>1, <1>2, HeadTailProperties, LenProperties, EmptySeq
<1>4. ASSUME NEW u \in Targets, Queued(u) PROVE u = queue[1] \/ Queued(u)'
  <2> PICK j \in DOMAIN queue : queue[j] = u
    BY <1>4 DEF Queued
  <2>1. CASE j = 1
    BY <2>1
  <2>2. CASE j # 1
    <3>1. j - 1 \in DOMAIN queue' /\ queue'[j - 1] = queue[j]
      BY <1>3, <2>2
    <3> QED BY <3>1 DEF Queued
  <2> QED BY <2>1, <2>2
<1>5. Start(queue[1])
  BY <1>1, <1>3
<1> QED BY <1>1, <1>3, <1>4, <1>5, StartKeeps

\* Poll and Wait: the results of some children are recorded.
LEMMA ResultsKeep ==
    ASSUME CorpusInv, phase = "scanning", NEW D \in SUBSET Running,
           Record([t \in D |-> ResultOf(t)]),
           child' \in [Targets -> Children \cup {Nothing}],
           \A t \in Targets : child'[t] = Nothing \/ child'[t] = child[t],
           \A t \in Targets : t \in D \/ child[t] = Nothing \/ child'[t] # Nothing,
           UNCHANGED <<corpus, file, context, phase, queue, scanned>>
    PROVE  CorpusInv'
<1> DEFINE new == [t \in D |-> ResultOf(t)]
<1>1. D \in SUBSET Targets /\ \A t \in D : child[t] # Nothing
  BY DEF Running
<1>2. new \in [D -> Outcomes] /\ \A t \in D : EarnedUnder(t, context, new[t])
  BY <1>1, ResultIsEarned
<1>3. Record(new)
  OBVIOUS
<1> HIDE DEF new
<1>4. \A t \in Targets : Queued(t)' <=> Queued(t)
  BY DEF Queued
<1>5. \A t \in Targets : result'[t] # Nothing \/ child'[t] # Nothing \/ Queued(t)'
  BY <1>1, <1>2, <1>3, <1>4, RecordKeeps DEF CorpusInv, NobodyIsLost
<1>6. OneAtATime'
  BY DEF CorpusInv, OneAtATime, Parallel
<1> QED
  BY <1>1, <1>2, <1>3, <1>5, <1>6, RecordKeeps, ParentKeeps DEF CorpusInv, CorpusTypeOK

LEMMA PollKeeps ==
    ASSUME CorpusInv, Poll PROVE CorpusInv'
<1>1. /\ phase = "scanning"
      /\ Record([t \in Due |-> ResultOf(t)])
      /\ child' = [t \in Targets |-> IF t \in Due THEN Nothing ELSE child[t]]
      /\ UNCHANGED <<corpus, file, context, phase, queue, scanned>>
  BY DEF Poll, Polls
<1>2. Due \in SUBSET Running
  BY DEF Due
<1> HIDE DEF Due
<1>3. /\ child' \in [Targets -> Children \cup {Nothing}]
      /\ \A t \in Targets : child'[t] = IF t \in Due THEN Nothing ELSE child[t]
  BY <1>1 DEF CorpusInv, CorpusTypeOK
<1> QED BY <1>1, <1>2, <1>3, ResultsKeep

LEMMA WaitKeeps ==
    ASSUME CorpusInv, Wait PROVE CorpusInv'
<1>1. /\ phase = "scanning" /\ ~Parallel /\ Due # {}
      /\ Record([t \in Due |-> ResultOf(t)])
      /\ child' = [t \in Targets |-> Nothing]
      /\ UNCHANGED <<corpus, file, context, phase, queue, scanned>>
  BY DEF Wait
<1>2. Due \in SUBSET Running
  BY DEF Due
<1>3. \A t \in Running : t \in Due
  BY <1>1, <1>2 DEF CorpusInv, OneAtATime, Running
<1> HIDE DEF Due
<1>4. child' \in [Targets -> Children \cup {Nothing}] /\ \A t \in Targets : child'[t] = Nothing
  BY <1>1
<1>5. \A t \in Targets : t \in Due \/ child[t] = Nothing
  BY <1>3 DEF Running
<1> QED BY <1>1, <1>2, <1>4, <1>5, ResultsKeep

\* A run that ends without a report keeps its checkpoints.
LEMMA EndsKeeps ==
    ASSUME CorpusInv, NEW how \in {"aborted", "killed"}, Ends(how),
           UNCHANGED <<corpus, file, context, scanned>>,
           saved' \in [Targets -> Checkpoints \cup {Nothing}],
           \A t \in Targets :
             saved'[t] # Nothing => EarnedUnder(t, saved'[t].context, saved'[t].outcome)
    PROVE  CorpusInv'
<1>1. /\ phase' = how /\ queue' = <<>>
      /\ child' = [t \in Targets |-> Nothing] /\ result' = [t \in Targets |-> Nothing]
  BY DEF Ends
<1>2. CorpusTypeOK' /\ NobodyIsLost' /\ OneAtATime'
  BY <1>1 DEF CorpusInv, CorpusTypeOK, NobodyIsLost, OneAtATime
<1>3. \A t \in Targets : \A now, o : EarnedUnder(t, now, o) => EarnedUnder(t, now, o)'
  BY DEF EarnedUnder, Listed
<1>4. CompleteIsScanned'
  BY <1>1, <1>3 DEF CompleteIsScanned
<1> QED BY <1>2, <1>4 DEF CorpusInv

LEMMA PollRaisesKeeps ==
    ASSUME CorpusInv, PollRaises PROVE CorpusInv'
<1> PICK before \in SUBSET Due : saved' = Kept([u \in before |-> ResultOf(u)])
  BY DEF PollRaises
<1> DEFINE new == [u \in before |-> ResultOf(u)]
<1>1. Ends("aborted") /\ UNCHANGED <<corpus, file, context, scanned>>
  BY DEF PollRaises
<1>2. before \in SUBSET Targets /\ \A u \in before : child[u] # Nothing
  BY DEF Due, Running
<1>3. /\ DOMAIN new = before
      /\ \A u \in before : new[u] \in Outcomes /\ EarnedUnder(u, context, new[u])
  BY <1>2, ResultIsEarned
<1>4. saved' = Kept(new)
  OBVIOUS
<1> HIDE DEF new
<1>5. \/ saved' = saved
      \/ saved' = [t \in Targets |-> IF t \in before
                                     THEN [context |-> context, outcome |-> new[t]]
                                     ELSE saved[t]]
  BY <1>3, <1>4 DEF Kept
<1>6. \A t \in before : [context |-> context, outcome |-> new[t]] \in Checkpoints
  BY <1>3 DEF CorpusInv, CorpusTypeOK, Checkpoints
<1>7. saved' \in [Targets -> Checkpoints \cup {Nothing}]
  BY <1>5, <1>6 DEF CorpusInv, CorpusTypeOK
<1>8. ASSUME NEW t \in Targets, saved'[t] # Nothing
      PROVE  EarnedUnder(t, saved'[t].context, saved'[t].outcome)
  <2>1. CASE saved'[t] = saved[t]
    BY <1>8, <2>1 DEF CorpusInv, CompleteIsScanned
  <2>2. CASE t \in before /\ saved'[t] = [context |-> context, outcome |-> new[t]]
    BY <1>3, <2>2
  <2> QED BY <1>5, <2>1, <2>2
<1> QED BY <1>1, <1>7, <1>8, EndsKeeps

LEMMA KillKeeps ==
    ASSUME CorpusInv, Kill PROVE CorpusInv'
  BY EndsKeeps DEF Kill, CorpusInv, CorpusTypeOK, CompleteIsScanned

LEMMA PublishKeeps ==
    ASSUME CorpusInv, Publish PROVE CorpusInv'
<1>1. /\ phase = "scanning" /\ phase' = "done" /\ queue = <<>> /\ Running = {}
      /\ UNCHANGED <<corpus, file, saved, context, queue, child, result, scanned>>
  BY DEF Publish
<1>2. \A t \in Targets : child[t] = Nothing /\ ~Queued(t)
  BY <1>1 DEF Running, Queued
<1>3. NobodyIsLost'
  BY <1>1, <1>2 DEF CorpusInv, NobodyIsLost
<1> QED
  BY <1>1, <1>3 DEF CorpusInv, CorpusTypeOK, OneAtATime, Parallel, CompleteIsScanned,
                    EarnedUnder, Listed

\* A run begins: what it takes from checkpoints was earned under its context.
LEMMA BeginKeeps ==
    ASSUME CorpusInv, Begin PROVE CorpusInv'
<1> DEFINE pending == {t \in Targets : ~Resumes(t, context')}
<1>1. /\ phase # "scanning" /\ phase' = "scanning" /\ context' \in Contexts
      /\ queue' \in InOrder(pending)
      /\ result' = [t \in Targets |-> IF t \in pending THEN Nothing ELSE saved[t].outcome]
      /\ UNCHANGED <<corpus, file, saved, child, scanned>>
  BY DEF Begin
<1>2. \A t \in Targets : t \notin pending => Resumes(t, context')
  OBVIOUS
<1>3. pending \in SUBSET Targets
  OBVIOUS
<1> HIDE DEF pending
<1>4. \A t \in Targets : child[t] = Nothing
  BY <1>1 DEF CorpusInv, NobodyIsLost
<1>5. \A t \in Targets : t \notin pending =>
        /\ saved[t] # Nothing /\ saved[t] \in Checkpoints
        /\ saved[t].context = context'
        /\ EarnedUnder(t, context', saved[t].outcome)
  BY <1>2 DEF Resumes, CorpusInv, CorpusTypeOK, CompleteIsScanned
<1>6. result' \in [Targets -> Outcomes \cup {Nothing}]
  BY <1>1, <1>5 DEF Checkpoints
<1>7. queue' \in Seq(Targets) /\ \A t \in pending : Queued(t)'
  <2>1. Cardinality(pending) \in Nat
    <3>1. IsFiniteSet(1..Size)
      BY CorpusAssumption, FS_Interval
    <3> QED BY <1>3, <3>1, FS_Subset, FS_CardinalityType DEF Targets
  <2>2. queue' \in [1..Cardinality(pending) -> Targets]
    BY <1>1, <1>3 DEF InOrder
  <2>3. queue' \in Seq(Targets)
    BY <2>1, <2>2, SeqDef
  <2> QED BY <1>1, <2>3 DEF InOrder, Queued
<1>8. CorpusTypeOK'
  BY <1>1, <1>6, <1>7 DEF CorpusInv, CorpusTypeOK
<1>9. NobodyIsLost'
  BY <1>1, <1>5, <1>6, <1>7, OutcomeTypes DEF NobodyIsLost, Checkpoints
<1>10. CompleteIsScanned'
  <2> SUFFICES ASSUME NEW t \in Targets
               PROVE  /\ result'[t] # Nothing => EarnedUnder(t, context', result'[t])
                      /\ saved[t] # Nothing => EarnedUnder(t, saved[t].context, saved[t].outcome)
    BY <1>1, <1>4 DEF CompleteIsScanned, EarnedUnder, Listed
  <2> QED BY <1>1, <1>5 DEF CorpusInv, CompleteIsScanned
<1> QED BY <1>1, <1>4, <1>8, <1>9, <1>10 DEF CorpusInv, OneAtATime

-----------------------------------------------------------------------------
(* The steps of the children and of the host. *)

\* A child goes on: it may have made the scan that it reports.
LEMMA ChildKeeps ==
    ASSUME CorpusInv, NEW t \in Targets, t \in Running, NEW new \in Children,
           child' = [child EXCEPT ![t] = new],
           scanned \subseteq scanned',
           new.end = "complete" => <<t, context, new.read>> \in scanned',
           UNCHANGED <<corpus, file, saved, context, phase, queue, result>>
    PROVE  CorpusInv'
<1>1. /\ child' \in [Targets -> Children \cup {Nothing}]
      /\ \A u \in Targets : child'[u] = IF u = t THEN new ELSE child[u]
  BY DEF CorpusInv, CorpusTypeOK
<1>2. child[t] # Nothing /\ new # Nothing
  BY OutcomeTypes DEF Running
<1>3. CorpusTypeOK' /\ OneAtATime'
  BY <1>1, <1>2 DEF CorpusInv, CorpusTypeOK, OneAtATime, Parallel
<1>4. NobodyIsLost'
  BY <1>1, <1>2 DEF CorpusInv, NobodyIsLost, Queued
<1>5. CompleteIsScanned'
  BY <1>1 DEF CorpusInv, CompleteIsScanned, EarnedUnder, Listed
<1> QED BY <1>3, <1>4, <1>5 DEF CorpusInv

LEMMA ReadKeeps ==
    ASSUME CorpusInv, NEW t \in Targets, Read(t) PROVE CorpusInv'
<1> PICK c \in Children : c = child[t]
  BY DEF Read, Alive, Running, CorpusInv, CorpusTypeOK
<1> DEFINE bytes == file[t]
           new == [c EXCEPT !.read = bytes]
<1>1. /\ t \in Running /\ c.end = "none"
      /\ UNCHANGED <<corpus, file, scanned, saved, context, phase, queue, result>>
  BY DEF Read, Alive, parentVars
<1>2. child' = [child EXCEPT ![t] = new]
  BY Zenon DEF Read
<1>3. bytes \in Reads
  BY DEF CorpusInv, CorpusTypeOK, Reads
<1> HIDE DEF bytes
<1>4. new \in Children /\ new.end = c.end
  BY <1>3 DEF Children
<1> HIDE DEF new
<1> QED BY <1>1, <1>2, <1>4, ChildKeeps

LEMMA ExitKeeps ==
    ASSUME CorpusInv, NEW t \in Targets,
           NEW how \in {"complete", "partial", "failed", "silent"}, Exit(t, how)
    PROVE  CorpusInv'
<1> PICK c \in Children : c = child[t]
  BY DEF Exit, Alive, Running, CorpusInv, CorpusTypeOK
<1> DEFINE new == [c EXCEPT !.end = how]
<1>1. /\ t \in Running
      /\ scanned' = IF how = "complete" THEN scanned \cup {<<t, context, c.read>>} ELSE scanned
      /\ UNCHANGED <<corpus, file, saved, context, phase, queue, result>>
  BY DEF Exit, Alive, parentVars
<1>2. child' = [child EXCEPT ![t] = new]
  BY Zenon DEF Exit
<1>3. new \in Children /\ new.end = how /\ new.read = c.read
  BY DEF Children
<1> HIDE DEF new
<1> QED BY <1>1, <1>2, <1>3, ChildKeeps

LEMMA DeadlineKeeps ==
    ASSUME CorpusInv, NEW t \in Targets, Deadline(t) PROVE CorpusInv'
<1> PICK c \in Children : c = child[t]
  BY DEF Deadline, Running, CorpusInv, CorpusTypeOK
<1> DEFINE new == [c EXCEPT !.late = TRUE]
<1>1. /\ t \in Running /\ c.end = "none"
      /\ UNCHANGED <<corpus, file, scanned, saved, context, phase, queue, result>>
  BY DEF Deadline, Ended, parentVars
<1>2. child' = [child EXCEPT ![t] = new]
  BY Zenon DEF Deadline
<1>3. new \in Children /\ new.end = c.end
  BY DEF Children
<1> HIDE DEF new
<1> QED BY <1>1, <1>2, <1>3, ChildKeeps

LEMMA HangKeeps ==
    ASSUME CorpusInv, NEW t \in Targets, Hang(t) PROVE CorpusInv'
<1> PICK c \in Children : c = child[t]
  BY DEF Hang, Alive, Running, CorpusInv, CorpusTypeOK
<1> DEFINE new == [c EXCEPT !.stuck = TRUE]
<1>1. /\ t \in Running /\ c.end = "none"
      /\ UNCHANGED <<corpus, file, scanned, saved, context, phase, queue, result>>
  BY DEF Hang, Alive, parentVars
<1>2. child' = [child EXCEPT ![t] = new]
  BY Zenon DEF Hang
<1>3. new \in Children /\ new.end = c.end
  BY DEF Children
<1> HIDE DEF new
<1> QED BY <1>1, <1>2, <1>3, ChildKeeps

\* What was read is not changed by what is there now.
LEMMA ReplaceKeeps ==
    ASSUME CorpusInv, NEW t \in Targets, Replace(t) PROVE CorpusInv'
<1>1. UNCHANGED <<corpus, child, scanned, saved, context, phase, queue, result>>
  BY DEF Replace, parentVars
<1>2. file' \in [Targets -> {"listed", "other"}]
  BY DEF Replace, CorpusInv, CorpusTypeOK
<1> QED
  BY <1>1, <1>2
     DEF CorpusInv, CorpusTypeOK, NobodyIsLost, Queued, OneAtATime, Parallel,
         CompleteIsScanned, EarnedUnder, Listed

LEMMA NextKeeps == CorpusInv /\ [Next]_vars => CorpusInv'
<1> SUFFICES ASSUME CorpusInv, [Next]_vars PROVE CorpusInv'
  OBVIOUS
<1>1. CASE ParentStep
  BY <1>1, BeginKeeps, PlaceKeeps, PlaceNextKeeps, PollKeeps, PollRaisesKeeps, WaitKeeps,
     PublishKeeps
     DEF ParentStep
<1>2. CASE ChildStep
  BY <1>2, ReadKeeps, DeadlineKeeps, ExitKeeps DEF ChildStep
<1>3. CASE HostStep
  BY <1>3, KillKeeps, ReplaceKeeps, HangKeeps DEF HostStep
<1>4. CASE UNCHANGED vars
  BY <1>4
     DEF vars, CorpusInv, CorpusTypeOK, NobodyIsLost, Queued, OneAtATime, Parallel,
         CompleteIsScanned, EarnedUnder, Listed
<1> QED BY <1>1, <1>2, <1>3, <1>4 DEF Next

-----------------------------------------------------------------------------
(* The theorem. *)

\* scan_corpus.py: a published report has a result for every target, and each
\* complete one comes from a complete scan under the context of the run, of the
\* bytes and the identity that the manifest lists, whatever earlier runs left.
THEOREM PublishedIsEarned == Spec => []CompleteIsEarned
<1>1. CorpusInv => CompleteIsEarned
  BY DEF CorpusInv, NobodyIsLost, CompleteIsScanned, EarnedUnder, CompleteIsEarned
<1>2. Spec => []CorpusInv
  BY InitIsSound, NextKeeps, PTL DEF Spec
<1> QED BY <1>1, <1>2, PTL
=============================================================================
