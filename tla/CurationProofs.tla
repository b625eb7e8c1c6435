---------------------------- MODULE CurationProofs ----------------------------
(***************************************************************************)
(* Proofs about CurationGeneration and CurationPublication for any number  *)
(* of runs, work items, commits, advances of main and pushes under way.    *)
(*                                                                         *)
(* CurationSafe is not inductive: between the writes of one command it     *)
(* rests on what the command read before, and after a crash on what the    *)
(* generation document and the sync still say of the commits they name.    *)
(* GenerationKept, WorkKept and TaskKept say that.  The publication rests  *)
(* on this invariant of the generation that is published, and adds what    *)
(* ties the journal, the pushes that outlive their command, the            *)
(* continuation and the pull request to it.                                *)
(***************************************************************************)
EXTENDS CurationPublication, JournalStoreProofs

-----------------------------------------------------------------------------
(* The generation.                                                         *)

\* h is the prepared head of the sync that made it
IsPrepared(h) == h \in Curated /\ made[h].prepared = h

Over == Closed \cup {"absent"}

\* Every commit the maintainer made for a sync was made from the head that sync
\* was made from, and what was validated had been reviewed.
CommitsKept ==
    /\ \A h \in Curated : made[h].prepared # NoHead =>
           /\ IsPrepared(made[h].prepared)
           /\ made[h].selected \in Head
           /\ made[made[h].prepared].selected = made[h].selected
    /\ passed \subseteq reviewed
    /\ \A h \in reviewed : h \in Curated /\ made[h].prepared # NoHead

\* The generation document names commits of one lineage only, and its verdicts
\* are in the history.
GenerationKept ==
    /\ gen.stage = "absent" => gen = Absent
    /\ gen.stage # "absent" => IsPrepared(gen.prepared)
    /\ gen.stage \in Authoritative => gen.head \in Lineage
    /\ gen.stage \in {"reviewed", "fully-validated"} => gen.head \in reviewed
    /\ gen.open # NoOpen =>
           /\ gen.stage \in Open \ {"fully-validated"}
           /\ gen.open.head \in Lineage
           /\ gen.open.kind \in {"discovery", "delta", "reviewed"}

\* The sync was built on the head the work record selected, and is where its
\* reviewed head comes from; a work record that still waits for its sync under
\* an open generation has selected the head of that generation.
WorkKept ==
    LET w == work[Pr]
    IN  /\ synced # NoHead => IsPrepared(synced) /\ made[synced].selected = w.selected
        /\ w.reviewed # NoHead => /\ synced # NoHead
                                  /\ w.reviewed \in Curated \cap reviewed
                                  /\ made[w.reviewed].prepared = synced
        /\ w.validated # NoHead => w.validated \in passed
        /\ w.phase = "selected" /\ gen.stage \in Open => w.selected = selected

\* What a command that goes on at this step relies on.
Relies(t) ==
    /\ t.step = "begin" => t.head \in Head /\ gen.stage \in Over
    /\ t.step = "sync" => t.head = work[Pr].selected /\ gen.stage \in Over
    /\ t.step = "start" => synced # NoHead /\ gen.stage \in Over
    /\ t.step = "supersede" => synced # NoHead /\ gen.stage \in Open
    /\ t.step \in {"retry", "resume"} => /\ gen.stage \in Open
                                         /\ t.head = work[Pr].selected
                                         /\ work[Pr].selected = selected
    /\ t.step = "review" => /\ gen.stage \in {"reviewed", "fully-validated"}
                            /\ synced = gen.prepared
    /\ t.step = "checkpoint" => synced = gen.prepared
    /\ t.step = "validated" => work[Pr].reviewed \in passed

\* Only the lease owner is in the middle of a command.
TaskKept == /\ \A r \in Run : task[r].step # "idle" => r = owner
            /\ \A r \in Run : Relies(task[r])

GenerationInv == CurationTypeOK /\ CommitsKept /\ GenerationKept /\ WorkKept /\ TaskKept


-----------------------------------------------------------------------------
(* Lemmas about the steps commands share.                                  *)

\* The stages are those of the document, not "none"; the two sides differ.
LEMMA StagesApart == Open \cap Over = {} /\ Authoritative \subseteq Open
  BY DEF Open, Over, Closed, Authoritative

\* The empty store, no generation, no sync and no command satisfy everything.
LEMMA GenerationInitInv == CurationInit => GenerationInv
<1> SUFFICES ASSUME CurationInit PROVE GenerationInv
  OBVIOUS
<1>1. StoreTypeOK
  BY StoreInitInv DEF CurationInit, StoreInv
<1>2. work[Pr] = NoWork /\ mutex = NoRun
  BY GenerationAssumption DEF CurationInit, StoreInit
<1>3. CurationTypeOK
  BY <1>1, GenerationAssumption
  DEF CurationInit, GenerationInit, CurationTypeOK, Absent, NoOpen, Unmade, Idle, Step,
      Discovery, Kind, MaybeHead, Base, NoBase
<1>4. CommitsKept /\ GenerationKept /\ WorkKept
  BY <1>2 DEF CurationInit, GenerationInit, CommitsKept, GenerationKept, WorkKept, Absent,
              Unmade, NoOpen,
              NoWork, Open, Authoritative
<1>5. TaskKept
  BY <1>2 DEF CurationInit, GenerationInit, TaskKept, Relies, Idle
<1> QED BY <1>3, <1>4, <1>5 DEF GenerationInv

\* A step of the owner's command leaves every other run without a command.
LEMMA OwnerMoves ==
  ASSUME CurationTypeOK, TaskKept, NEW r \in Run, owner = r, owner' = owner,
         NEW t \in [step : Step, head : MaybeHead],
         task' = [task EXCEPT ![r] = t], Relies(t)'
  PROVE  TaskKept' /\ task' \in [Run -> [step : Step, head : MaybeHead]]
<1>1. task \in [Run -> [step : Step, head : MaybeHead]]
  BY DEF CurationTypeOK
<1>2. \A q \in Run : task'[q] = IF q = r THEN t ELSE task[q]
  BY <1>1
<1>3. \A q \in Run \ {r} : task'[q].step = "idle"
  BY <1>2 DEF TaskKept
<1>4. \A q \in Run : Relies(task[q])'
  BY <1>2, <1>3 DEF Relies
<1> QED BY <1>1, <1>3, <1>4 DEF TaskKept

\* The record a command leaves when it goes on to another step.
LEMMA Goes ==
  ASSUME CurationTypeOK, NEW r \in Run, NEW step \in Step, Goto(r, step)
  PROVE  \E t \in [step : Step, head : MaybeHead] :
             /\ t.step = step /\ t.head = task[r].head
             /\ task' = [task EXCEPT ![r] = t]
<1> DEFINE t == [task[r] EXCEPT !.step = step]
<1>1. task[r] \in [step : Step, head : MaybeHead]
  BY DEF CurationTypeOK
<1>2. t \in [step : Step, head : MaybeHead] /\ t.step = step /\ t.head = task[r].head
  BY <1>1
<1>3. task' = [task EXCEPT ![r] = t]
  BY DEF Goto
<1> HIDE DEF t
<1> QED BY <1>2, <1>3

\* The record a command leaves when it ends relies on nothing.
LEMMA EndsIdle ==
  ASSUME NEW r \in Run, Done(r)
  PROVE  \E t \in [step : Step, head : MaybeHead] :
             /\ t.step = "idle"
             /\ task' = [task EXCEPT ![r] = t]
<1>1. Idle \in [step : Step, head : MaybeHead] /\ Idle.step = "idle"
  BY DEF Idle, Step, MaybeHead
<1> QED BY <1>1 DEF Done

\* What a run that selects the work item leaves in its record.
LEMMA Begins ==
  ASSUME StoreTypeOK, NEW r \in Run, NEW h \in Head, BeginWork(r, Pr, h)
  PROVE  /\ StoreTypeOK'
         /\ work'[Pr].phase = "selected" /\ work'[Pr].selected = h
         /\ work'[Pr].reviewed = NoHead /\ work'[Pr].validated = NoHead
         /\ UNCHANGED <<owner, mutex>>
<1>1. WorkOp(r, Pr)
  BY DEF WorkOp
<1>2. StoreTypeOK'
  BY <1>1, WorkOpType, GenerationAssumption
<1> DEFINE s == [NoWork EXCEPT !.phase = "selected", !.run = r, !.selected = h]
<1>3. work'[Pr] = s
  BY GenerationAssumption DEF StoreTypeOK, BeginWork
<1>4. /\ s.phase = "selected" /\ s.selected = h
      /\ s.reviewed = NoHead /\ s.validated = NoHead
  BY DEF NoWork
<1> HIDE DEF s
<1> QED BY <1>2, <1>3, <1>4 DEF BeginWork, leaseVars

\* What a run that advances its work record leaves in it.
LEMMA Saves ==
  ASSUME StoreTypeOK, NEW r \in Run, NEW h \in MaybeHead, NEW k \in MaybeHead,
         SaveWork(r, Pr, h, k)
  PROVE  /\ StoreTypeOK'
         /\ work'[Pr].selected = work[Pr].selected
         /\ work'[Pr].reviewed = h /\ work'[Pr].validated = k
         /\ work'[Pr].phase # "selected"
         /\ UNCHANGED <<owner, mutex>>
<1>1. WorkOp(r, Pr)
  BY DEF WorkOp
<1>2. StoreTypeOK'
  BY <1>1, WorkOpType, GenerationAssumption
<1> DEFINE s == [work[Pr] EXCEPT !.phase = NextWork(@), !.reviewed = h, !.validated = k]
<1>3. work' = [work EXCEPT ![Pr] = s]
  BY DEF SaveWork
<1>4. work'[Pr] = s
  BY <1>3, GenerationAssumption DEF StoreTypeOK
<1>5. work[Pr] \in WorkState
  BY GenerationAssumption DEF StoreTypeOK
<1>6. /\ s.phase = NextWork(work[Pr].phase) /\ s.selected = work[Pr].selected
      /\ s.reviewed = h /\ s.validated = k
  BY <1>5 DEF WorkState
<1>7. \A p \in WorkPhase : NextWork(p) # "selected"
  BY DEF NextWork, WorkPhase
<1>8. s.phase # "selected"
  BY <1>5, <1>6, <1>7 DEF WorkState
<1> HIDE DEF s
<1> QED BY <1>2, <1>4, <1>6, <1>8 DEF SaveWork, leaseVars

-----------------------------------------------------------------------------
(* Frames: what keeps the parts of the invariant.                          *)

\* Commits the maintainer has made are never made again.
MadeGrows == \A h \in Curated : made[h] # Unmade => made'[h] = made[h]

\* The type of the generation document.
Document == [stage : Open \cup Closed \cup {"absent"}, discovery : Discovery,
             head : MaybeHead, prepared : MaybeHead,
             open : [kind : Kind, head : MaybeHead, discovery : Discovery]]

\* A commit that belongs to a sync exists, and stays what it is.
LEMMA PreparedStays ==
  ASSUME MadeGrows, NEW h \in Curated, made[h].prepared # NoHead
  PROVE  made'[h] = made[h]
  BY DEF MadeGrows, Unmade

\* Making a fresh commit makes no other one again.
LEMMA FreshGrows ==
  ASSUME CurationTypeOK, NEW k \in Curated, Fresh(k),
         NEW m \in [selected : MaybeHead, base : Base \cup {NoBase}, prepared : MaybeHead],
         made' = [made EXCEPT ![k] = m]
  PROVE  /\ MadeGrows
         /\ made'[k] = m
         /\ made' \in [Curated -> [selected : MaybeHead, base : Base \cup {NoBase},
                                   prepared : MaybeHead]]
  BY DEF CurationTypeOK, Fresh, MadeGrows

\* An unchanged made grows.
LEMMA SameGrows == made' = made => MadeGrows
  BY DEF MadeGrows

\* A step that makes no commit and judges none keeps what is known of them.
LEMMA CommitsStand == CommitsKept /\ UNCHANGED <<made, history>> => CommitsKept'
  BY DEF CommitsKept, IsPrepared, history

\* A fresh commit for a sync, its own or an earlier one, keeps it too.
LEMMA CommitsGrow ==
  ASSUME CurationTypeOK, CommitsKept, NEW k \in Curated, Fresh(k),
         NEW m \in [selected : MaybeHead, base : Base \cup {NoBase}, prepared : MaybeHead],
         m.selected \in Head,
         \/ m.prepared = k
         \/ IsPrepared(m.prepared) /\ made[m.prepared].selected = m.selected,
         made' = [made EXCEPT ![k] = m], UNCHANGED history
  PROVE  CommitsKept'
<1>1. MadeGrows /\ made'[k] = m /\ \A h \in Curated \ {k} : made'[h] = made[h]
  BY FreshGrows DEF CurationTypeOK
<1>2. made[k].prepared = NoHead /\ \A h \in Curated : h # NoHead
  BY StoreAssumption DEF Fresh, Unmade, Curated
<1>3. ASSUME NEW h \in Curated, IsPrepared(h) PROVE h # k /\ IsPrepared(h)'
  BY <1>1, <1>2, <1>3 DEF IsPrepared
<1>4. ASSUME NEW h \in Curated, made'[h].prepared # NoHead
      PROVE  /\ IsPrepared(made[h].prepared)'
             /\ made'[h].selected \in Head
             /\ made'[made'[h].prepared].selected = made'[h].selected
  <2>1. CASE h = k
    BY <1>1, <1>2, <1>3, <2>1 DEF IsPrepared
  <2>2. CASE h # k
    <3>1. made'[h] = made[h] /\ IsPrepared(made[h].prepared)
      BY <1>1, <1>4, <2>2 DEF CommitsKept
    <3>2. made[h].prepared # k
      BY <1>3, <3>1 DEF IsPrepared
    <3> QED BY <1>1, <1>4, <3>1, <3>2 DEF CommitsKept, IsPrepared
  <2> QED BY <2>1, <2>2
<1>5. \A h \in reviewed : made'[h] = made[h]
  BY <1>1 DEF CommitsKept, MadeGrows, Unmade
<1> QED BY <1>4, <1>5 DEF CommitsKept, history

\* A step that leaves the document alone keeps what it says.
LEMMA GenerationStands ==
  ASSUME CurationTypeOK, GenerationKept, MadeGrows, reviewed \subseteq reviewed', gen' = gen
  PROVE  GenerationKept'
<1>1. \A h \in Curated : made[h].prepared # NoHead => made'[h] = made[h]
  BY PreparedStays
<1>2. \A h \in Curated : h # NoHead
  BY StoreAssumption DEF Curated
<1>3. gen.stage # "absent" => gen.prepared \in Curated /\ IsPrepared(gen.prepared)'
  BY <1>1, <1>2 DEF GenerationKept, IsPrepared
<1>4. gen.stage # "absent" => Lineage \subseteq Lineage'
  BY <1>1, <1>2, <1>3 DEF Lineage, GenerationKept, IsPrepared
<1>5. gen.stage \in Open => gen.stage # "absent"
  BY DEF Open
<1> QED BY <1>3, <1>4, <1>5 DEF GenerationKept, Open, Authoritative, IsPrepared

\* Closing an open generation leaves its commits and drops its transaction.
LEMMA GenerationCloses ==
  ASSUME CurationTypeOK, GenerationKept, gen.stage \in Open, NEW kind \in Closed,
         Close(kind), made' = made, reviewed' = reviewed
  PROVE  /\ GenerationKept'
         /\ gen' \in Document
         /\ gen'.stage = kind /\ gen'.stage \in Over /\ gen'.stage \notin Open
<1>1. gen \in Document
  BY DEF CurationTypeOK, Document
<1>2. /\ gen'.stage = kind /\ gen'.prepared = gen.prepared /\ gen'.open = NoOpen
      /\ gen'.head = gen.head /\ gen'.discovery = gen.discovery
  BY <1>1 DEF Close, Document
<1>3. NoOpen \in [kind : Kind, head : MaybeHead, discovery : Discovery]
  BY DEF NoOpen, Kind, MaybeHead, Discovery
<1>4. gen' \in Document
  BY <1>1, <1>3 DEF Close, Document
<1>5. IsPrepared(gen.prepared)
  BY DEF GenerationKept, Open
<1> QED BY <1>2, <1>4, <1>5 DEF GenerationKept, IsPrepared, Open, Closed, Over, Authoritative

\* A step that leaves record and sync alone, and does not open or replace a
\* generation, keeps what they say of each other.
LEMMA WorkStands ==
  ASSUME CurationTypeOK, GenerationKept, WorkKept, MadeGrows, work'[Pr] = work[Pr],
         synced' = synced, reviewed \subseteq reviewed', passed \subseteq passed',
         gen'.stage \in Open => gen.stage \in Open /\ gen'.prepared = gen.prepared
  PROVE  WorkKept'
<1>1. \A h \in Curated : made[h].prepared # NoHead => made'[h] = made[h]
  BY PreparedStays
<1>2. \A h \in Curated : h # NoHead
  BY StoreAssumption DEF Curated
<1>3. synced # NoHead => made'[synced] = made[synced]
  BY <1>1, <1>2 DEF WorkKept, IsPrepared
<1>4. work[Pr].reviewed # NoHead => made'[work[Pr].reviewed] = made[work[Pr].reviewed]
  BY <1>1, <1>2 DEF WorkKept, IsPrepared
<1>5. gen'.stage \in Open => selected' = selected
  <2>1. gen.stage \in Open => IsPrepared(gen.prepared)
    BY DEF GenerationKept, Open
  <2> QED BY <1>1, <1>2, <2>1 DEF IsPrepared, selected
<1> QED BY <1>3, <1>4, <1>5 DEF WorkKept, IsPrepared

\* A step outside the store keeps its types.
LEMMA StoreStands ==
  StoreTypeOK /\ UNCHANGED storeVars =>
      StoreTypeOK' /\ UNCHANGED <<owner, mutex, work>>
  BY DEF StoreTypeOK, storeVars, ciVars, intentVars

\* The facts every step of a command starts from.
LEMMA StepFacts ==
  ASSUME GenerationInv, NEW r \in Run
  PROVE  /\ StoreTypeOK
         /\ gen \in Document
         /\ made \in [Curated -> [selected : MaybeHead, base : Base \cup {NoBase},
                                  prepared : MaybeHead]]
         /\ task[r] \in [step : Step, head : MaybeHead]
         /\ Relies(task[r])
         /\ gen.stage \in Open => IsPrepared(gen.prepared)
         /\ NoHead \notin Head /\ Curated \subseteq Head
  BY StoreAssumption
  DEF GenerationInv, CurationTypeOK, Document, TaskKept, GenerationKept, Open, Curated

-----------------------------------------------------------------------------
(* prepare curation.                                                       *)

\* Closing an open generation keeps the invariant, if what the command goes on
\* to rely on is there: PrepareClose, PrepareMissing, PrepareRetryStale and
\* PrepareSupersede.
LEMMA CloseStep ==
  ASSUME GenerationInv, NEW r \in Run, owner = r, gen.stage \in Open,
         NEW kind \in Closed, Close(kind),
         NEW t \in [step : Step, head : MaybeHead], task' = [task EXCEPT ![r] = t],
         t.step \in {"idle", "begin", "sync", "start"},
         t.step = "begin" => t.head \in Head,
         t.step = "sync" => t.head = work[Pr].selected,
         t.step = "start" => synced # NoHead,
         picking' \in Base \cup {NoBase},
         UNCHANGED <<storeVars, gitVars, made, synced, history>>
  PROVE  GenerationInv'
<1> USE StepFacts
<1>1. StoreTypeOK' /\ UNCHANGED <<owner, mutex, work>>
  BY StoreStands
<1>2. GenerationKept' /\ gen' \in Document /\ gen'.stage \in Over /\ gen'.stage \notin Open
  BY GenerationCloses DEF GenerationInv, history
<1>3. WorkKept'
  BY <1>1, <1>2, WorkStands, SameGrows DEF GenerationInv, history
<1>4. Relies(t)'
  BY <1>1, <1>2 DEF Relies
<1>5. TaskKept' /\ task' \in [Run -> [step : Step, head : MaybeHead]]
  BY <1>1, <1>4, OwnerMoves DEF GenerationInv
<1>6. CurationTypeOK'
  BY <1>1, <1>2, <1>5 DEF GenerationInv, CurationTypeOK, history, gitVars, Document
<1>7. CommitsKept'
  BY CommitsStand DEF GenerationInv
<1> QED BY <1>7, <1>2, <1>3, <1>5, <1>6 DEF GenerationInv

\* Selecting the work item for a new generation keeps the invariant.
LEMMA BeginStep ==
  ASSUME GenerationInv, NEW r \in Run, PrepareBegin(r)
  PROVE  GenerationInv'
<1> USE StepFacts
<1> DEFINE h == IF task[r].step = "begin" THEN task[r].head ELSE prHead
<1>1. h \in Head /\ gen.stage \in Over /\ owner = r
  BY DEF PrepareBegin, At, CanPrepare, Relies, GenerationInv, CurationTypeOK, Over
<1>2. PICK t \in [step : Step, head : MaybeHead] :
          /\ t.step = "sync" /\ t.head = h
          /\ task' = [task EXCEPT ![r] = t]
  BY <1>1 DEF PrepareBegin, Step, MaybeHead
<1>3. /\ BeginWork(r, Pr, h) /\ synced' = NoHead
      /\ UNCHANGED <<gitVars, gen, made, picking, history>>
  BY DEF PrepareBegin
<1> HIDE DEF h
<1>4. /\ StoreTypeOK' /\ UNCHANGED <<owner, mutex>>
      /\ work'[Pr].phase = "selected" /\ work'[Pr].selected = h
      /\ work'[Pr].reviewed = NoHead /\ work'[Pr].validated = NoHead
  BY <1>1, <1>3, Begins
<1>5. GenerationKept'
  BY <1>3, GenerationStands, SameGrows DEF GenerationInv, history
<1>6. WorkKept'
  BY <1>1, <1>3, <1>4, StagesApart DEF WorkKept
<1>7. Relies(t)'
  BY <1>1, <1>2, <1>3, <1>4 DEF Relies
<1>8. TaskKept' /\ task' \in [Run -> [step : Step, head : MaybeHead]]
  BY <1>1, <1>2, <1>3, <1>4, <1>7, OwnerMoves DEF GenerationInv
<1>9. CurationTypeOK'
  BY <1>3, <1>4, <1>8 DEF GenerationInv, CurationTypeOK, history, gitVars, MaybeHead
<1>10. CommitsKept'
  BY <1>3, CommitsStand DEF GenerationInv
<1> QED BY <1>10, <1>5, <1>6, <1>8, <1>9 DEF GenerationInv

\* Recording the sync of the selected head keeps the invariant: by
\* prepare_guarded_sync, or by the replay of a checkpoint.
LEMMA SyncStep ==
  ASSUME GenerationInv, NEW r \in Run, owner = r, mutex = NoRun,
         SaveWork(r, Pr, NoHead, NoHead),
         NEW k \in Curated, Fresh(k), NEW h \in Head, h = work[Pr].selected,
         made' = [made EXCEPT ![k] = [selected |-> h, base |-> main, prepared |-> k]],
         synced' = k,
         NEW step \in {"start", "supersede"}, Goto(r, step),
         step = "start" => gen.stage \in Over,
         step = "supersede" => gen.stage \in Open,
         picking' \in Base \cup {NoBase},
         UNCHANGED <<gitVars, gen, history>>
  PROVE  GenerationInv'
<1> USE StepFacts
<1> DEFINE m == [selected |-> h, base |-> main, prepared |-> k]
<1>1. m \in [selected : MaybeHead, base : Base \cup {NoBase}, prepared : MaybeHead]
  BY DEF GenerationInv, CurationTypeOK, MaybeHead
<1>2. PICK t \in [step : Step, head : MaybeHead] :
          /\ t.step = step
          /\ task' = [task EXCEPT ![r] = t]
  BY Goes DEF GenerationInv, Step
<1>3. m.prepared = k /\ m.selected = h
  OBVIOUS
<1> HIDE DEF m
<1>4. /\ MadeGrows /\ made'[k] = m
      /\ made' \in [Curated -> [selected : MaybeHead, base : Base \cup {NoBase},
                                prepared : MaybeHead]]
  BY <1>1, FreshGrows DEF GenerationInv, m
<1>5. /\ StoreTypeOK' /\ UNCHANGED <<owner, mutex>>
      /\ work'[Pr].phase # "selected" /\ work'[Pr].selected = h
      /\ work'[Pr].reviewed = NoHead /\ work'[Pr].validated = NoHead
  BY Saves DEF MaybeHead
<1>6. GenerationKept'
  BY <1>4, GenerationStands DEF GenerationInv, history
<1>7. WorkKept'
  BY <1>3, <1>4, <1>5 DEF WorkKept, IsPrepared
<1>8. Relies(t)'
  BY <1>2 DEF Relies
<1>9. TaskKept' /\ task' \in [Run -> [step : Step, head : MaybeHead]]
  BY <1>2, <1>5, <1>8, OwnerMoves DEF GenerationInv
<1>10. CurationTypeOK'
  BY <1>4, <1>5, <1>9 DEF GenerationInv, CurationTypeOK, history, gitVars, MaybeHead
<1>11. CommitsKept'
  BY <1>1, <1>3, CommitsGrow DEF GenerationInv, m
<1> QED BY <1>11, <1>6, <1>7, <1>9, <1>10 DEF GenerationInv

\* Restoring a checkpoint, or the head of an open transaction, keeps the
\* invariant: PrepareRetry and PrepareRestore.
LEMMA RestoreStep ==
  ASSUME GenerationInv, NEW r \in Run, owner = r,
         SaveWork(r, Pr, NoHead, NoHead), gen.stage \in Open,
         work[Pr].selected = selected, synced' = gen.prepared,
         NEW t \in [step : Step, head : MaybeHead], task' = [task EXCEPT ![r] = t],
         \/ t.step = "idle"
         \/ t.step = "review" /\ gen.stage \in {"reviewed", "fully-validated"},
         picking' = NoBase, UNCHANGED <<gitVars, gen, made, history>>
  PROVE  GenerationInv'
<1> USE StepFacts
<1>1. /\ StoreTypeOK' /\ UNCHANGED <<owner, mutex>>
      /\ work'[Pr].phase # "selected" /\ work'[Pr].selected = selected
      /\ work'[Pr].reviewed = NoHead /\ work'[Pr].validated = NoHead
  BY Saves DEF MaybeHead
<1>2. GenerationKept'
  BY GenerationStands, SameGrows DEF GenerationInv, history
<1>3. WorkKept'
  BY <1>1 DEF WorkKept, IsPrepared, selected
<1>4. Relies(t)'
  BY DEF Relies
<1>5. TaskKept' /\ task' \in [Run -> [step : Step, head : MaybeHead]]
  BY <1>1, <1>4, OwnerMoves DEF GenerationInv
<1>6. CurationTypeOK'
  BY <1>1, <1>5 DEF GenerationInv, CurationTypeOK, history, gitVars, Document
<1>7. CommitsKept'
  BY CommitsStand DEF GenerationInv
<1> QED BY <1>7, <1>2, <1>3, <1>5, <1>6 DEF GenerationInv

\* Recording a review or a validation keeps the invariant.
LEMMA RecordStep ==
  ASSUME GenerationInv, NEW r \in Run, RecordReview(r) \/ RecordValidation(r)
  PROVE  GenerationInv'
<1> USE StepFacts
<1>1. PICK t \in [step : Step, head : MaybeHead] :
          /\ t.step = "idle"
          /\ task' = [task EXCEPT ![r] = t]
  BY EndsIdle DEF RecordReview, RecordValidation
<1>2. owner = r /\ UNCHANGED <<gitVars, gen, made, synced, picking, history>>
  BY DEF RecordReview, RecordValidation, At
<1>3. work[Pr] \in WorkState
  BY GenerationAssumption DEF StoreTypeOK
<1>4. PICK h \in MaybeHead, k \in MaybeHead :
          /\ SaveWork(r, Pr, h, k)
          /\ \/ k = NoHead /\ h = gen.head /\ task[r].step = "review"
             \/ k = h /\ h = work[Pr].reviewed /\ task[r].step = "validated"
  BY <1>3 DEF RecordReview, RecordValidation, At, Document, WorkState, MaybeHead
<1>5. /\ StoreTypeOK' /\ UNCHANGED <<owner, mutex>>
      /\ work'[Pr].phase # "selected" /\ work'[Pr].selected = work[Pr].selected
      /\ work'[Pr].reviewed = h /\ work'[Pr].validated = k
  BY <1>4, Saves
<1>6. GenerationKept'
  BY <1>2, GenerationStands, SameGrows DEF GenerationInv, history
<1>7. WorkKept'
  <2>1. CASE task[r].step = "review"
    <3>1. /\ gen.stage \in {"reviewed", "fully-validated"} /\ synced = gen.prepared
          /\ gen.head \in Lineage /\ gen.head \in reviewed /\ IsPrepared(gen.prepared)
      BY <2>1 DEF Relies, GenerationInv, GenerationKept, Authoritative, Open
    <3> QED BY <1>2, <1>4, <1>5, <2>1, <3>1
            DEF GenerationInv, WorkKept, IsPrepared, Lineage, history
  <2>2. CASE task[r].step = "validated"
    <3>1. work[Pr].reviewed \in passed
      BY <2>2 DEF Relies
    <3> QED BY <1>2, <1>4, <1>5, <2>2, <3>1 DEF GenerationInv, WorkKept, IsPrepared, history
  <2> QED BY <1>4, <2>1, <2>2
<1>8. Relies(t)'
  BY <1>1 DEF Relies
<1>9. TaskKept' /\ task' \in [Run -> [step : Step, head : MaybeHead]]
  BY <1>1, <1>2, <1>5, <1>8, OwnerMoves DEF GenerationInv
<1>10. CurationTypeOK'
  BY <1>2, <1>5, <1>9 DEF GenerationInv, CurationTypeOK, history, gitVars, Document
<1>11. CommitsKept'
  BY <1>2, CommitsStand DEF GenerationInv
<1> QED BY <1>11, <1>6, <1>7, <1>9, <1>10 DEF GenerationInv

\* A command that stops, or only leaves or clears a conflict in the worktree,
\* keeps the invariant.
LEMMA WorktreeStep ==
  ASSUME GenerationInv, NEW r \in Run, owner = r,
         Done(r) \/ task' = task, picking' \in Base \cup {NoBase},
         UNCHANGED <<storeVars, gitVars, gen, made, synced, history>>
  PROVE  GenerationInv'
<1> USE StepFacts
<1>1. StoreTypeOK' /\ UNCHANGED <<owner, mutex, work>>
  BY StoreStands
<1>2. GenerationKept'
  BY GenerationStands, SameGrows DEF GenerationInv, history
<1>3. WorkKept'
  BY <1>1, WorkStands, SameGrows DEF GenerationInv, history
<1>4. PICK t \in [step : Step, head : MaybeHead] :
          /\ t.step = "idle" \/ t = task[r]
          /\ task' = [task EXCEPT ![r] = t]
  <2>1. task = [task EXCEPT ![r] = task[r]]
    BY DEF GenerationInv, CurationTypeOK
  <2> QED BY <2>1, EndsIdle
<1>5. Relies(t)'
  BY <1>1, <1>4 DEF Relies, selected, history
<1>6. TaskKept' /\ task' \in [Run -> [step : Step, head : MaybeHead]]
  BY <1>1, <1>4, <1>5, OwnerMoves DEF GenerationInv
<1>7. CurationTypeOK'
  BY <1>1, <1>6 DEF GenerationInv, CurationTypeOK, history, gitVars, Document
<1>8. CommitsKept'
  BY CommitsStand DEF GenerationInv
<1> QED BY <1>8, <1>2, <1>3, <1>6, <1>7 DEF GenerationInv

\* Starting the generation of a fresh sync keeps the invariant.
LEMMA StartStep ==
  ASSUME GenerationInv, NEW r \in Run, StartGeneration(r)
  PROVE  GenerationInv'
<1> USE StepFacts
<1>1. PICK t \in [step : Step, head : MaybeHead] :
          /\ t.step = "idle"
          /\ task' = [task EXCEPT ![r] = t]
  BY EndsIdle DEF StartGeneration
<1>2. /\ owner = r /\ synced # NoHead /\ IsPrepared(synced)
      /\ made[synced].selected = work[Pr].selected
      /\ UNCHANGED <<storeVars, gitVars, made, synced, picking, history>>
  BY DEF StartGeneration, At, Relies, GenerationInv, WorkKept
<1>3. StoreTypeOK' /\ UNCHANGED <<owner, mutex, work>>
  BY <1>2, StoreStands
<1>4. /\ gen'.stage = "prepared" /\ gen'.head = synced /\ gen'.prepared = synced
      /\ gen'.open = NoOpen /\ gen' \in Document
  <2>1. gen' = [Absent EXCEPT !.stage = "prepared", !.head = synced, !.prepared = synced]
    BY DEF StartGeneration
  <2>2. Absent \in Document /\ Absent.open = NoOpen
    BY DEF Absent, NoOpen, Document, Kind, Discovery, MaybeHead
  <2>3. synced \in MaybeHead /\ "prepared" \in Open
    BY DEF GenerationInv, CurationTypeOK, Open
  <2> QED BY <2>1, <2>2, <2>3 DEF Document
<1>5. GenerationKept'
  BY <1>2, <1>4 DEF GenerationKept, IsPrepared, Authoritative, Open
<1>6. WorkKept'
  BY <1>2, <1>3, <1>4 DEF GenerationInv, WorkKept, IsPrepared, selected, history
<1>7. Relies(t)'
  BY <1>1 DEF Relies
<1>8. TaskKept' /\ task' \in [Run -> [step : Step, head : MaybeHead]]
  BY <1>1, <1>2, <1>3, <1>7, OwnerMoves DEF GenerationInv
<1>9. CurationTypeOK'
  BY <1>2, <1>3, <1>4, <1>8 DEF GenerationInv, CurationTypeOK, history, gitVars, Document
<1>10. CommitsKept'
  BY <1>2, CommitsStand DEF GenerationInv, history
<1> QED BY <1>10, <1>5, <1>6, <1>8, <1>9 DEF GenerationInv

\* Selecting the work item again, to resume its generation, keeps the invariant.
LEMMA ResumeStep ==
  ASSUME GenerationInv, NEW r \in Run, PrepareResume(r)
  PROVE  GenerationInv'
<1> USE StepFacts
<1>1. PICK t \in [step : Step, head : MaybeHead] :
          /\ t.step \in {"retry", "resume"} /\ t.head = prHead
          /\ task' = [task EXCEPT ![r] = t]
  <2>1. PICK step \in {"retry", "resume"} :
            task' = [task EXCEPT ![r] = [step |-> step, head |-> prHead]]
    BY DEF PrepareResume
  <2>2. [step |-> step, head |-> prHead] \in [step : Step, head : MaybeHead]
    BY DEF GenerationInv, CurationTypeOK, Step, MaybeHead
  <2> QED BY <2>1, <2>2
<1>2. /\ owner = r /\ prHead \in Head /\ prHead = selected /\ gen.stage \in Open
      /\ BeginWork(r, Pr, prHead) /\ synced' = NoHead
      /\ UNCHANGED <<gitVars, gen, made, picking, history>>
  BY DEF PrepareResume, CanResume, CanPrepare, At, GenerationInv, CurationTypeOK
<1>3. /\ StoreTypeOK' /\ UNCHANGED <<owner, mutex>>
      /\ work'[Pr].phase = "selected" /\ work'[Pr].selected = prHead
      /\ work'[Pr].reviewed = NoHead /\ work'[Pr].validated = NoHead
  BY <1>2, Begins
<1>4. selected' = selected
  BY <1>2 DEF selected
<1>5. GenerationKept'
  BY <1>2, GenerationStands, SameGrows DEF GenerationInv, history
<1>6. WorkKept'
  BY <1>2, <1>3, <1>4 DEF WorkKept
<1>7. Relies(t)'
  BY <1>1, <1>2, <1>3, <1>4 DEF Relies
<1>8. TaskKept' /\ task' \in [Run -> [step : Step, head : MaybeHead]]
  BY <1>1, <1>2, <1>3, <1>7, OwnerMoves DEF GenerationInv
<1>9. CurationTypeOK'
  BY <1>2, <1>3, <1>8 DEF GenerationInv, CurationTypeOK, history, gitVars, MaybeHead, Document
<1>10. CommitsKept'
  BY <1>2, CommitsStand DEF GenerationInv, history
<1> QED BY <1>10, <1>5, <1>6, <1>8, <1>9 DEF GenerationInv

\* Every step of prepare curation keeps the invariant.
LEMMA PrepareInv ==
  ASSUME GenerationInv, NEW r \in Run, Prepare(r)
  PROVE  GenerationInv'
<1> USE StepFacts
<1>0. /\ task[r].step \in {"retry", "resume"} =>
             /\ gen.stage \in Open /\ task[r].head = work[Pr].selected
             /\ work[Pr].selected = selected
      /\ task[r].step = "supersede" => synced # NoHead /\ gen.stage \in Open
      /\ NoBase \in Base \cup {NoBase} /\ main \in Base
      /\ CurationTypeOK
  BY DEF Relies, GenerationInv, CurationTypeOK
<1>1. CASE PrepareClose(r)
  <2>1. PICK t \in [step : Step, head : MaybeHead] :
            /\ t.step = "begin" /\ t.head \in Head
            /\ task' = [task EXCEPT ![r] = t]
    BY <1>1 DEF PrepareClose, GenerationInv, CurationTypeOK, Step, MaybeHead
  <2>2. PICK kind \in Closed : Close(kind)
    BY <1>1 DEF PrepareClose, Closed
  <2>3. /\ owner = r /\ gen.stage \in Open /\ picking' \in Base \cup {NoBase}
        /\ UNCHANGED <<storeVars, gitVars, made, synced, history>>
    BY <1>1 DEF PrepareClose, CanPrepare, At, GenerationInv, CurationTypeOK
  <2> QED BY <2>1, <2>2, <2>3, CloseStep
<1>2. CASE PrepareBegin(r)
  BY <1>2, BeginStep
<1>3. CASE PrepareSync(r)
  <2>1. PICK k \in Curated :
            /\ Fresh(k) /\ synced' = k
            /\ made' = [made EXCEPT ![k] = [selected |-> remote, base |-> main,
                                            prepared |-> k]]
    BY <1>3 DEF PrepareSync
  <2>2. /\ owner = r /\ mutex = NoRun /\ SaveWork(r, Pr, NoHead, NoHead)
        /\ Goto(r, "start") /\ gen.stage \in Over /\ picking' \in Base \cup {NoBase}
        /\ remote \in Head /\ remote = work[Pr].selected
        /\ UNCHANGED <<gitVars, gen, history>>
    BY <1>3 DEF PrepareSync, At, Relies, GenerationInv, CurationTypeOK, MaybeHead
  <2> QED BY <2>1, <2>2, SyncStep
<1>4. CASE StartGeneration(r)
  BY <1>4, StartStep
<1>5. CASE PrepareResume(r)
  BY <1>5, ResumeStep
<1>6. CASE PrepareRetry(r)
  <2>1. PICK t \in [step : Step, head : MaybeHead] :
            /\ t.step = "idle"
            /\ task' = [task EXCEPT ![r] = t]
    BY <1>6, EndsIdle DEF PrepareRetry
  <2> QED BY <1>0, <1>6, <2>1, RestoreStep DEF PrepareRetry, At
<1>7. CASE PrepareRetryStale(r)
  <2>1. PICK t \in [step : Step, head : MaybeHead] :
            /\ t.step = "idle"
            /\ task' = [task EXCEPT ![r] = t]
    BY <1>7, EndsIdle DEF PrepareRetryStale
  <2> QED BY <1>0, <1>7, <2>1, CloseStep DEF PrepareRetryStale, At, Closed
<1>8. CASE PrepareMissing(r)
  <2>1. PICK t \in [step : Step, head : MaybeHead] :
            /\ t.step = "sync" /\ t.head = task[r].head
            /\ task' = [task EXCEPT ![r] = t]
    BY <1>0, <1>8, Goes DEF PrepareMissing, Step
  <2> QED BY <1>0, <1>8, <2>1, CloseStep DEF PrepareMissing, At, Closed
<1>9. CASE PrepareRestore(r)
  <2>1. PICK t \in [step : Step, head : MaybeHead] :
            /\ \/ t.step = "idle"
               \/ t.step = "review" /\ gen.stage \in {"reviewed", "fully-validated"}
            /\ task' = [task EXCEPT ![r] = t]
    BY <1>0, <1>9, EndsIdle, Goes DEF PrepareRestore, Step
  <2> QED BY <1>0, <1>9, <2>1, RestoreStep DEF PrepareRestore, At
<1>10. CASE PrepareReplay(r)
  <2>1. PICK k \in Curated :
            /\ Fresh(k) /\ synced' = k
            /\ made' = [made EXCEPT ![k] = [selected |-> selected, base |-> main,
                                            prepared |-> k]]
    BY <1>10 DEF PrepareReplay
  <2>2. selected = work[Pr].selected /\ gen.stage \in Open /\ owner = r /\ mutex = NoRun
    <3>1. CASE At(r, "resume")
      BY <1>0, <3>1 DEF At
    <3>2. CASE CanContinueConflict(r)
      BY <3>2 DEF CanContinueConflict, CanPrepare, At, Checkpointed, GenerationInv, WorkKept
    <3> QED BY <1>10, <3>1, <3>2 DEF PrepareReplay
  <2>3. /\ SaveWork(r, Pr, NoHead, NoHead) /\ Goto(r, "supersede")
        /\ picking' \in Base \cup {NoBase} /\ UNCHANGED <<gitVars, gen, history>>
    BY <1>10 DEF PrepareReplay
  <2>4. selected \in Head
    BY <2>2 DEF selected, IsPrepared, GenerationInv, CommitsKept, Curated
  <2> QED BY <2>1, <2>2, <2>3, <2>4, SyncStep, StagesApart
<1>11. CASE PrepareConflict(r)
  BY <1>0, <1>11, WorktreeStep DEF PrepareConflict, At
<1>12. CASE PrepareAbort(r)
  BY <1>0, <1>12, WorktreeStep DEF PrepareAbort, CanContinueConflict, CanPrepare, At
<1>13. CASE PrepareSupersede(r)
  <2>1. PICK t \in [step : Step, head : MaybeHead] :
            /\ t.step = "start"
            /\ task' = [task EXCEPT ![r] = t]
    BY <1>0, <1>13, Goes DEF PrepareSupersede, Step
  <2>2. picking' \in Base \cup {NoBase}
    BY <1>0, <1>13 DEF PrepareSupersede, CurationTypeOK
  <2> QED BY <1>0, <1>13, <2>1, <2>2, CloseStep DEF PrepareSupersede, At, Closed
<1>14. CASE RecordReview(r)
  BY <1>14, RecordStep
<1> QED BY <1>1, <1>2, <1>3, <1>4, <1>5, <1>6, <1>7, <1>8, <1>9, <1>10, <1>11, <1>12,
          <1>13, <1>14 DEF Prepare

-----------------------------------------------------------------------------
(* checkpoint curation and validate curation.                              *)

\* Opening a checkpoint transaction keeps the invariant: its head belongs to the
\* generation, or is a fresh commit that the command made on top of it.
LEMMA CheckpointStartStep ==
  ASSUME GenerationInv, NEW r \in Run, CheckpointStart(r)
  PROVE  GenerationInv'
<1> USE StepFacts
<1> DEFINE p == gen.prepared
           m == [made[p] EXCEPT !.prepared = p]
           Commit == [selected : MaybeHead, base : Base \cup {NoBase}, prepared : MaybeHead]
<1>1. PICK t \in [step : Step, head : MaybeHead] :
          /\ t.step = "checkpoint"
          /\ task' = [task EXCEPT ![r] = t]
  BY Goes DEF CheckpointStart, GenerationInv, Step
<1>2. /\ owner = r /\ gen.stage \in Open \ {"fully-validated"} /\ synced = p
      /\ UNCHANGED <<storeVars, gitVars, synced, picking, history>>
  BY DEF CheckpointStart, At, CanCheckpoint
<1>3. PICK c \in Checkpoints, h \in Curated :
          /\ h \in Lineage \/ Fresh(h)
          /\ gen' = [gen EXCEPT !.open = [kind |-> c.kind, head |-> h,
                                          discovery |-> c.discovery]]
          /\ made' = [made EXCEPT ![h] = IF Fresh(h) THEN m ELSE @]
  BY DEF CheckpointStart
<1>4. IsPrepared(p) /\ p \in MaybeHead
  BY <1>2 DEF Document
<1>5. /\ MadeGrows /\ made' \in [Curated -> Commit] /\ made'[h].prepared = p
      /\ CommitsKept'
  <2>1. CASE Fresh(h)
    <3>1. m \in Commit /\ m.prepared = p /\ m.selected = made[p].selected
      BY <1>4 DEF IsPrepared
    <3>4. made[p].selected \in Head
      BY <1>4 DEF IsPrepared, GenerationInv, CommitsKept, Curated
    <3>2. made' = [made EXCEPT ![h] = m]
      BY <1>3, <2>1
    <3> HIDE DEF m
    <3>3. \A q \in Curated : q # h => made'[q] = made[q]
      BY <3>2
    <3>5. CommitsKept'
      BY <1>2, <1>4, <2>1, <3>1, <3>2, <3>4, CommitsGrow DEF GenerationInv
    <3> QED BY <2>1, <3>1, <3>2, <3>3, <3>5 DEF Fresh, MadeGrows
  <2>2. CASE ~Fresh(h)
    <3>1. made' = made
      BY <1>3, <2>2
    <3>2. CommitsKept'
      BY <1>2, <3>1, CommitsStand DEF GenerationInv
    <3> QED BY <1>3, <2>2, <3>1, <3>2 DEF MadeGrows, Lineage
  <2> QED BY <2>1, <2>2
<1>6. c.kind \in {"discovery", "delta", "reviewed"} /\ c.discovery \in Discovery
  BY GenerationAssumption DEF Discovery
<1> HIDE DEF m
<1>7. /\ gen' \in Document /\ gen'.stage = gen.stage /\ gen'.head = gen.head
      /\ gen'.prepared = p /\ gen'.open.head = h /\ gen'.open.kind = c.kind
  <2> DEFINE o == [kind |-> c.kind, head |-> h, discovery |-> c.discovery]
  <2>1. o \in [kind : Kind, head : MaybeHead, discovery : Discovery]
    BY <1>6 DEF Kind, MaybeHead
  <2>2. o.head = h /\ o.kind = c.kind
    OBVIOUS
  <2>3. gen' = [gen EXCEPT !.open = o]
    BY <1>3
  <2> HIDE DEF o
  <2> QED BY <2>1, <2>2, <2>3 DEF Document
<1>8. \A q \in Curated : made[q].prepared # NoHead => made'[q] = made[q]
  BY <1>5, PreparedStays
<1>9. IsPrepared(p)' /\ Lineage \subseteq Lineage' /\ h \in Lineage'
  <2>1. p # NoHead
    BY <1>4 DEF IsPrepared
  <2> QED BY <1>4, <1>5, <1>7, <1>8, <2>1 DEF IsPrepared, Lineage
<1>10. GenerationKept'
  <2>1. gen.stage # "absent" /\ gen.stage # "fully-validated"
    BY <1>2 DEF Open
  <2>2. gen.stage \in Authoritative => gen.head \in Lineage
    BY DEF GenerationInv, GenerationKept
  <2>3. gen.stage = "reviewed" => gen.head \in reviewed'
    BY <1>2 DEF GenerationInv, GenerationKept, history
  <2> HIDE DEF p
  <2> QED BY <1>2, <1>6, <1>7, <1>9, <2>1, <2>2, <2>3 DEF GenerationKept, p
<1>11. StoreTypeOK' /\ UNCHANGED <<owner, mutex, work>>
  BY <1>2, StoreStands
<1>12. WorkKept'
  BY <1>2, <1>5, <1>7, <1>11, WorkStands DEF GenerationInv, history
<1>13. Relies(t)'
  BY <1>1, <1>2, <1>7 DEF Relies
<1>14. TaskKept' /\ task' \in [Run -> [step : Step, head : MaybeHead]]
  BY <1>1, <1>2, <1>11, <1>13, OwnerMoves DEF GenerationInv
<1>15. CurationTypeOK'
  BY <1>2, <1>5, <1>7, <1>11, <1>14
  DEF GenerationInv, CurationTypeOK, history, gitVars, Document
<1> QED BY <1>5, <1>10, <1>12, <1>14, <1>15 DEF GenerationInv

\* Completing a checkpoint transaction keeps the invariant.
LEMMA CheckpointCompleteStep ==
  ASSUME GenerationInv, NEW r \in Run, CheckpointComplete(r)
  PROVE  GenerationInv'
<1> USE StepFacts
<1> DEFINE o == gen.open
<1>1. /\ owner = r /\ o # NoOpen /\ synced = gen.prepared
      /\ UNCHANGED <<storeVars, gitVars, made, synced, picking, passed>>
  BY DEF CheckpointComplete, At, CanCheckpoint, Relies
<1>2. /\ gen.stage \in Open /\ o.head \in Lineage /\ o.head \in MaybeHead
      /\ o.kind \in {"discovery", "delta", "reviewed"} /\ IsPrepared(gen.prepared)
      /\ o.discovery \in Discovery
  BY <1>1 DEF GenerationInv, GenerationKept, Document
<1>3. PICK d \in Discovery :
          gen' = [gen EXCEPT !.stage = o.kind, !.head = o.head, !.open = NoOpen,
                             !.discovery = d]
  BY <1>2 DEF CheckpointComplete, Document
<1>4. /\ gen' \in Document /\ gen'.stage = o.kind /\ gen'.head = o.head
      /\ gen'.prepared = gen.prepared /\ gen'.open = NoOpen
  <2>1. NoOpen \in [kind : Kind, head : MaybeHead, discovery : Discovery]
    BY DEF NoOpen, Kind, MaybeHead, Discovery
  <2>2. o.kind \in Open
    BY <1>2 DEF Open
  <2> QED BY <1>2, <1>3, <2>1, <2>2 DEF Document
<1>5. PICK t \in [step : Step, head : MaybeHead] :
          /\ task' = [task EXCEPT ![r] = t]
          /\ \/ t.step = "idle"
             \/ t.step = "review" /\ o.kind = "reviewed"
  BY Goes, EndsIdle DEF CheckpointComplete, GenerationInv, Step
<1>6. /\ reviewed' \subseteq Head /\ reviewed \subseteq reviewed'
      /\ reviewed' \in {reviewed, reviewed \cup {o.head}}
      /\ o.kind = "reviewed" => o.head \in reviewed'
  BY <1>2 DEF CheckpointComplete, GenerationInv, CurationTypeOK, Lineage
<1> HIDE DEF o
<1>7. StoreTypeOK' /\ UNCHANGED <<owner, mutex, work>>
  BY <1>1, StoreStands
<1>8. IsPrepared(gen.prepared)' /\ Lineage' = Lineage
  BY <1>1, <1>2, <1>4 DEF IsPrepared, Lineage
<1>9. GenerationKept'
  BY <1>2, <1>4, <1>6, <1>8 DEF GenerationKept, Authoritative, Open
<1>10. WorkKept'
  BY <1>1, <1>2, <1>4, <1>6, <1>7, WorkStands, SameGrows DEF GenerationInv
<1>11. Relies(t)'
  BY <1>1, <1>4, <1>5 DEF Relies
<1>12. TaskKept' /\ task' \in [Run -> [step : Step, head : MaybeHead]]
  BY <1>1, <1>5, <1>7, <1>11, OwnerMoves DEF GenerationInv
<1>13. CurationTypeOK'
  BY <1>1, <1>4, <1>6, <1>7, <1>12 DEF GenerationInv, CurationTypeOK, gitVars, Document
<1>14. CommitsKept'
  <2>1. o.head \in Curated /\ made[o.head].prepared # NoHead
    BY <1>2, StoreAssumption DEF Lineage, IsPrepared, Curated
  <2> QED BY <1>1, <1>6, <2>1 DEF GenerationInv, CommitsKept, IsPrepared
<1> QED BY <1>14, <1>9, <1>10, <1>12, <1>13 DEF GenerationInv

\* Either verdict on a reviewed checkpoint keeps the invariant.
LEMMA ValidateStep ==
  ASSUME GenerationInv, NEW r \in Run, Validate(r)
  PROVE  GenerationInv'
<1> USE StepFacts
<1>1. /\ owner = r /\ gen.stage = "reviewed" /\ gen.open = NoOpen
      /\ work[Pr].reviewed = gen.head
      /\ UNCHANGED <<storeVars, gitVars, made, synced, picking, reviewed>>
  BY DEF Validate, At
<1>2. /\ IsPrepared(gen.prepared) /\ gen.head \in Lineage /\ gen.head \in reviewed
      /\ gen.head \in Head
  BY <1>1 DEF GenerationInv, GenerationKept, Authoritative, Open, Lineage
<1>3. PICK stage \in {"fully-validated", "validation-failed"},
           t \in [step : Step, head : MaybeHead] :
          /\ gen' = [gen EXCEPT !.stage = stage]
          /\ task' = [task EXCEPT ![r] = t]
          /\ \/ /\ stage = "fully-validated" /\ t.step = "validated"
                /\ passed' = passed \cup {gen.head}
             \/ passed' = passed /\ t.step = "idle"
  BY Goes, EndsIdle DEF Validate, GenerationInv, Step
<1>4. /\ gen' \in Document /\ gen'.stage = stage /\ gen'.head = gen.head
      /\ gen'.prepared = gen.prepared /\ gen'.open = NoOpen
  BY <1>1, <1>3 DEF Document, Open
<1>5. passed \subseteq passed' /\ passed' \subseteq Head
  BY <1>2, <1>3 DEF GenerationInv, CurationTypeOK
<1>6. StoreTypeOK' /\ UNCHANGED <<owner, mutex, work>>
  BY <1>1, StoreStands
<1>7. IsPrepared(gen.prepared)' /\ Lineage' = Lineage
  BY <1>1, <1>2, <1>4 DEF IsPrepared, Lineage
<1>8. GenerationKept'
  BY <1>1, <1>2, <1>4, <1>7 DEF GenerationKept
<1>9. WorkKept'
  BY <1>1, <1>4, <1>5, <1>6, WorkStands, SameGrows DEF GenerationInv, Open
<1>10. Relies(t)'
  BY <1>1, <1>3, <1>6 DEF Relies
<1>11. TaskKept' /\ task' \in [Run -> [step : Step, head : MaybeHead]]
  BY <1>1, <1>3, <1>6, <1>10, OwnerMoves DEF GenerationInv
<1>12. CurationTypeOK'
  BY <1>1, <1>4, <1>5, <1>6, <1>11 DEF GenerationInv, CurationTypeOK, gitVars, Document
<1>13. CommitsKept'
  BY <1>1, <1>2, <1>3 DEF GenerationInv, CommitsKept, IsPrepared
<1> QED BY <1>13, <1>8, <1>9, <1>11, <1>12 DEF GenerationInv

-----------------------------------------------------------------------------
(* The environment and the lease.                                          *)

\* A step that leaves records, documents, commits and commands alone, and at
\* most hands over a lease that no command is using, keeps the invariant.
LEMMA OutsideStep ==
  ASSUME GenerationInv, StoreTypeOK', work' = work,
         main' \in Base, remote' \in Head, prHead' \in Head,
         UNCHANGED <<gen, made, synced, picking, history>>,
         task' \in [Run -> [step : Step, head : MaybeHead]],
         \A q \in Run : \/ task'[q].step = "idle"
                        \/ task'[q] = task[q] /\ owner' = owner
  PROVE  GenerationInv'
<1>1. GenerationKept'
  BY GenerationStands, SameGrows DEF GenerationInv, history
<1>2. WorkKept'
  BY WorkStands, SameGrows DEF GenerationInv, history
<1>3. \A q \in Run : Relies(task[q])'
  BY DEF GenerationInv, TaskKept, Relies, selected, history
<1>4. TaskKept'
  BY <1>3 DEF GenerationInv, TaskKept
<1>5. CurationTypeOK'
  BY DEF GenerationInv, CurationTypeOK, history
<1>6. CommitsKept'
  BY CommitsStand DEF GenerationInv
<1> QED BY <1>6, <1>1, <1>2, <1>4, <1>5 DEF GenerationInv

\* The author, the API, main and the lease keep the invariant.
LEMMA EnvironmentInv ==
  ASSUME GenerationInv, Environment \/ Acquire \/ Lose
  PROVE  GenerationInv'
<1>1. /\ main \in Base /\ remote \in Head /\ prHead \in Head /\ StoreTypeOK
      /\ task \in [Run -> [step : Step, head : MaybeHead]]
      /\ \A q \in Run : task[q].step # "idle" => q = owner
  BY DEF GenerationInv, CurationTypeOK, TaskKept
<1>2. CASE Environment
  <2>1. main' \in Base /\ remote' \in Head /\ prHead' \in Head
    BY <1>1, <1>2, GenerationAssumption
    DEF Environment, AuthorPush, PrSync, MainAdvance, Base
  <2>2. UNCHANGED <<storeVars, gen, made, synced, picking, task, history>>
    BY <1>2 DEF Environment, AuthorPush, PrSync, MainAdvance, genVars, history
  <2> QED BY <1>1, <2>1, <2>2, StoreStands, OutsideStep
<1>3. CASE Acquire
  <2>1. owner = NoRun /\ UNCHANGED <<mutex, work, gitVars, genVars>>
    BY <1>3 DEF Acquire, AcquireLease
  <2>2. StoreTypeOK'
    BY <1>1, <1>3, StoreNextType DEF Acquire, StoreNext
  <2>3. \A q \in Run : task'[q].step = "idle"
    BY <1>1, <2>1, StoreAssumption DEF genVars
  <2> QED BY <1>1, <2>1, <2>2, <2>3, OutsideStep DEF genVars, gitVars, history
<1>4. CASE Lose
  <2>1. /\ owner \in Run /\ UNCHANGED <<mutex, work, gitVars>>
        /\ task' = [task EXCEPT ![owner] = Idle]
        /\ UNCHANGED <<gen, made, synced, picking, history>>
    BY <1>1, <1>4 DEF Lose, LoseLease, Done, StoreTypeOK, MaybeRun
  <2>2. StoreTypeOK'
    BY <1>1, <1>4, StoreNextType DEF Lose, StoreNext
  <2>3. Idle \in [step : Step, head : MaybeHead] /\ Idle.step = "idle"
    BY DEF Idle, Step, MaybeHead
  <2>4. /\ task' \in [Run -> [step : Step, head : MaybeHead]]
        /\ \A q \in Run : task'[q].step = "idle"
    BY <1>1, <2>1, <2>3
  <2> QED BY <1>1, <2>1, <2>2, <2>4, OutsideStep DEF gitVars
<1> QED BY <1>2, <1>3, <1>4

-----------------------------------------------------------------------------
(* The theorems.                                                           *)

\* Every step of the curation commands keeps the invariant.
LEMMA GenerationNextInv == GenerationInv /\ [GenerationNext]_curationVars => GenerationInv'
<1> SUFFICES ASSUME GenerationInv, [GenerationNext]_curationVars PROVE GenerationInv'
  OBVIOUS
<1>1. ASSUME NEW r \in Run, Curate(r) PROVE GenerationInv'
  <2>1. CASE Prepare(r)
    BY <2>1, PrepareInv
  <2>2. CASE CheckpointStart(r)
    BY <2>2, CheckpointStartStep
  <2>3. CASE CheckpointComplete(r)
    BY <2>3, CheckpointCompleteStep
  <2>4. CASE Validate(r)
    BY <2>4, ValidateStep
  <2>5. CASE RecordValidation(r)
    BY <2>5, RecordStep
  <2>6. CASE Stop(r)
    <3>1. task[r].step # "idle" => owner = r
      BY DEF GenerationInv, TaskKept
    <3>2. task[r].step = "idle" => GenerationInv'
      <4>1. CASE task[r].step = "idle"
        <5>1. /\ Idle \in [step : Step, head : MaybeHead] /\ Idle.step = "idle"
              /\ task \in [Run -> [step : Step, head : MaybeHead]]
          BY DEF Idle, Step, MaybeHead, GenerationInv, CurationTypeOK
        <5>2. task' = [task EXCEPT ![r] = Idle]
          BY <2>6 DEF Stop, Done
        <5>3. /\ task' \in [Run -> [step : Step, head : MaybeHead]]
              /\ \A q \in Run : task'[q].step = "idle" \/ task'[q] = task[q]
          BY <5>1, <5>2
        <5>4. StoreTypeOK' /\ UNCHANGED <<owner, mutex, work>>
          BY <2>6, StoreStands DEF Stop, GenerationInv, CurationTypeOK
        <5> QED BY <2>6, <5>3, <5>4, OutsideStep
                DEF Stop, gitVars, GenerationInv, CurationTypeOK
      <4> QED BY <4>1
    <3>3. picking \in Base \cup {NoBase}
      BY DEF GenerationInv, CurationTypeOK
    <3> QED BY <2>6, <3>1, <3>2, <3>3, WorktreeStep DEF Stop
  <2> QED BY <1>1, <2>1, <2>2, <2>3, <2>4, <2>5, <2>6 DEF Curate
<1>2. CASE UNCHANGED curationVars
  <2>1. StoreTypeOK' /\ UNCHANGED <<owner, mutex, work>>
    BY <1>2, StoreStands DEF curationVars, GenerationInv, CurationTypeOK
  <2> QED BY <1>2, <2>1, OutsideStep
          DEF curationVars, gitVars, genVars, history, GenerationInv, CurationTypeOK
<1> QED BY <1>1, <1>2, EnvironmentInv DEF GenerationNext

\* The invariant implies what the two files owe each other.
LEMMA GenerationInvSafe == GenerationInv => CurationSafe
<1> SUFFICES ASSUME GenerationInv PROVE CurationSafe
  OBVIOUS
<1>1. work[Pr] \in WorkState
  BY GenerationAssumption DEF GenerationInv, CurationTypeOK, StoreTypeOK
<1>2. EvidenceKept
  BY <1>1 DEF GenerationInv, WorkKept, EvidenceKept
<1>3. LineageKept
  BY DEF GenerationInv, WorkKept, LineageKept
<1>4. AuthorityInLineage
  <2>1. \A h \in Curated : h # NoHead
    BY StoreAssumption DEF Curated
  <2> QED BY <2>1 DEF GenerationInv, GenerationKept, AuthorityInLineage, Lineage
<1> QED BY <1>2, <1>3, <1>4 DEF GenerationInv, CurationSafe

\* Whatever command dies between the document and the record, whatever the author
\* pushes and whoever takes the lease: the record never claims more than its
\* generation has, what it claims was built on its sync and on the head it
\* replaces, and a checkpoint has authority only for its own generation.
THEOREM CurationIsSafe == GenerationSpec => []CurationSafe
<1>1. CurationInit => GenerationInv
  BY GenerationInitInv
<1> QED BY <1>1, GenerationNextInv, GenerationInvSafe, PTL DEF GenerationSpec

-----------------------------------------------------------------------------
(* The refinement of GenerationLifecycle: each step of a command is one    *)
(* step of the document or leaves it as it is.                             *)

\* The document the abstract specification speaks of, and its type.
Shown == [stage |-> gen.stage, discovery |-> gen.discovery, head |-> gen.head,
          open |-> gen.open]

ShownType == [stage : Open \cup Closed \cup {"absent"}, discovery : Discovery,
              head : MaybeHead,
              open : [kind : Kind, head : MaybeHead, discovery : Discovery]]

\* Two documents that agree in every field are one.
LEMMA ShownAgrees ==
  ASSUME NEW d \in ShownType, NEW e \in ShownType,
         d.stage = e.stage, d.discovery = e.discovery, d.head = e.head, d.open = e.open
  PROVE  d = e
  BY DEF ShownType

\* What the document shows is well typed and read off the generation.
LEMMA ShownFacts ==
  ASSUME CurationTypeOK
  PROVE  /\ Shown \in ShownType
         /\ Shown.stage = gen.stage /\ Shown.discovery = gen.discovery
         /\ Shown.head = gen.head /\ Shown.open = gen.open
  BY DEF CurationTypeOK, Shown, ShownType

\* A step of the commands leaves the document as it is, closes it, or is one of
\* the four events that are written to it.
LEMMA GenerationMoves ==
  ASSUME GenerationInv, [GenerationNext]_curationVars
  PROVE  \/ gen' = gen
         \/ gen.stage \in Open /\ \E kind \in Closed : Close(kind)
         \/ \E r \in Run : \/ StartGeneration(r) \/ CheckpointStart(r)
                           \/ CheckpointComplete(r) \/ Validate(r)
<1>1. ASSUME NEW r \in Run, Prepare(r), ~StartGeneration(r)
      PROVE  \/ gen' = gen
             \/ gen.stage \in Open /\ \E kind \in Closed : Close(kind)
  <2>1. task[r].step \in {"retry", "resume", "supersede"} => gen.stage \in Open
    BY StepFacts DEF Relies
  <2>2. {"invalidated", "superseded"} \subseteq Closed
    BY DEF Closed
  <2>3. CASE PrepareClose(r) \/ PrepareRetryStale(r) \/ PrepareMissing(r) \/ PrepareSupersede(r)
    BY <2>1, <2>2, <2>3
    DEF PrepareClose, PrepareRetryStale, PrepareMissing, PrepareSupersede, At
  <2>4. CASE \/ PrepareBegin(r) \/ PrepareSync(r) \/ PrepareResume(r) \/ PrepareRetry(r)
             \/ PrepareRestore(r) \/ PrepareReplay(r) \/ PrepareConflict(r)
             \/ PrepareAbort(r) \/ RecordReview(r)
    BY <2>4 DEF PrepareBegin, PrepareSync, PrepareResume, PrepareRetry, PrepareRestore,
                PrepareReplay, PrepareConflict, PrepareAbort, RecordReview
  <2> QED BY <1>1, <2>3, <2>4 DEF Prepare
<1>2. CASE \E r \in Run : Curate(r)
  BY <1>1, <1>2 DEF Curate, RecordValidation, Stop
<1>3. CASE Environment \/ Acquire \/ Lose \/ UNCHANGED curationVars
  BY <1>3 DEF Environment, AuthorPush, PrSync, MainAdvance, Acquire, Lose, curationVars, genVars
<1> QED BY <1>2, <1>3 DEF GenerationNext

\* Closing, starting, checkpointing and judging a generation are the steps that
\* GenerationLifecycle allows its document.
LEMMA LifecycleStep ==
  ASSUME GenerationInv, GenerationInv', [GenerationNext]_curationVars
  PROVE  Promise!Step(Shown, Shown') \/ Shown' = Shown
<1>1. PICK d \in ShownType :
          /\ d = Shown /\ d.stage = gen.stage /\ d.discovery = gen.discovery
          /\ d.head = gen.head /\ d.open = gen.open
  BY ShownFacts DEF GenerationInv
<1>2. PICK e \in ShownType :
          /\ e = Shown' /\ e.stage = gen'.stage /\ e.discovery = gen'.discovery
          /\ e.head = gen'.head /\ e.open = gen'.open
  <2>1. CurationTypeOK'
    BY DEF GenerationInv
  <2>2. /\ Shown'.stage = gen'.stage /\ Shown'.discovery = gen'.discovery
        /\ Shown'.head = gen'.head /\ Shown'.open = gen'.open
    BY DEF Shown
  <2>3. Shown' \in ShownType
    BY <2>1 DEF CurationTypeOK, Shown, ShownType
  <2> QED BY <2>2, <2>3
<1>3. gen \in Document
  BY DEF GenerationInv, CurationTypeOK, Document
<1> SUFFICES ASSUME e # d PROVE Promise!Step(d, e)
  BY <1>1, <1>2
<1>4. gen' # gen
  BY <1>1, <1>2 DEF Shown
<1>5. CASE gen.stage \in Open /\ \E kind \in Closed : Close(kind)
  <2>1. PICK kind \in Closed : Close(kind)
    BY <1>5
  <2> DEFINE f == [d EXCEPT !.stage = e.stage, !.open = NoOpen]
  <2>2. /\ e.stage = kind /\ e.open = NoOpen /\ e.discovery = d.discovery
        /\ e.head = d.head
    BY <1>1, <1>2, <1>3, <2>1 DEF Close, Document
  <2>3. /\ f \in ShownType /\ f.stage = e.stage /\ f.open = NoOpen
        /\ f.discovery = d.discovery /\ f.head = d.head
    BY <2>2 DEF ShownType, NoOpen, MaybeHead, Kind, Discovery
  <2> HIDE DEF f
  <2>4. e = f
    BY <2>2, <2>3, ShownAgrees
  <2> QED BY <1>1, <1>5, <2>2, <2>4
          DEF f, Promise!Step, Promise!Close, Promise!Live, Promise!Over,
              Promise!NoTransaction, NoOpen, Open, Closed
<1>6. ASSUME NEW r \in Run, StartGeneration(r) PROVE Promise!Step(d, e)
  <2>1. synced \in Curated /\ gen.stage \in Over
    BY <1>6, StepFacts DEF StartGeneration, At, Relies, GenerationInv, WorkKept, IsPrepared
  <2> DEFINE f == Promise!Prepared(synced)
  <2>2. gen' = [Absent EXCEPT !.stage = "prepared", !.head = synced, !.prepared = synced]
    BY <1>6 DEF StartGeneration
  <2>3. /\ e.stage = "prepared" /\ e.open = NoOpen /\ e.discovery = "none"
        /\ e.head = synced
    BY <1>2, <2>2 DEF Absent
  <2>4. /\ f \in ShownType /\ f.stage = "prepared" /\ f.open = NoOpen
        /\ f.discovery = "none" /\ f.head = synced
    BY <2>1 DEF Promise!Prepared, Promise!Nothing, Promise!NoTransaction, ShownType,
                NoOpen, MaybeHead, Kind, Discovery, Open, Curated
  <2> HIDE DEF f
  <2>5. e = f
    BY <2>3, <2>4, ShownAgrees
  <2> QED BY <1>1, <2>1, <2>5
          DEF f, Curated, Promise!Step, Promise!Prepare, Promise!Over, Over, Closed
<1>7. ASSUME NEW r \in Run, CheckpointStart(r) PROVE Promise!Step(d, e)
  <2>1. PICK c \in Checkpoints, h \in Curated :
            gen' = [gen EXCEPT !.open = [kind |-> c.kind, head |-> h,
                                         discovery |-> c.discovery]]
    BY <1>7 DEF CheckpointStart
  <2>2. gen.stage \in Open \ {"fully-validated"} /\ gen.open = NoOpen
    BY <1>7 DEF CheckpointStart, CanCheckpoint
  <2>3. /\ e.open = [kind |-> c.kind, head |-> h, discovery |-> c.discovery]
        /\ e.stage = d.stage /\ e.discovery = d.discovery /\ e.head = d.head
    BY <1>1, <1>2, <1>3, <2>1 DEF Document
  <2>4. /\ e.open.head \in Head
        /\ \/ e.open.kind = "discovery" /\ e.open.discovery \in Promise!Outcomes
           \/ e.open.kind \in {"delta", "reviewed"} /\ e.open.discovery = "none"
    BY <2>3, GenerationAssumption DEF Curated, Discovery, Promise!Outcomes
  <2> DEFINE f == [d EXCEPT !.open = e.open]
  <2>5. /\ f \in ShownType /\ f.stage = d.stage /\ f.open = e.open
        /\ f.discovery = d.discovery /\ f.head = d.head
    BY DEF ShownType
  <2> HIDE DEF f
  <2>6. e = f
    BY <2>3, <2>5, ShownAgrees
  <2> QED BY <1>1, <2>2, <2>4, <2>6
          DEF f, Promise!Step, Promise!Start, Promise!Live, Promise!NoTransaction,
              NoOpen, Open
<1>8. ASSUME NEW r \in Run, CheckpointComplete(r) PROVE Promise!Step(d, e)
  <2> DEFINE f == [d EXCEPT !.stage = d.open.kind, !.head = d.open.head,
                            !.discovery = IF d.open.kind = "discovery"
                                            THEN d.open.discovery ELSE @,
                            !.open = NoOpen]
             x == IF d.open.kind = "discovery" THEN d.open.discovery ELSE d.discovery
  <2>1. /\ d.open # NoOpen /\ d.open.kind \in Open
        /\ gen' = [gen EXCEPT !.stage = gen.open.kind, !.head = gen.open.head,
                              !.open = NoOpen,
                              !.discovery = IF gen.open.kind = "discovery"
                                              THEN gen.open.discovery ELSE @]
    BY <1>1, <1>8 DEF CheckpointComplete, GenerationInv, GenerationKept, Open
  <2>2. /\ e.stage = d.open.kind /\ e.head = d.open.head /\ e.open = NoOpen
        /\ e.discovery = x
    BY <1>1, <1>2, <1>3, <2>1 DEF Document
  <2>3. /\ d.open \in [kind : Kind, head : MaybeHead, discovery : Discovery]
        /\ d.discovery \in Discovery
        /\ NoOpen \in [kind : Kind, head : MaybeHead, discovery : Discovery]
    BY DEF ShownType, NoOpen, MaybeHead, Kind, Discovery
  <2>4. /\ f \in ShownType /\ f.stage = d.open.kind /\ f.open = NoOpen
        /\ f.discovery = x /\ f.head = d.open.head
    BY <2>1, <2>3 DEF ShownType
  <2> HIDE DEF f, x
  <2>5. e = f
    BY <2>2, <2>4, ShownAgrees
  <2> QED BY <2>1, <2>5
          DEF f, Promise!Step, Promise!Complete, Promise!NoTransaction, NoOpen
<1>9. ASSUME NEW r \in Run, Validate(r) PROVE Promise!Step(d, e)
  <2>1. PICK s \in {"fully-validated", "validation-failed"} : gen' = [gen EXCEPT !.stage = s]
    BY <1>9 DEF Validate
  <2>2. d.stage = "reviewed" /\ d.open = NoOpen
    BY <1>1, <1>9 DEF Validate
  <2>3. e.stage = s /\ e.discovery = d.discovery /\ e.head = d.head /\ e.open = d.open
    BY <1>1, <1>2, <1>3, <2>1 DEF Document
  <2> DEFINE f == [d EXCEPT !.stage = e.stage]
  <2>4. /\ f \in ShownType /\ f.stage = e.stage /\ f.open = d.open
        /\ f.discovery = d.discovery /\ f.head = d.head
    BY DEF ShownType
  <2> HIDE DEF f
  <2>5. e = f
    BY <2>3, <2>4, ShownAgrees
  <2> QED BY <2>2, <2>3, <2>5
          DEF f, Promise!Step, Promise!Verdict, Promise!NoTransaction, NoOpen
<1> QED BY <1>4, <1>5, <1>6, <1>7, <1>8, <1>9, GenerationMoves

\* Whatever command or crash comes between: the generation document is replaced
\* only after it was closed, keeps one transaction at a time, and is judged only
\* as reviewed.  That is what GenerationLifecycle promises.
THEOREM GenerationKeepsLifecycle == GenerationSpec => KeepsLifecycle
<1>1. CurationInit => Shown = Promise!Nothing
  BY DEF CurationInit, GenerationInit, Shown, Absent, Promise!Nothing,
         Promise!NoTransaction, NoOpen
<1>2. CurationInit => GenerationInv
  BY GenerationInitInv
<1>3. /\ GenerationInv /\ GenerationInv' /\ [GenerationNext]_curationVars
         => [Promise!Step(Shown, Shown')]_Shown
  BY LifecycleStep
<1>4. GenerationSpec => Shown = Promise!Nothing /\ [][Promise!Step(Shown, Shown')]_Shown
  BY <1>1, <1>2, <1>3, GenerationNextInv, PTL DEF GenerationSpec
<1> QED BY <1>4 DEF KeepsLifecycle, Promise!Lifecycle, Shown

-----------------------------------------------------------------------------
(* The publication.                                                        *)

PubRecord == [step : PubStep, goal : Goal, head : MaybeHead, valid : MaybeHead,
              adopt : BOOLEAN]

\* A push that replaces a branch by a reviewed commit made from it.
Replaces(p) == p.new \in reviewed /\ p.old = made[p.new].selected

\* The journal names a reviewed head, and never waits for a pull request to be
\* created.
JournalKept == /\ journal[Pr].phase # "none" => journal[Pr].new \in reviewed
               /\ journal[Pr].phase # "pr-created"
               /\ JournalTellsTruth

\* The branch, and the pushes whose command has died.
BranchKept == /\ remote \in landed
              /\ OnlyReviewedLands
              /\ \A p \in orphans : Replaces(p)

\* This module's continuations only wait: their current head is the semantic one.
CiKept == /\ WaitsForValidated
          /\ ci[Pr].current = ci[Pr].semantic
          /\ ci[Pr].phase # "none" => ci[Pr].semantic # NoHead

\* The steps that present a head on GitHub, and the states they present it in.
Presenting == {"state", "handoff", "observe", "comment", "commenting", "label",
               "labelling", "settle"}
Presented == {"waiting-ci", "ready", "hold", "outcome"}

\* What a publish command knows at its step: it excludes the curation commands,
\* and the evidence it is going to publish has been judged.
Honest(r, t) ==
    /\ t # NoPub => task[r].step = "idle"
    /\ t.step \in Presenting => t.goal \in Presented
    /\ t.step = "advance" => r = owner /\ journal[Pr].new \in landed
    /\ t.valid \in passed \cup {NoHead}
    /\ t.goal \in {"waiting-ci", "ready"} =>
           /\ t.head \in Head
           /\ t.step \notin {"handoff", "observe"} => t.head \in passed

\* While a push is under way its command holds the mutex, and journal and sync
\* stay what they were when it was sent.
InFlight(r) ==
    push[r] # "none" =>
        /\ mutex = r /\ owner = r /\ pub[r].step = "pushing"
        /\ journal[Pr].phase # "none"
        /\ synced # NoHead /\ made[journal[Pr].new].prepared = synced
        /\ push[r] = "ok" => journal[Pr].new \in landed

PublicationInv ==
    /\ GenerationInv
    /\ PublicationTypeOK
    /\ JournalKept /\ BranchKept /\ CiKept
    /\ ClaimsAreTrue /\ PublishedWorkHasJournal
    /\ \A r \in Run : Honest(r, pub[r]) /\ InFlight(r)

-----------------------------------------------------------------------------
(* The first state, and the facts every step starts from.                  *)

\* Before anything was published everything holds.
LEMMA PublicationInitInv == PublicationInit => PublicationInv
<1> SUFFICES ASSUME PublicationInit PROVE PublicationInv
  OBVIOUS
<1>1. GenerationInv /\ CurationTypeOK
  BY GenerationInitInv DEF PublicationInit, GenerationInv
<1>2. /\ ci[Pr] = NoCi /\ journal[Pr] = NoJournal /\ work[Pr] = NoWork
      /\ remote \in Author /\ remote \in Head /\ reviewed = {}
      /\ task = [r \in Run |-> Idle]
  BY GenerationAssumption DEF PublicationInit, CurationInit, StoreInit, GenerationInit
<1>3. NoPub \in PubRecord /\ NoPub.step = "idle" /\ NoPub.goal = "none" /\ NoPub.valid = NoHead
  BY DEF NoPub, PubRecord, PubStep, Goal, MaybeHead
<1>4. PublicationTypeOK
  BY <1>1, <1>2, <1>3
  DEF PublicationInit, PublicationTypeOK, PubRecord, NoComment, MaybeHead
<1>5. JournalKept /\ CiKept /\ PublishedWorkHasJournal
  BY <1>2 DEF JournalKept, JournalTellsTruth, CiKept, WaitsForValidated,
              PublishedWorkHasJournal, NoCi, NoJournal, NoWork
<1>6. BranchKept /\ ClaimsAreTrue
  BY <1>2 DEF PublicationInit, BranchKept, OnlyReviewedLands, ClaimsAreTrue, NoComment,
              Curated
<1>7. \A r \in Run : Honest(r, pub[r]) /\ InFlight(r)
  BY <1>2, <1>3 DEF PublicationInit, Honest, InFlight, Idle, Presenting
<1> QED BY <1>1, <1>4, <1>5, <1>6, <1>7 DEF PublicationInv

\* The types of what publish commands read and write.
LEMMA PublicationFacts ==
  ASSUME PublicationInv
  PROVE  /\ StoreTypeOK /\ CurationTypeOK
         /\ ci[Pr] \in CiContinuation /\ journal[Pr] \in PushJournal
         /\ work[Pr] \in WorkState
         /\ pub \in [Run -> PubRecord]
         /\ push \in [Run -> {"none", "sent", "ok", "rejected"}]
         /\ Pr \in WorkId /\ NoHead \notin Head /\ Curated \subseteq Head
         /\ main \in Base /\ remote \in Head /\ prHead \in Head
         /\ task \in [Run -> [step : Step, head : MaybeHead]]
         /\ reviewed \subseteq Curated /\ passed \subseteq reviewed
         /\ NoRun \notin Run
  BY StoreAssumption, GenerationAssumption
  DEF PublicationInv, PublicationTypeOK, CurationTypeOK, StoreTypeOK, PubRecord, Curated,
      GenerationInv, CommitsKept

\* No push is under way while nobody holds the mutex.
LEMMA NoFlight ==
  ASSUME PublicationInv, mutex = NoRun
  PROVE  \A r \in Run : push[r] = "none"
  BY StoreAssumption DEF PublicationInv, InFlight

-----------------------------------------------------------------------------
(* Frames.                                                                 *)

\* A step of one command leaves what the others know.
LEMMA HonestMoves ==
  ASSUME PublicationInv, NEW r \in Run, NEW t \in PubRecord,
         pub' = [pub EXCEPT ![r] = t], Honest(r, t)',
         owner' = owner, task' = task, landed \subseteq landed', passed \subseteq passed',
         owner = r \/ journal'[Pr] = journal[Pr]
  PROVE  /\ pub' \in [Run -> PubRecord]
         /\ pub'[r] = t
         /\ \A q \in Run \ {r} : pub'[q] = pub[q]
         /\ \A q \in Run : Honest(q, pub[q])'
<1>1. /\ pub' \in [Run -> PubRecord] /\ pub'[r] = t
      /\ \A q \in Run \ {r} : pub'[q] = pub[q]
  BY PublicationFacts
<1>2. ASSUME NEW q \in Run, q # r PROVE Honest(q, pub[q])'
  <2>1. Honest(q, pub[q]) /\ pub'[q] = pub[q]
    BY <1>1, <1>2 DEF PublicationInv
  <2> QED BY <1>2, <2>1 DEF Honest
<1> QED BY <1>1, <1>2

\* A store operation that leaves the work records alone keeps the generation.
LEMMA GenerationUntouched ==
  ASSUME PublicationInv, StoreTypeOK', work' = work, owner' = owner,
         main' = main, remote' \in Head, prHead' = prHead, UNCHANGED genVars
  PROVE  GenerationInv'
  BY PublicationFacts, OutsideStep DEF PublicationInv, genVars, history

\* A command that works on its records while no push is under way keeps the
\* invariant, if the records agree after its step.
LEMMA RecordsStep ==
  ASSUME PublicationInv, NEW r \in Run, owner = r, mutex = NoRun,
         NEW t \in PubRecord, pub' = [pub EXCEPT ![r] = t], Honest(r, t)',
         UNCHANGED unpublished, StoreTypeOK', owner' = owner, GenerationInv',
         JournalKept', CiKept', PublishedWorkHasJournal'
  PROVE  PublicationInv'
<1>1. UNCHANGED <<task, reviewed, passed, landed, made, remote, orphans, push, comment, label>>
  BY DEF unpublished, genVars, pushVars, gitVars, githubVars
<1>2. pub' \in [Run -> PubRecord] /\ \A q \in Run : Honest(q, pub[q])'
  BY <1>1, HonestMoves
<1>3. \A q \in Run : InFlight(q)'
  BY <1>1, NoFlight DEF InFlight
<1>4. PublicationTypeOK'
  BY <1>1, <1>2 DEF PublicationInv, GenerationInv, PublicationTypeOK, PubRecord
<1>5. BranchKept' /\ ClaimsAreTrue'
  BY <1>1 DEF PublicationInv, BranchKept, OnlyReviewedLands, Replaces, ClaimsAreTrue
<1> QED BY <1>2, <1>3, <1>4, <1>5 DEF PublicationInv

\* The records agree as long as nobody writes them.
LEMMA RecordsAlone ==
  ASSUME PublicationInv, journal'[Pr] = journal[Pr], work'[Pr] = work[Pr],
         reviewed \subseteq reviewed', landed \subseteq landed'
  PROVE  JournalKept' /\ PublishedWorkHasJournal'
  BY DEF PublicationInv, JournalKept, JournalTellsTruth, PublishedWorkHasJournal

\* So does the continuation.
LEMMA CiAlone ==
  ASSUME PublicationInv, ci'[Pr].semantic = ci[Pr].semantic,
         ci'[Pr].current = ci[Pr].current,
         ci'[Pr].phase # "none" => ci[Pr].phase # "none",
         passed \subseteq passed', landed \subseteq landed'
  PROVE  CiKept'
  BY DEF PublicationInv, CiKept, WaitsForValidated

\* The operations a publish command calls, and what they leave alone.
LEMMA StoreOperation ==
  ASSUME PublicationInv, NEW r \in Run,
         \/ PushOp(r, Pr) \/ CiOp(r, Pr) \/ LeaveGuard(r) \/ UNCHANGED storeVars
  PROVE  StoreTypeOK' /\ owner' = owner /\ work' = work
<1>1. StoreTypeOK'
  BY PublicationFacts, StoreNextType DEF StoreNext
<1>2. owner' = owner /\ work' = work
  BY DEF PushOp, CiOp, LeaveGuard, AuthorizePush, AdvancePush, AdoptPush, EnterPushGuard,
         StartCi, AdvanceCi, RecordCiTime, AdoptCi, AdoptCiForPush, storeVars, leaseVars
<1> QED BY <1>1, <1>2

\* The record of a command that starts, goes on, or ends.
LEMMA PubTerms ==
  ASSUME PublicationInv, NEW r \in Run
  PROVE  /\ \A step \in PubStep, goal \in Goal, h \in MaybeHead :
               PubStart(r, step, goal, h) =>
                   \E t \in PubRecord :
                       /\ t.step = step /\ t.goal = goal /\ t.head = h
                       /\ t.valid = NoHead
                       /\ pub' = [pub EXCEPT ![r] = t]
         /\ \A step \in PubStep :
               PubGoto(r, step) =>
                   \E t \in PubRecord :
                       /\ t.step = step /\ t.goal = pub[r].goal /\ t.head = pub[r].head
                       /\ t.valid = pub[r].valid
                       /\ pub' = [pub EXCEPT ![r] = t]
         /\ NoPub \in PubRecord /\ NoPub.step = "idle" /\ NoPub.goal = "none"
         /\ NoPub.valid = NoHead
         /\ PubDone(r) => pub' = [pub EXCEPT ![r] = NoPub]
<1>1. NoPub \in PubRecord /\ NoPub.step = "idle" /\ NoPub.goal = "none" /\ NoPub.valid = NoHead
  BY DEF NoPub, PubRecord, PubStep, Goal, MaybeHead
<1>2. ASSUME NEW step \in PubStep, NEW goal \in Goal, NEW h \in MaybeHead,
             PubStart(r, step, goal, h)
      PROVE  \E t \in PubRecord :
                 /\ t.step = step /\ t.goal = goal /\ t.head = h /\ t.valid = NoHead
                 /\ pub' = [pub EXCEPT ![r] = t]
  <2> DEFINE t == [NoPub EXCEPT !.step = step, !.goal = goal, !.head = h]
  <2>1. /\ t \in PubRecord /\ t.step = step /\ t.goal = goal /\ t.head = h
        /\ t.valid = NoHead
    BY <1>1 DEF PubRecord
  <2>2. pub' = [pub EXCEPT ![r] = t]
    BY <1>2 DEF PubStart
  <2> HIDE DEF t
  <2> QED BY <2>1, <2>2
<1>3. ASSUME NEW step \in PubStep, PubGoto(r, step)
      PROVE  \E t \in PubRecord :
                 /\ t.step = step /\ t.goal = pub[r].goal /\ t.head = pub[r].head
                 /\ t.valid = pub[r].valid
                 /\ pub' = [pub EXCEPT ![r] = t]
  <2> DEFINE t == [pub[r] EXCEPT !.step = step]
  <2>1. pub[r] \in PubRecord
    BY PublicationFacts
  <2>2. /\ t \in PubRecord /\ t.step = step /\ t.goal = pub[r].goal
        /\ t.head = pub[r].head /\ t.valid = pub[r].valid
    BY <2>1 DEF PubRecord
  <2>3. pub' = [pub EXCEPT ![r] = t]
    BY <1>3 DEF PubGoto
  <2> HIDE DEF t
  <2> QED BY <2>2, <2>3
<1> QED BY <1>1, <1>2, <1>3 DEF PubDone

\* A command in the middle of a publication is in no curation command.
LEMMA Publishing ==
  ASSUME PublicationInv, NEW r \in Run, pub[r].step # "idle"
  PROVE  /\ task[r].step = "idle"
         /\ pub[r].step \in Presenting => pub[r].goal \in Presented
         /\ pub[r].valid \in passed \cup {NoHead}
         /\ pub[r].goal \in {"waiting-ci", "ready"} =>
                /\ pub[r].head \in Head
                /\ pub[r].step \notin {"handoff", "observe"} => pub[r].head \in passed
<1>1. NoPub.step = "idle"
  BY DEF NoPub
<1>2. Honest(r, pub[r])
  BY DEF PublicationInv
<1> QED BY <1>1, <1>2 DEF Honest

-----------------------------------------------------------------------------
(* publish push, publish manual-check and publish recover.                 *)

\* Authorizing the push of a reviewed head leaves a journal that names it, and a
\* work record that is not yet published.
LEMMA AuthorizeRecords ==
  ASSUME PublicationInv, NEW r \in Run, NEW e \in MaybeHead, NEW n \in MaybeHead,
         AuthorizePush(r, Pr, e, n), n \in reviewed \cup {NoHead},
         work[Pr].phase \notin {"pushed", "published"},
         UNCHANGED unpublished
  PROVE  /\ StoreTypeOK' /\ owner' = owner /\ work' = work
         /\ JournalKept' /\ CiKept' /\ PublishedWorkHasJournal'
<1>1. /\ journal' = [journal EXCEPT ![Pr] = [phase |-> "authorized", origin |-> r,
                                             recovery |-> r, expected |-> e, new |-> n]]
      /\ n # NoHead /\ ci' = ci
  BY DEF AuthorizePush, ciVars
<1>2. journal'[Pr].phase = "authorized" /\ journal'[Pr].new = n
  BY <1>1, PublicationFacts DEF StoreTypeOK
<1>3. StoreTypeOK' /\ owner' = owner /\ work' = work
  BY StoreOperation DEF PushOp
<1>4. UNCHANGED <<reviewed, passed, landed>>
  BY DEF unpublished, genVars, pushVars
<1>5. JournalKept' /\ PublishedWorkHasJournal'
  BY <1>1, <1>2, <1>3, <1>4 DEF JournalKept, JournalTellsTruth, PublishedWorkHasJournal
<1>6. CiKept'
  BY <1>1, <1>4, CiAlone
<1> QED BY <1>3, <1>5, <1>6

\* A command that starts with its journal, new or its own, keeps the invariant.
LEMMA PushStartStep ==
  ASSUME PublicationInv, NEW r \in Run, PushStart(r) \/ ManualStart(r)
  PROVE  PublicationInv'
<1> USE PublicationFacts
<1>1. /\ owner = r /\ mutex = NoRun /\ task[r].step = "idle" /\ UNCHANGED unpublished
      /\ UNCHANGED <<task, reviewed, passed, landed, genVars, main, remote, prHead>>
  BY DEF PushStart, ManualStart, Free, At, unpublished, genVars, pushVars, gitVars
<1>2. PICK t \in PubRecord :
          /\ t.goal \in {"push", "manual-check"} /\ t.step \in {"consume", "push"}
          /\ t.valid = NoHead
          /\ pub' = [pub EXCEPT ![r] = t]
  <2>1. /\ work[Pr].validated \in MaybeHead /\ work[Pr].reviewed \in MaybeHead
        /\ journal[Pr].new \in MaybeHead
    BY DEF WorkState, PushJournal
  <2>2. /\ {"consume", "push"} \subseteq PubStep
        /\ {"push", "manual-check"} \subseteq Goal
    BY DEF PubStep, Goal
  <2>3. PICK step \in {"consume", "push"}, goal \in {"push", "manual-check"},
             h \in MaybeHead : PubStart(r, step, goal, h)
    BY <2>1 DEF PushStart, ManualStart
  <2> QED BY <2>2, <2>3, PubTerms
<1>3. Honest(r, t)'
  BY <1>1, <1>2 DEF Honest, Presenting
<1>4. /\ StoreTypeOK' /\ owner' = owner /\ work' = work
      /\ JournalKept' /\ CiKept' /\ PublishedWorkHasJournal'
  <2>1. CASE UNCHANGED storeVars
    BY <1>1, <2>1, StoreOperation, RecordsAlone, CiAlone
    DEF storeVars, ciVars
  <2>2. CASE ~UNCHANGED storeVars
    <3>1. PICK n \in MaybeHead :
              /\ AuthorizePush(r, Pr, work[Pr].selected, n)
              /\ n \in {work[Pr].validated, work[Pr].reviewed}
              /\ work[Pr].phase \notin {"pushed", "published"}
      BY <2>2 DEF PushStart, ManualStart, WorkState
    <3>2. n \in reviewed \cup {NoHead} /\ work[Pr].selected \in MaybeHead
      BY <3>1 DEF PublicationInv, GenerationInv, WorkKept, WorkState
    <3> QED BY <1>1, <3>1, <3>2, AuthorizeRecords
  <2> QED BY <2>1, <2>2
<1>5. GenerationInv'
  BY <1>1, <1>4, GenerationUntouched
<1> QED BY <1>1, <1>2, <1>3, <1>4, <1>5, RecordsStep

\* A run that takes up the unresolved push keeps the invariant.
LEMMA RecoverStartStep ==
  ASSUME PublicationInv, NEW r \in Run, RecoverStart(r)
  PROVE  PublicationInv'
<1> USE PublicationFacts
<1>1. /\ owner = r /\ mutex = NoRun /\ task[r].step = "idle" /\ UNCHANGED unpublished
      /\ UNCHANGED <<task, reviewed, passed, landed, genVars, main, remote, prHead>>
  BY DEF RecoverStart, Free, At, unpublished, genVars, pushVars, gitVars
<1>2. PICK t \in PubRecord :
          /\ t.goal = "recover" /\ t.step = "push" /\ t.valid = NoHead
          /\ pub' = [pub EXCEPT ![r] = t]
  <2>1. journal[Pr].new \in MaybeHead /\ "push" \in PubStep /\ "recover" \in Goal
    BY DEF PushJournal, PubStep, Goal
  <2> QED BY <2>1, PubTerms DEF RecoverStart
<1>3. Honest(r, t)'
  BY <1>1, <1>2 DEF Honest, Presenting
<1>4. /\ StoreTypeOK' /\ owner' = owner /\ work' = work
      /\ journal'[Pr].phase = journal[Pr].phase /\ journal'[Pr].new = journal[Pr].new
      /\ journal'[Pr].origin = journal[Pr].origin /\ ci' = ci
  <2>1. CASE UNCHANGED storeVars
    BY <2>1, StoreOperation DEF storeVars, ciVars
  <2>2. CASE AdoptPush(r, Pr, remote)
    <3>1. journal' = [journal EXCEPT ![Pr].recovery = r] /\ ci' = ci
      BY <2>2 DEF AdoptPush, ciVars
    <3>2. PushOp(r, Pr)
      BY <2>2 DEF PushOp, MaybeHead
    <3> QED BY <3>1, <3>2, StoreOperation DEF StoreTypeOK, PushJournal
  <2> QED BY <2>1, <2>2 DEF RecoverStart
<1>5. JournalKept' /\ PublishedWorkHasJournal'
  BY <1>1, <1>4
  DEF PublicationInv, JournalKept, JournalTellsTruth, PublishedWorkHasJournal
<1>6. CiKept'
  BY <1>1, <1>4, CiAlone
<1>7. GenerationInv'
  BY <1>1, <1>4, GenerationUntouched
<1> QED BY <1>1, <1>2, <1>3, <1>4, <1>5, <1>6, <1>7, RecordsStep

\* A command that finds its push landed, or records that it has, keeps the
\* invariant: the journal goes on only when its head has been the branch's.
LEMMA AdvanceStep ==
  ASSUME PublicationInv, NEW r \in Run, SkipPush(r) \/ MarkPushed(r)
  PROVE  PublicationInv'
<1> USE PublicationFacts
<1>1. /\ owner = r /\ mutex = NoRun /\ pub[r].step \in {"push", "advance"}
      /\ UNCHANGED unpublished
      /\ UNCHANGED <<task, reviewed, passed, landed, genVars, main, remote, prHead>>
  BY DEF SkipPush, MarkPushed, PubAt, unpublished, genVars, pushVars, gitVars
<1>2. PICK t \in PubRecord :
          /\ t.step \in {"advance", "record"} /\ t.goal = pub[r].goal
          /\ t.head = pub[r].head /\ t.valid = pub[r].valid
          /\ t.step = "advance" => journal[Pr].new \in landed /\ UNCHANGED storeVars
          /\ pub' = [pub EXCEPT ![r] = t]
  <2>1. "advance" \in PubStep /\ "record" \in PubStep
    BY DEF PubStep
  <2>2. remote \in landed
    BY DEF PublicationInv, BranchKept
  <2> QED BY <2>1, <2>2, PubTerms DEF SkipPush, MarkPushed
<1>3. /\ StoreTypeOK' /\ owner' = owner /\ work' = work
      /\ journal'[Pr].phase # "none" => journal[Pr].phase # "none"
      /\ \/ journal'[Pr].phase = journal[Pr].phase
         \/ journal[Pr].new \in landed /\ journal'[Pr].phase # "pr-created"
      /\ journal'[Pr].new = journal[Pr].new /\ journal'[Pr].origin = journal[Pr].origin
      /\ ci' = ci
  <2>1. CASE SkipPush(r)
    BY <2>1, StoreOperation DEF SkipPush, storeVars, ciVars
  <2>2. CASE MarkPushed(r)
    <3>1. /\ journal' = [journal EXCEPT ![Pr].phase = NextPush(Pr, @)] /\ ci' = ci
          /\ journal[Pr].phase # "none"
      BY <2>2 DEF MarkPushed, AdvancePush, ciVars
    <3>2. PushOp(r, Pr)
      BY <2>2 DEF MarkPushed, PushOp
    <3>3. journal[Pr].new \in landed
      BY <2>2 DEF MarkPushed, PubAt, PublicationInv, Honest
    <3>4. NextPush(Pr, journal[Pr].phase) # "pr-created"
      BY GenerationAssumption DEF NextPush
    <3> QED BY <3>1, <3>2, <3>3, <3>4, StoreOperation DEF StoreTypeOK, PushJournal
  <2> QED BY <2>1, <2>2
<1>4. Honest(r, t)'
  BY <1>1, <1>2, <1>3, Publishing DEF Honest, Presenting
<1>5. JournalKept' /\ PublishedWorkHasJournal'
  BY <1>1, <1>3 DEF PublicationInv, JournalKept, JournalTellsTruth, PublishedWorkHasJournal
<1>6. CiKept'
  BY <1>1, <1>3, CiAlone
<1>7. GenerationInv'
  BY <1>1, <1>3, GenerationUntouched
<1> QED BY <1>1, <1>2, <1>3, <1>4, <1>5, <1>6, <1>7, RecordsStep

\* Writing a work record again, one phase further with the heads it has, keeps
\* the generation, and the journal it must match tells that the head has landed.
LEMMA SaveAgain ==
  ASSUME PublicationInv, NEW r \in Run,
         SaveWork(r, Pr, work[Pr].reviewed, work[Pr].validated), UNCHANGED unpublished
  PROVE  /\ GenerationInv' /\ StoreTypeOK' /\ owner' = owner
         /\ JournalKept' /\ CiKept' /\ PublishedWorkHasJournal'
<1> USE PublicationFacts
<1>1. work[Pr].reviewed \in MaybeHead /\ work[Pr].validated \in MaybeHead
  BY DEF WorkState
<1>2. /\ StoreTypeOK' /\ work'[Pr].selected = work[Pr].selected
      /\ work'[Pr].reviewed = work[Pr].reviewed
      /\ work'[Pr].validated = work[Pr].validated
      /\ work'[Pr].phase # "selected" /\ UNCHANGED <<owner, mutex>>
  BY <1>1, Saves
<1>3. /\ UNCHANGED <<gen, made, synced, picking, task, reviewed, passed, landed>>
      /\ UNCHANGED <<main, remote, prHead, journal, ci>>
  BY DEF unpublished, genVars, pushVars, gitVars, SaveWork, ciVars
<1>4. CommitsKept' /\ GenerationKept'
  BY <1>3, CommitsStand, GenerationStands, SameGrows
  DEF PublicationInv, GenerationInv, history
<1>5. WorkKept'
  BY <1>2, <1>3 DEF PublicationInv, GenerationInv, WorkKept, IsPrepared
<1>6. TaskKept'
  <2>1. \A q \in Run : Relies(task[q]) => Relies(task[q])'
    BY <1>2, <1>3 DEF Relies, selected
  <2> QED BY <1>2, <1>3, <2>1 DEF PublicationInv, GenerationInv, TaskKept
<1>7. CurationTypeOK'
  BY <1>2, <1>3 DEF CurationTypeOK
<1>8. JournalKept' /\ CiKept'
  BY <1>3 DEF PublicationInv, JournalKept, JournalTellsTruth, CiKept, WaitsForValidated
<1>9. PublishedWorkHasJournal'
  <2> DEFINE s == [work[Pr] EXCEPT !.phase = NextWork(@), !.reviewed = work[Pr].reviewed,
                                   !.validated = work[Pr].validated]
  <2>1. /\ work' = [work EXCEPT ![Pr] = s]
        /\ s.phase \in {"pushed", "published"} => JournalMatches(s, Pr)
    BY DEF SaveWork
  <2>2. work'[Pr] = s
    BY <2>1 DEF StoreTypeOK
  <2>3. s.validated = work[Pr].validated
    BY DEF WorkState
  <2> HIDE DEF s
  <2>4. work'[Pr].phase \in {"pushed", "published"} =>
            journal[Pr].new = work[Pr].validated /\ journal[Pr].new \in landed
    BY <2>1, <2>2, <2>3
    DEF JournalMatches, PublicationInv, JournalKept, JournalTellsTruth
  <2> QED BY <1>2, <1>3, <2>4 DEF PublishedWorkHasJournal
<1> QED BY <1>2, <1>4, <1>5, <1>6, <1>7, <1>8, <1>9 DEF GenerationInv

\* What follows the push keeps the invariant.
LEMMA RecordPushStep ==
  ASSUME PublicationInv, NEW r \in Run, RecordPush(r)
  PROVE  PublicationInv'
<1> USE PublicationFacts
<1>1. /\ owner = r /\ mutex = NoRun /\ pub[r].step = "record" /\ UNCHANGED unpublished
      /\ UNCHANGED <<task, reviewed, passed, landed, genVars, main, remote, prHead>>
  BY DEF RecordPush, PubAt, unpublished, genVars, pushVars, gitVars
<1>2. PICK t \in PubRecord :
          /\ t.goal \in {"none", "hold"} /\ t.step \in {"idle", "state"} /\ t.valid = NoHead
          /\ t.step = "state" => t.goal = "hold"
          /\ pub' = [pub EXCEPT ![r] = t]
  <2>1. pub[r].head \in MaybeHead /\ "state" \in PubStep /\ "hold" \in Goal
    BY DEF PubRecord, PubStep, Goal
  <2> QED BY <2>1, PubTerms DEF RecordPush
<1>3. task[r].step = "idle"
  BY <1>1, Publishing
<1>4. Honest(r, t)'
  BY <1>1, <1>2, <1>3 DEF Honest, Presenting, Presented
<1>5. /\ GenerationInv' /\ StoreTypeOK' /\ owner' = owner
      /\ JournalKept' /\ CiKept' /\ PublishedWorkHasJournal'
  <2>1. CASE SaveWork(r, Pr, work[Pr].reviewed, work[Pr].validated)
    BY <1>1, <2>1, SaveAgain
  <2>2. CASE UNCHANGED storeVars
    BY <1>1, <2>2, StoreOperation, GenerationUntouched, RecordsAlone, CiAlone
    DEF storeVars, ciVars
  <2> QED BY <2>1, <2>2 DEF RecordPush
<1> QED BY <1>1, <1>2, <1>4, <1>5, RecordsStep

\* Consuming the generation a journal was authorized for keeps the invariant.
LEMMA ConsumeStep ==
  ASSUME PublicationInv, NEW r \in Run, Consume(r)
  PROVE  PublicationInv'
<1> USE PublicationFacts
<1>1. /\ owner = r /\ mutex = NoRun /\ pub[r].step = "consume" /\ gen.stage \in Open
      /\ Close("consumed") /\ PubGoto(r, "push")
      /\ UNCHANGED <<storeVars, gitVars, made, synced, picking, task, history>>
      /\ UNCHANGED <<push, orphans, landed, comment, label>>
  BY DEF Consume, PubAt, Authority, ReviewedOnly, Open, pushVars, githubVars
<1>2. PICK t \in PubRecord :
          /\ t.step = "push" /\ t.goal = pub[r].goal /\ t.head = pub[r].head
          /\ t.valid = pub[r].valid
          /\ pub' = [pub EXCEPT ![r] = t]
  BY <1>1, PubTerms DEF PubStep
<1>3. task[r].step = "idle" /\ task' = [task EXCEPT ![r] = task[r]]
  BY <1>1, Publishing
<1>4. GenerationInv'
  BY <1>1, <1>3, CloseStep DEF PublicationInv, Closed, CurationTypeOK
<1>5. StoreTypeOK' /\ owner' = owner /\ work' = work /\ journal' = journal /\ ci' = ci
  BY <1>1, StoreOperation DEF storeVars, ciVars
<1>6. Honest(r, t)'
  BY <1>1, <1>2, <1>3, <1>5, Publishing DEF Honest, Presenting, history
<1>7. JournalKept' /\ CiKept' /\ PublishedWorkHasJournal'
  BY <1>1, <1>5, RecordsAlone, CiAlone DEF history
<1>8. pub' \in [Run -> PubRecord] /\ \A q \in Run : Honest(q, pub[q])'
  BY <1>1, <1>2, <1>5, <1>6, HonestMoves DEF history
<1>9. \A q \in Run : InFlight(q)'
  BY <1>1, NoFlight DEF InFlight
<1>10. PublicationTypeOK'
  BY <1>1, <1>4, <1>8 DEF PublicationInv, GenerationInv, PublicationTypeOK, PubRecord
<1>11. BranchKept' /\ ClaimsAreTrue'
  BY <1>1
  DEF PublicationInv, BranchKept, OnlyReviewedLands, Replaces, ClaimsAreTrue, history, gitVars
<1> QED BY <1>4, <1>7, <1>8, <1>9, <1>10, <1>11 DEF PublicationInv

-----------------------------------------------------------------------------
(* The push itself, which runs without the maintainer.                     *)

\* A push is sent only while the journal and the sync it is made from stay as
\* they are: its command holds the mutex from here on.
LEMMA StartPushStep ==
  ASSUME PublicationInv, NEW r \in Run, StartPush(r)
  PROVE  PublicationInv'
<1> USE PublicationFacts
<1>1. /\ owner = r /\ mutex = NoRun /\ pub[r].step = "push" /\ PubGoto(r, "pushing")
      /\ journal[Pr].phase = "authorized" /\ made[journal[Pr].new].prepared = synced
      /\ EnterPushGuard(r, Pr) /\ push' = [push EXCEPT ![r] = "sent"]
      /\ UNCHANGED <<gitVars, genVars, orphans, landed, githubVars>>
  BY DEF StartPush, PubAt
<1>2. /\ UNCHANGED <<main, remote, prHead, gen, made, synced, task, reviewed, passed>>
      /\ UNCHANGED <<orphans, landed, comment, label, journal, ci>> /\ mutex' = r
  BY <1>1 DEF gitVars, genVars, githubVars, EnterPushGuard, ciVars
<1>3. PICK t \in PubRecord :
          /\ t.step = "pushing" /\ t.goal = pub[r].goal /\ t.head = pub[r].head
          /\ t.valid = pub[r].valid
          /\ pub' = [pub EXCEPT ![r] = t]
  BY <1>1, PubTerms DEF PubStep
<1>4. StoreTypeOK' /\ owner' = owner /\ work' = work
  BY <1>1, StoreOperation DEF PushOp
<1>5. Honest(r, t)'
  BY <1>1, <1>2, <1>3, <1>4, Publishing DEF Honest, Presenting
<1>6. /\ pub' \in [Run -> PubRecord] /\ pub'[r] = t
      /\ \A q \in Run : Honest(q, pub[q])'
  BY <1>1, <1>2, <1>3, <1>4, <1>5, HonestMoves
<1>7. JournalKept' /\ CiKept' /\ PublishedWorkHasJournal'
  BY <1>2, <1>4, RecordsAlone, CiAlone
<1>8. GenerationInv'
  BY <1>1, <1>2, <1>4, GenerationUntouched
<1>9. /\ push' \in [Run -> {"none", "sent", "ok", "rejected"}] /\ push'[r] = "sent"
      /\ \A q \in Run \ {r} : push'[q] = "none"
  BY <1>1, NoFlight
<1>10. \A q \in Run : InFlight(q)'
  <2>1. synced # NoHead
    BY <1>1 DEF PublicationInv, JournalKept, GenerationInv, CommitsKept
  <2> QED BY <1>1, <1>2, <1>3, <1>4, <1>6, <1>9, <2>1 DEF InFlight
<1>11. PublicationTypeOK'
  BY <1>2, <1>6, <1>8, <1>9
  DEF PublicationInv, GenerationInv, PublicationTypeOK, PubRecord
<1>12. BranchKept' /\ ClaimsAreTrue'
  BY <1>2 DEF PublicationInv, BranchKept, OnlyReviewedLands, Replaces, ClaimsAreTrue
<1> QED BY <1>6, <1>7, <1>8, <1>10, <1>11, <1>12 DEF PublicationInv

\* The packet of a push under way replaces a branch by a reviewed commit made
\* from it.
LEMMA PacketReplaces ==
  ASSUME PublicationInv, NEW r \in Run, push[r] # "none"
  PROVE  Replaces(Packet) /\ Packet \in [old : Head, new : Head]
<1>1. journal[Pr].new \in reviewed /\ made[journal[Pr].new].prepared = synced
  BY DEF PublicationInv, InFlight, JournalKept
<1>2. journal[Pr].new \in Curated /\ synced # NoHead
  BY <1>1 DEF PublicationInv, InFlight, GenerationInv, CommitsKept
<1>3. /\ made[synced].selected = made[journal[Pr].new].selected
      /\ made[journal[Pr].new].selected \in Head
  BY <1>1, <1>2 DEF PublicationInv, GenerationInv, CommitsKept
<1>4. Packet.old = made[synced].selected /\ Packet.new = journal[Pr].new
  BY DEF Packet
<1>5. Packet \in [old : Head, new : Head]
  BY <1>2, <1>3 DEF Packet, Curated
<1> QED BY <1>1, <1>3, <1>4, <1>5 DEF Replaces

\* Nothing but the branch moves when a push arrives.
LEMMA ArrivalStep ==
  ASSUME PublicationInv, remote' \in Head, landed' = landed \cup {remote'},
         remote' = remote \/ remote' \in reviewed \/ remote' \in Author,
         UNCHANGED <<storeVars, main, prHead, genVars, pub, githubVars>>,
         push' \in [Run -> {"none", "sent", "ok", "rejected"}],
         orphans' \subseteq orphans,
         \A q \in Run : InFlight(q)'
  PROVE  PublicationInv'
<1> USE PublicationFacts
<1>1. /\ UNCHANGED <<owner, mutex, work, journal, ci, main, prHead, pub, comment, label>>
      /\ UNCHANGED <<gen, made, synced, picking, task, reviewed, passed>>
  BY DEF storeVars, genVars, githubVars, ciVars
<1>2. StoreTypeOK'
  BY StoreStands DEF storeVars
<1>3. GenerationInv'
  BY <1>1, <1>2, GenerationUntouched
<1>4. JournalKept' /\ CiKept' /\ PublishedWorkHasJournal'
  BY <1>1, RecordsAlone, CiAlone
<1>5. landed \subseteq landed' /\ landed' \subseteq Head
  BY DEF PublicationInv, PublicationTypeOK
<1>6. \A q \in Run : Honest(q, pub[q])'
  BY <1>1, <1>5 DEF PublicationInv, Honest
<1>7. PublicationTypeOK'
  BY <1>1, <1>3, <1>5 DEF PublicationInv, GenerationInv, PublicationTypeOK, PubRecord
<1>8. BranchKept' /\ ClaimsAreTrue'
  BY <1>1
  DEF PublicationInv, BranchKept, OnlyReviewedLands, Replaces, ClaimsAreTrue, Curated
<1> QED BY <1>3, <1>4, <1>6, <1>7, <1>8 DEF PublicationInv

\* A push that arrives while its command waits, or after it died.
LEMMA PushArrivesStep ==
  ASSUME PublicationInv,
         \/ \E r \in Run : PushArrives(r)
         \/ OrphanArrives
         \/ AuthorPush /\ landed' = landed \cup {remote'}
                       /\ UNCHANGED <<pub, push, orphans, githubVars>>
  PROVE  PublicationInv'
<1> USE PublicationFacts
<1>1. remote \in landed
  BY DEF PublicationInv, BranchKept
<1>2. ASSUME NEW r \in Run, PushArrives(r) PROVE PublicationInv'
  <2>1. /\ push[r] = "sent" /\ orphans' = orphans
        /\ UNCHANGED <<storeVars, main, prHead, genVars, pub, githubVars>>
        /\ UNCHANGED <<owner, mutex, journal, synced, made>>
    BY <1>2 DEF PushArrives, storeVars, genVars
  <2>2. Packet.new \in Head /\ Packet.new \in reviewed /\ Packet.new = journal[Pr].new
    BY <2>1, PacketReplaces DEF Replaces, Packet
  <2>3. /\ remote' \in Head /\ landed' = landed \cup {remote'}
        /\ remote' = remote \/ remote' \in reviewed
        /\ push' \in [Run -> {"none", "sent", "ok", "rejected"}]
        /\ push'[r] = "ok" => journal[Pr].new \in landed'
        /\ \A q \in Run \ {r} : push'[q] = push[q]
    BY <1>1, <1>2, <2>2 DEF PushArrives
  <2>4. landed \subseteq landed'
    BY <2>3
  <2>5. \A q \in Run : InFlight(q)'
    BY <2>1, <2>3, <2>4 DEF PublicationInv, InFlight
  <2> QED BY <2>1, <2>3, <2>5, ArrivalStep
<1>3. CASE OrphanArrives
  <2>1. PICK p \in orphans :
            /\ orphans' = orphans \ {p}
            /\ IF remote = p.old THEN remote' = p.new /\ landed' = landed \cup {p.new}
                                 ELSE UNCHANGED <<remote, landed>>
            /\ UNCHANGED <<storeVars, main, prHead, genVars, pub, push, githubVars>>
    BY <1>3 DEF OrphanArrives
  <2>2. p.new \in reviewed
    BY DEF PublicationInv, BranchKept, Replaces
  <2>3. /\ remote' \in Head /\ landed' = landed \cup {remote'}
        /\ remote' = remote \/ remote' \in reviewed
    BY <1>1, <2>1, <2>2
  <2>4. UNCHANGED <<owner, mutex, journal, synced, made, pub, push>> /\ landed \subseteq landed'
    BY <2>1, <2>3 DEF storeVars, genVars
  <2>5. \A q \in Run : InFlight(q)'
    BY <2>4 DEF PublicationInv, InFlight
  <2> QED BY <2>1, <2>3, <2>4, <2>5, ArrivalStep
<1>4. CASE AuthorPush /\ landed' = landed \cup {remote'}
                      /\ UNCHANGED <<pub, push, orphans, githubVars>>
  <2>1. /\ remote' \in Author /\ remote' \in Head
        /\ UNCHANGED <<storeVars, main, prHead, genVars>>
    BY <1>4, GenerationAssumption DEF AuthorPush
  <2>2. UNCHANGED <<owner, mutex, journal, synced, made, pub, push>> /\ landed \subseteq landed'
    BY <1>4, <2>1 DEF storeVars, genVars
  <2>3. \A q \in Run : InFlight(q)'
    BY <2>2 DEF PublicationInv, InFlight
  <2> QED BY <1>4, <2>1, <2>2, <2>3, ArrivalStep
<1> QED BY <1>2, <1>3, <1>4

-----------------------------------------------------------------------------
(* Commands that return from the outside, or end.                          *)

\* A command that comes back from git or GitHub, or ends, keeps the invariant if
\* no push of another command is disturbed and what GitHub shows is true.
LEMMA QuietStep ==
  ASSUME PublicationInv, NEW r \in Run, LeaveGuard(r) \/ UNCHANGED storeVars,
         UNCHANGED <<gitVars, genVars, landed>>,
         NEW t \in PubRecord, pub' = [pub EXCEPT ![r] = t], Honest(r, t)',
         push' \in [Run -> {"none", "sent", "ok", "rejected"}], push'[r] = "none",
         \A q \in Run \ {r} : push'[q] = push[q],
         \A p \in orphans' \ orphans : p \in [old : Head, new : Head] /\ Replaces(p),
         comment' \in [reviewed : MaybeHead, validated : MaybeHead, outcome : MaybeHead],
         label' \in [state : {"none", "waiting-ci", "ready", "hold", "outcome"},
                     head : MaybeHead],
         ClaimsAreTrue'
  PROVE  PublicationInv'
<1> USE PublicationFacts
<1>1. /\ UNCHANGED <<main, remote, prHead, gen, made, synced, task, reviewed, passed>>
      /\ UNCHANGED <<landed, journal, ci>>
      /\ mutex' = mutex \/ mutex = r
  BY DEF gitVars, genVars, LeaveGuard, storeVars, ciVars
<1>2. StoreTypeOK' /\ owner' = owner /\ work' = work
  BY StoreOperation
<1>3. /\ pub' \in [Run -> PubRecord] /\ \A q \in Run \ {r} : pub'[q] = pub[q]
      /\ \A q \in Run : Honest(q, pub[q])'
  BY <1>1, <1>2, HonestMoves
<1>4. JournalKept' /\ CiKept' /\ PublishedWorkHasJournal'
  BY <1>1, <1>2, RecordsAlone, CiAlone
<1>5. GenerationInv'
  BY <1>1, <1>2, GenerationUntouched
<1>6. ASSUME NEW q \in Run PROVE InFlight(q)'
  <2>1. CASE q = r
    BY <2>1 DEF InFlight
  <2>2. CASE q # r
    <3>1. InFlight(q) /\ push'[q] = push[q] /\ pub'[q] = pub[q]
      BY <1>3, <2>2 DEF PublicationInv
    <3>2. push[q] # "none" => mutex' = mutex
      BY <1>1, <2>2, <3>1 DEF InFlight
    <3> QED BY <1>1, <1>2, <3>1, <3>2 DEF InFlight
  <2> QED BY <2>1, <2>2
<1>7. orphans' \subseteq [old : Head, new : Head]
  BY DEF PublicationInv, PublicationTypeOK
<1>8. PublicationTypeOK'
  BY <1>1, <1>3, <1>5, <1>7
  DEF PublicationInv, GenerationInv, PublicationTypeOK, PubRecord
<1>9. BranchKept'
  BY <1>1 DEF PublicationInv, BranchKept, OnlyReviewedLands, Replaces
<1> QED BY <1>3, <1>4, <1>5, <1>6, <1>8, <1>9 DEF PublicationInv

\* A push that landed lets its command record that; a rejected one ends it.
LEMMA PushReturnsStep ==
  ASSUME PublicationInv, NEW r \in Run, PushReturns(r)
  PROVE  PublicationInv'
<1> USE PublicationFacts
<1>1. /\ push[r] \in {"ok", "rejected"} /\ LeaveGuard(r)
      /\ push' = [push EXCEPT ![r] = "none"]
      /\ UNCHANGED <<gitVars, genVars, orphans, landed, comment, label>>
      /\ UNCHANGED <<owner, journal, task, passed>>
  BY DEF PushReturns, githubVars, LeaveGuard, leaseVars, genVars
<1>2. /\ owner = r /\ pub[r].step = "pushing"
      /\ push[r] = "ok" => journal[Pr].new \in landed
  BY <1>1 DEF PublicationInv, InFlight
<1>3. PICK t \in PubRecord :
          /\ pub' = [pub EXCEPT ![r] = t]
          /\ \/ t = NoPub
             \/ /\ push[r] = "ok" /\ t.step = "advance" /\ t.goal = pub[r].goal
                /\ t.head = pub[r].head /\ t.valid = pub[r].valid
  BY PubTerms DEF PushReturns, PubStep
<1>4. Honest(r, t)'
  BY <1>1, <1>2, <1>3, Publishing, PubTerms DEF Honest, Presenting
<1>5. ClaimsAreTrue'
  BY <1>1 DEF PublicationInv, ClaimsAreTrue
<1> QED BY <1>1, <1>3, <1>4, <1>5, QuietStep DEF PublicationInv, PublicationTypeOK

\* A command that dies leaves its push to itself.
LEMMA PubStopStep ==
  ASSUME PublicationInv, NEW r \in Run, PubStop(r)
  PROVE  PublicationInv'
<1> USE PublicationFacts
<1>1. /\ LeaveGuard(r) \/ UNCHANGED storeVars
      /\ pub' = [pub EXCEPT ![r] = NoPub] /\ push' = [push EXCEPT ![r] = "none"]
      /\ orphans' = IF push[r] = "sent" THEN orphans \cup {Packet} ELSE orphans
      /\ UNCHANGED <<gitVars, genVars, landed, comment, label, passed>>
  BY DEF PubStop, PubDone, Unguard, githubVars, genVars
<1>2. NoPub \in PubRecord /\ Honest(r, NoPub)'
  BY PubTerms DEF Honest, Presenting
<1>3. \A p \in orphans' \ orphans : p \in [old : Head, new : Head] /\ Replaces(p)
  BY <1>1, PacketReplaces
<1>4. ClaimsAreTrue'
  BY <1>1 DEF PublicationInv, ClaimsAreTrue
<1> QED BY <1>1, <1>2, <1>3, <1>4, QuietStep DEF PublicationInv, PublicationTypeOK

\* A comment or a label that reaches the pull request tells what was judged, even
\* when the lease was lost in between.
LEMMA MutationStep ==
  ASSUME PublicationInv, NEW r \in Run, Comment(r) \/ Label(r)
  PROVE  PublicationInv'
<1> USE PublicationFacts
<1>1. /\ pub[r].step \in {"commenting", "labelling"}
      /\ LeaveGuard(r) \/ UNCHANGED storeVars
      /\ UNCHANGED <<gitVars, genVars, landed, push, orphans, passed, owner, task>>
  BY DEF Comment, Label, Unguard, pushVars, genVars, LeaveGuard, leaseVars, storeVars
<1>2. /\ pub[r] \in PubRecord /\ pub[r].goal \in Presented
      /\ pub[r].valid \in passed \cup {NoHead}
      /\ pub[r].goal \in {"waiting-ci", "ready"} => pub[r].head \in passed
  BY <1>1, Publishing DEF Presenting
<1>3. PICK t \in PubRecord :
          /\ pub' = [pub EXCEPT ![r] = t]
          /\ t.step \in {"label", "settle"} /\ t.goal = pub[r].goal
          /\ t.head = pub[r].head /\ t.valid = pub[r].valid
  BY PubTerms DEF Comment, Label, PubStep
<1>4. Honest(r, t)'
  BY <1>1, <1>2, <1>3, Publishing DEF Honest, Presenting
<1>5. push[r] = "none"
  BY <1>1 DEF PublicationInv, InFlight
<1>6. CASE Comment(r)
  <2>1. label' = label
    BY <1>6 DEF Comment
  <2>2. /\ comment' \in [reviewed : MaybeHead, validated : MaybeHead, outcome : MaybeHead]
        /\ comment'.validated \in {comment.validated, pub[r].valid}
    <3>1. comment \in [reviewed : MaybeHead, validated : MaybeHead, outcome : MaybeHead]
      BY DEF PublicationInv, PublicationTypeOK
    <3>2. CASE pub[r].goal = "outcome"
      BY <1>2, <1>6, <3>1, <3>2 DEF Comment, PubRecord
    <3>3. CASE pub[r].goal # "outcome"
      BY <1>2, <1>6, <3>3 DEF Comment, PubRecord, MaybeHead
    <3> QED BY <3>2, <3>3
  <2>3. ClaimsAreTrue'
    BY <1>1, <1>2, <2>1, <2>2 DEF PublicationInv, ClaimsAreTrue
  <2> QED BY <1>1, <1>3, <1>4, <1>5, <2>1, <2>2, <2>3, QuietStep
          DEF PublicationInv, PublicationTypeOK
<1>7. CASE Label(r)
  <2>1. comment' = comment /\ label' = [state |-> pub[r].goal, head |-> pub[r].head]
    BY <1>7 DEF Label
  <2>2. label' \in [state : {"none", "waiting-ci", "ready", "hold", "outcome"},
                    head : MaybeHead]
    BY <1>2, <2>1 DEF PubRecord, Presented
  <2>3. ClaimsAreTrue'
    BY <1>1, <1>2, <2>1 DEF PublicationInv, ClaimsAreTrue
  <2> QED BY <1>1, <1>3, <1>4, <1>5, <2>1, <2>2, <2>3, QuietStep
          DEF PublicationInv, PublicationTypeOK
<1> QED BY <1>6, <1>7

-----------------------------------------------------------------------------
(* publish state and publish outcome.                                      *)

\* A command that plans what to present, before it touches GitHub, writes the
\* continuation only.
LEMMA PlanStep ==
  ASSUME PublicationInv, NEW r \in Run, owner = r, mutex = NoRun,
         NEW t \in PubRecord, pub' = [pub EXCEPT ![r] = t], Honest(r, t)',
         UNCHANGED unpublished,
         \/ UNCHANGED storeVars
         \/ CiOp(r, Pr) /\ CiKept'
         \/ EnterPushGuard(r, Pr)
  PROVE  PublicationInv'
<1>1. /\ UNCHANGED <<reviewed, passed, landed, genVars, main, remote, prHead>>
      /\ remote \in Head
  BY PublicationFacts DEF unpublished, genVars, pushVars, gitVars
<1>2. /\ StoreTypeOK' /\ owner' = owner /\ work' = work
  BY StoreOperation DEF PushOp
<1>3. journal' = journal
  BY DEF CiOp, StartCi, AdvanceCi, RecordCiTime, AdoptCi, AdoptCiForPush, storeVars,
         EnterPushGuard
<1>4. CiKept'
  BY <1>1, CiAlone DEF storeVars, EnterPushGuard, ciVars
<1>5. JournalKept' /\ PublishedWorkHasJournal'
  BY <1>1, <1>2, <1>3, RecordsAlone
<1>6. GenerationInv'
  BY <1>1, <1>2, GenerationUntouched
<1> QED BY <1>2, <1>4, <1>5, <1>6, RecordsStep

\* A successor that adopts the continuation leaves its heads.
LEMMA AdoptKeeps ==
  ASSUME PublicationInv, NEW r \in Run, AdoptCi(r, Pr), UNCHANGED unpublished
  PROVE  CiOp(r, Pr) /\ CiKept'
<1>1. /\ ci' = [ci EXCEPT ![Pr].recovery = r]
      /\ UNCHANGED <<passed, landed>>
  BY DEF AdoptCi, unpublished, genVars, pushVars
<1>2. /\ ci'[Pr].semantic = ci[Pr].semantic /\ ci'[Pr].current = ci[Pr].current
      /\ ci'[Pr].phase = ci[Pr].phase
  BY <1>1, PublicationFacts DEF StoreTypeOK, CiContinuation
<1> QED BY <1>1, <1>2, CiAlone DEF CiOp

\* A command that is going to present a head knows nothing of it yet.
LEMMA StateStartStep ==
  ASSUME PublicationInv, NEW r \in Run,
         OutcomeStart(r) \/ \E goal \in Goal, h \in Head : StateStart(r, goal, h)
  PROVE  PublicationInv'
<1> USE PublicationFacts
<1>1. /\ owner = r /\ mutex = NoRun /\ UNCHANGED unpublished
      /\ AdoptCi(r, Pr) \/ UNCHANGED storeVars
  BY DEF OutcomeStart, StateStart, Free, At, PubAt
<1>2. task[r].step = "idle"
  BY Publishing DEF OutcomeStart, StateStart, Free, At, PubAt
<1>3. UNCHANGED <<owner, task, passed>>
  BY <1>1, StoreOperation DEF unpublished, genVars, CiOp
<1>4. PICK t \in PubRecord :
          /\ pub' = [pub EXCEPT ![r] = t]
          /\ t.step \in {"handoff", "comment"} /\ t.goal \in Presented
          /\ t.valid \in passed \cup {NoHead}
          /\ t.goal # "outcome" => t.step = "handoff" /\ t.head \in Head
  <2>1. CASE OutcomeStart(r)
    <3> DEFINE t(a) == [step |-> "comment", goal |-> "outcome", head |-> prHead,
                        valid |-> comment.validated, adopt |-> a]
    <3>1. comment.validated \in passed \cup {NoHead} /\ comment.validated \in MaybeHead
      BY DEF PublicationInv, ClaimsAreTrue, PublicationTypeOK
    <3>2. \A a \in BOOLEAN : t(a) \in PubRecord
      BY <3>1 DEF PubRecord, PubStep, Goal, MaybeHead
    <3>3. PICK a \in BOOLEAN : pub' = [pub EXCEPT ![r] = t(a)]
      BY <2>1 DEF OutcomeStart
    <3> QED BY <3>1, <3>2, <3>3 DEF Presented
  <2>2. ASSUME NEW goal \in Goal, NEW h \in Head, StateStart(r, goal, h)
        PROVE  \E t \in PubRecord :
                   /\ pub' = [pub EXCEPT ![r] = t]
                   /\ t.step \in {"handoff", "comment"} /\ t.goal \in Presented
                   /\ t.valid \in passed \cup {NoHead}
                   /\ t.goal # "outcome" => t.step = "handoff" /\ t.head \in Head
    <3> DEFINE t(a) == [step |-> "handoff", goal |-> goal, head |-> h,
                        valid |-> NoHead, adopt |-> a]
    <3>1. goal \in Presented
      BY <2>2, Publishing DEF StateStart, PubAt, Presented, Presenting
    <3>2. \A a \in BOOLEAN : t(a) \in PubRecord
      BY DEF PubRecord, PubStep, MaybeHead
    <3>3. PICK a \in BOOLEAN : pub' = [pub EXCEPT ![r] = t(a)]
      BY <2>2 DEF StateStart
    <3> QED BY <3>1, <3>2, <3>3
  <2> QED BY <2>1, <2>2
<1>5. Honest(r, t)'
  BY <1>1, <1>2, <1>3, <1>4 DEF Honest, Presenting
<1> QED BY <1>1, <1>4, <1>5, PlanStep, AdoptKeeps

\* Only a validated head that was pushed is handed to a continuation.
LEMMA StateHandOffStep ==
  ASSUME PublicationInv, NEW r \in Run, StateHandOff(r)
  PROVE  PublicationInv'
<1> USE PublicationFacts
<1> DEFINE h == pub[r].head
<1>1. /\ owner = r /\ mutex = NoRun /\ UNCHANGED unpublished /\ pub[r].step = "handoff"
      /\ UNCHANGED <<task, passed, landed>>
  BY DEF StateHandOff, PubAt, unpublished, genVars, pushVars
<1>2. PICK t \in PubRecord :
          /\ pub' = [pub EXCEPT ![r] = t]
          /\ \/ t = NoPub
             \/ /\ t.step = "observe" /\ t.goal = pub[r].goal
                /\ t.head = pub[r].head /\ t.valid = pub[r].valid
  <2>1. PubGoto(r, "observe") \/ PubDone(r)
    BY DEF StateHandOff
  <2> QED BY <2>1, PubTerms DEF PubStep
<1>3. ASSUME StartCi(r, Pr, h), CanHandOff(r, h), HandsOff(r, h) PROVE CiOp(r, Pr) /\ CiKept'
  <2>1. h \in passed /\ h \in landed /\ h \in Head
    <3>1. h # NoHead
      BY <1>3 DEF StartCi
    <3>2. h \in passed
      BY <1>3, <3>1 DEF CanHandOff, PublicationInv, GenerationInv, WorkKept
    <3>3. h \in landed
      BY <1>3 DEF HandsOff, Matching, PublicationInv, JournalKept, JournalTellsTruth
    <3> QED BY <3>2, <3>3
  <2>2. \/ ci' = [ci EXCEPT ![Pr] = InitialCi(r, h)]
        \/ ci' = ci
    BY <1>3 DEF StartCi
  <2>3. CASE ci' = ci
    BY <1>1, <2>1, <2>3, <1>3, CiAlone DEF CiOp
  <2>4. CASE ci' = [ci EXCEPT ![Pr] = InitialCi(r, h)]
    <3>1. ci'[Pr] = InitialCi(r, h)
      BY <2>4 DEF StoreTypeOK
    <3>2. ci'[Pr].semantic = h /\ ci'[Pr].current = h
      BY <3>1 DEF InitialCi
    <3>3. CiKept'
      BY <1>1, <2>1, <3>2 DEF CiKept, WaitsForValidated
    <3> QED BY <1>3, <2>1, <3>3 DEF CiOp
  <2> QED BY <2>2, <2>3, <2>4
<1>4. UNCHANGED storeVars \/ (CiOp(r, Pr) /\ CiKept')
  BY <1>3 DEF StateHandOff
<1>5. owner' = owner
  BY <1>4, StoreOperation
<1>6. Honest(r, t)'
  BY <1>1, <1>2, <1>5, Publishing, PubTerms DEF Honest, Presenting
<1> QED BY <1>1, <1>2, <1>4, <1>6, PlanStep

\* The evidence of a plan is a head that passed validation, or none.
LEMMA EvidencePassed ==
  ASSUME PublicationInv, NEW r \in Run, NEW h \in MaybeHead,
         Waiting => h = ci[Pr].current
  PROVE  Evidence(r, h) \in passed \cup {NoHead}
<1> USE PublicationFacts
<1>1. Waiting => ci[Pr].current \in passed
  BY DEF Waiting, PublicationInv, CiKept, WaitsForValidated
<1>2. work[Pr].validated \in passed \cup {NoHead}
  BY DEF PublicationInv, GenerationInv, WorkKept
<1>3. comment.validated \in passed \cup {NoHead}
  BY DEF PublicationInv, ClaimsAreTrue
<1>4. CASE Waiting
  BY <1>1, <1>4 DEF Evidence
<1>5. CASE ~Waiting /\ work[Pr].validated = h /\ (work[Pr].run = r \/ Matching(r, h))
  BY <1>2, <1>5 DEF Evidence
<1>6. CASE ~Waiting /\ ~ (work[Pr].validated = h /\ (work[Pr].run = r \/ Matching(r, h)))
  BY <1>3, <1>6 DEF Evidence
<1> QED BY <1>4, <1>5, <1>6

\* A plan to call a head ready or waiting has evidence that it was validated.
LEMMA StatePlanStep ==
  ASSUME PublicationInv, NEW r \in Run, StatePlan(r)
  PROVE  PublicationInv'
<1> USE PublicationFacts
<1>1. /\ owner = r /\ mutex = NoRun /\ UNCHANGED unpublished /\ pub[r].step = "observe"
      /\ UNCHANGED <<task, passed, landed>>
      /\ RecordCiTime(r, Pr) \/ UNCHANGED storeVars
  BY DEF StatePlan, PubAt, unpublished, genVars, pushVars
<1>2. PICK v \in passed \cup {NoHead} :
          /\ pub' = [pub EXCEPT ![r].step = "comment", ![r].valid = v]
          /\ pub[r].goal \in {"waiting-ci", "ready"} => v = pub[r].head
  <2>1. pub[r].head \in MaybeHead
    BY DEF PubRecord
  <2>2. Evidence(r, pub[r].head) \in passed \cup {NoHead}
    BY <2>1, EvidencePassed DEF StatePlan
  <2> QED BY <2>2 DEF StatePlan
<1>3. PICK t \in PubRecord :
          /\ pub' = [pub EXCEPT ![r] = t]
          /\ t.step = "comment" /\ t.goal = pub[r].goal /\ t.head = pub[r].head
          /\ t.valid = v
  <2> DEFINE t == [pub[r] EXCEPT !.step = "comment", !.valid = v]
  <2>0. pub[r] \in PubRecord /\ "comment" \in PubStep /\ v \in MaybeHead
    BY DEF PubStep, MaybeHead
  <2>1. /\ t \in PubRecord /\ t.step = "comment" /\ t.goal = pub[r].goal
        /\ t.head = pub[r].head /\ t.valid = v
    BY <2>0 DEF PubRecord
  <2>2. pub' = [pub EXCEPT ![r] = t]
    BY <1>2
  <2> HIDE DEF t
  <2> QED BY <2>1, <2>2
<1>4. pub[r].goal \in {"waiting-ci", "ready"} => pub[r].head \in passed
  BY <1>1, <1>2, Publishing
<1>5. UNCHANGED storeVars \/ (CiOp(r, Pr) /\ CiKept')
  <2>1. ASSUME RecordCiTime(r, Pr) PROVE CiOp(r, Pr) /\ CiKept'
    <3>1. ci' = [ci EXCEPT ![Pr].beats = @ + 1]
      BY <2>1 DEF RecordCiTime
    <3>2. /\ ci'[Pr].semantic = ci[Pr].semantic /\ ci'[Pr].current = ci[Pr].current
          /\ ci'[Pr].phase = ci[Pr].phase
      BY <3>1 DEF StoreTypeOK, CiContinuation
    <3> QED BY <1>1, <2>1, <3>2, CiAlone DEF CiOp
  <2> QED BY <1>1, <2>1
<1>6. owner' = owner
  BY <1>5, StoreOperation
<1>7. Honest(r, t)'
  BY <1>1, <1>2, <1>3, <1>4, <1>6, Publishing DEF Honest, Presenting
<1> QED BY <1>1, <1>3, <1>5, <1>7, PlanStep

\* A mutation is sent under the guard of the journal, if the run has one.
LEMMA MutationStartStep ==
  ASSUME PublicationInv, NEW r \in Run, CommentStart(r) \/ LabelStart(r)
  PROVE  PublicationInv'
<1> USE PublicationFacts
<1>1. /\ owner = r /\ mutex = NoRun /\ UNCHANGED unpublished
      /\ pub[r].step \in {"comment", "label"} /\ UNCHANGED <<task, passed, landed>>
      /\ EnterPushGuard(r, Pr) \/ UNCHANGED storeVars
  BY DEF CommentStart, LabelStart, Guard, PubAt, unpublished, genVars, pushVars
<1>2. PICK t \in PubRecord :
          /\ pub' = [pub EXCEPT ![r] = t]
          /\ t.step \in {"commenting", "labelling"} /\ t.goal = pub[r].goal
          /\ t.head = pub[r].head /\ t.valid = pub[r].valid
  BY PubTerms DEF CommentStart, LabelStart, PubStep
<1>3. owner' = owner
  BY <1>1, StoreOperation DEF PushOp
<1>4. Honest(r, t)'
  BY <1>1, <1>2, <1>3, Publishing DEF Honest, Presenting
<1> QED BY <1>1, <1>2, <1>4, PlanStep

\* The records that follow a presented head agree with it.
LEMMA SettleStep ==
  ASSUME PublicationInv, NEW r \in Run, Settle(r)
  PROVE  PublicationInv'
<1> USE PublicationFacts
<1>1. /\ owner = r /\ mutex = NoRun /\ UNCHANGED unpublished
      /\ pub[r].step = "settle"
      /\ UNCHANGED <<task, reviewed, passed, landed, genVars, main, remote, prHead>>
  BY DEF Settle, PubAt, unpublished, genVars, pushVars, gitVars
<1>2. pub[r] \in PubRecord /\ Honest(r, pub[r]) /\ pub = [pub EXCEPT ![r] = pub[r]]
  BY DEF PublicationInv
<1>3. NoPub \in PubRecord /\ Honest(r, NoPub)'
  BY PubTerms DEF Honest, Presenting
<1>4. CASE SettleJournal(r)
  <2>1. /\ journal[Pr].phase = "pushed" /\ AdvancePush(r, Pr) /\ pub' = pub
        /\ journal' = [journal EXCEPT ![Pr].phase = NextPush(Pr, @)] /\ ci' = ci
    BY <1>4 DEF SettleJournal, Pushed, AdvancePush, ciVars
  <2>2. StoreTypeOK' /\ owner' = owner /\ work' = work
    BY <2>1, StoreOperation DEF PushOp
  <2>3. /\ NextPush(Pr, "pushed") = "published" /\ journal[Pr].new \in landed
    BY <2>1, GenerationAssumption
    DEF NextPush, PublicationInv, JournalKept, JournalTellsTruth
  <2>4. /\ journal'[Pr].phase = "published" /\ journal'[Pr].new = journal[Pr].new
        /\ journal'[Pr].origin = journal[Pr].origin
    BY <2>1, <2>3 DEF StoreTypeOK, PushJournal
  <2>5. JournalKept' /\ CiKept' /\ PublishedWorkHasJournal'
    BY <1>1, <2>1, <2>2, <2>3, <2>4, CiAlone
    DEF PublicationInv, JournalKept, JournalTellsTruth, PublishedWorkHasJournal
  <2>6. Honest(r, pub[r])'
    BY <1>1, <1>2, <2>1, <2>2 DEF Honest
  <2>7. GenerationInv'
    BY <1>1, <2>2, GenerationUntouched
  <2>8. pub' = [pub EXCEPT ![r] = pub[r]] /\ pub'[r] = pub[r]
    BY <1>2, <2>1
  <2>9. PICK t \in PubRecord : t = pub[r] /\ t = pub'[r]
    BY <1>2, <2>1
  <2>10. Honest(r, t)'
    BY <2>6, <2>9
  <2>11. pub' = [pub EXCEPT ![r] = t]
    BY <2>8, <2>9
  <2> QED BY <1>1, <2>2, <2>5, <2>7, <2>10, <2>11, RecordsStep
<1>5. CASE SettleAdoption(r)
  <2>1. PICK t \in PubRecord :
            /\ pub' = [pub EXCEPT ![r] = t]
            /\ t.step = pub[r].step /\ t.goal = pub[r].goal
            /\ t.head = pub[r].head /\ t.valid = pub[r].valid
    <3> DEFINE t == [pub[r] EXCEPT !.adopt = FALSE]
    <3>1. /\ t \in PubRecord /\ t.step = pub[r].step /\ t.goal = pub[r].goal
          /\ t.head = pub[r].head /\ t.valid = pub[r].valid
      BY <1>2 DEF PubRecord
    <3>2. pub' = [pub EXCEPT ![r] = t]
      BY <1>5 DEF SettleAdoption
    <3> HIDE DEF t
    <3> QED BY <3>1, <3>2
  <2>2. AdoptCi(r, Pr) /\ owner' = owner
    BY <1>5, StoreOperation DEF SettleAdoption, CiOp
  <2>3. Honest(r, t)'
    BY <1>1, <2>1, <2>2, Publishing DEF Honest, Presenting
  <2> QED BY <1>1, <2>1, <2>2, <2>3, PlanStep, AdoptKeeps
<1>6. CASE SettleCi(r)
  <2>1. PICK phase \in {"consumed", "blocked"} :
            /\ AdvanceCi(r, Pr, phase, ci[Pr].current, ci[Pr].repair) /\ pub' = pub
            /\ ci[Pr].phase # "none"
    BY <1>6 DEF SettleCi, Ends, Waiting
  <2>2. CiOp(r, Pr)
    BY <2>1 DEF CiOp, CiContinuation, CiPhase
  <2> DEFINE c == [ci[Pr] EXCEPT !.phase = phase, !.current = ci[Pr].current,
                                 !.repair = ci[Pr].repair]
  <2>3. /\ ci' = [ci EXCEPT ![Pr] = c]
        /\ c.semantic = ci[Pr].semantic /\ c.current = ci[Pr].current
    BY <2>1 DEF AdvanceCi, CiContinuation
  <2>4. ci'[Pr] = c
    BY <2>3 DEF StoreTypeOK
  <2> HIDE DEF c
  <2>5. CiKept'
    BY <1>1, <2>1, <2>3, <2>4, CiAlone
  <2>6. owner' = owner
    BY <2>2, StoreOperation
  <2>7. PICK t \in PubRecord : t = pub[r] /\ t = pub'[r]
    BY <1>2, <2>1
  <2>8. Honest(r, t)'
    BY <1>1, <1>2, <2>6, <2>7 DEF Honest
  <2>9. pub' = [pub EXCEPT ![r] = t]
    BY <1>2, <2>1, <2>7
  <2> QED BY <1>1, <2>2, <2>5, <2>8, <2>9, PlanStep
<1>7. CASE SettleWork(r)
  <2>1. pub' = [pub EXCEPT ![r] = NoPub]
    BY <1>7 DEF SettleWork, PubDone
  <2>2. CASE SaveWork(r, Pr, work[Pr].reviewed, work[Pr].validated)
    BY <1>1, <1>3, <2>1, <2>2, SaveAgain, RecordsStep
  <2>3. CASE UNCHANGED storeVars
    BY <1>1, <1>3, <2>1, <2>3, PlanStep
  <2> QED BY <1>7, <2>2, <2>3 DEF SettleWork
<1> QED BY <1>4, <1>5, <1>6, <1>7 DEF Settle

-----------------------------------------------------------------------------
(* Curation commands, the author and the lease, between publications.      *)

\* A work record that becomes pushed or published matches a journal whose head
\* has been the branch's.
LEMMA SavedMatches ==
  ASSUME PublicationInv, NEW r \in Run, NEW h \in MaybeHead, NEW k \in MaybeHead,
         SaveWork(r, Pr, h, k), landed' = landed
  PROVE  PublishedWorkHasJournal'
<1> USE PublicationFacts
<1> DEFINE s == [work[Pr] EXCEPT !.phase = NextWork(@), !.reviewed = h, !.validated = k]
<1>1. /\ work' = [work EXCEPT ![Pr] = s] /\ journal' = journal
      /\ s.phase \in {"pushed", "published"} => JournalMatches(s, Pr)
  BY DEF SaveWork
<1>2. work'[Pr] = s
  BY <1>1 DEF StoreTypeOK
<1> HIDE DEF s
<1>3. s.phase \in {"pushed", "published"} =>
          journal[Pr].new = s.validated /\ journal[Pr].new \in landed
  BY <1>1 DEF JournalMatches, PublicationInv, JournalKept, JournalTellsTruth
<1> QED BY <1>1, <1>2, <1>3 DEF PublishedWorkHasJournal

\* What a curation command leaves to the publications of other runs.
LEMMA CurateFrame ==
  ASSUME PublicationInv, NEW r \in Run, Curate(r), landed' = landed
  PROVE  /\ UNCHANGED <<owner, mutex, journal, ci, gitVars>>
         /\ MadeGrows
         /\ reviewed \subseteq reviewed' /\ passed \subseteq passed'
         /\ \A q \in Run \ {r} : task'[q] = task[q]
         /\ mutex # NoRun => UNCHANGED <<made, synced>>
         /\ PublishedWorkHasJournal'
<1> USE PublicationFacts
<1>1. CASE Stop(r)
  <2>1. UNCHANGED <<storeVars, gitVars, made, synced, history>>
    BY <1>1 DEF Stop
  <2>2. \A q \in Run \ {r} : task'[q] = task[q]
    BY <1>1 DEF Stop, Done
  <2> QED BY <2>1, <2>2, SameGrows, RecordsAlone DEF storeVars, ciVars, history
<1>2. CASE ~Stop(r)
  <2>1. mutex = NoRun
    BY <1>2
    DEF Curate, Prepare, PrepareClose, PrepareBegin, PrepareSync, StartGeneration,
        PrepareResume, CanResume, PrepareRetry, PrepareRetryStale, PrepareMissing,
        PrepareRestore, PrepareReplay, CanContinueConflict, PrepareConflict,
        PrepareAbort, PrepareSupersede, RecordReview, CheckpointStart,
        CheckpointComplete, Validate, RecordValidation, CanPrepare, At
  <2>2. \A q \in Run \ {r} : task'[q] = task[q]
    BY <1>2
    DEF Curate, Prepare, PrepareClose, PrepareBegin, PrepareSync, StartGeneration,
        PrepareResume, PrepareRetry, PrepareRetryStale, PrepareMissing, PrepareRestore,
        PrepareReplay, PrepareConflict, PrepareAbort, PrepareSupersede, RecordReview,
        CheckpointStart, CheckpointComplete, Validate, RecordValidation, Goto, Done
  <2>3. /\ UNCHANGED <<gitVars>>
        /\ reviewed \subseteq reviewed' /\ passed \subseteq passed'
    BY <1>2
    DEF Curate, Prepare, PrepareClose, PrepareBegin, PrepareSync, StartGeneration,
        PrepareResume, PrepareRetry, PrepareRetryStale, PrepareMissing, PrepareRestore,
        PrepareReplay, PrepareConflict, PrepareAbort, PrepareSupersede, RecordReview,
        CheckpointStart, CheckpointComplete, Validate, RecordValidation, history
  <2>4. \/ UNCHANGED storeVars
        \/ \E h \in Head : BeginWork(r, Pr, h)
        \/ \E h, k \in MaybeHead : SaveWork(r, Pr, h, k)
    <3>1. /\ gen.head \in MaybeHead /\ work[Pr].reviewed \in MaybeHead
          /\ NoHead \in MaybeHead
      BY DEF CurationTypeOK, WorkState, MaybeHead
    <3>2. CASE PrepareBegin(r) \/ PrepareResume(r)
      <4>1. task[r].step = "begin" => task[r].head \in Head
        BY DEF PublicationInv, GenerationInv, TaskKept, Relies
      <4> QED BY <3>2, <4>1 DEF PrepareBegin, PrepareResume
    <3>3. CASE ~ (PrepareBegin(r) \/ PrepareResume(r))
      BY <1>2, <3>1, <3>3
      DEF Curate, Prepare, PrepareClose, PrepareSync, StartGeneration, PrepareRetry,
          PrepareRetryStale, PrepareMissing, PrepareRestore, PrepareReplay,
          PrepareConflict, PrepareAbort, PrepareSupersede, RecordReview,
          CheckpointStart, CheckpointComplete, Validate, RecordValidation
    <3> QED BY <3>2, <3>3
  <2>5. UNCHANGED <<owner, mutex, journal, ci>>
    BY <2>4 DEF BeginWork, SaveWork, storeVars, leaseVars, ciVars
  <2>6. PublishedWorkHasJournal'
    <3>1. CASE UNCHANGED storeVars
      BY <2>3, <3>1, RecordsAlone DEF storeVars
    <3>2. ASSUME NEW h \in Head, BeginWork(r, Pr, h) PROVE PublishedWorkHasJournal'
      BY <3>2, Begins DEF PublishedWorkHasJournal
    <3>3. ASSUME NEW h \in MaybeHead, NEW k \in MaybeHead, SaveWork(r, Pr, h, k)
          PROVE  PublishedWorkHasJournal'
      BY <3>3, SavedMatches
    <3> QED BY <2>4, <3>1, <3>2, <3>3
  <2>7. MadeGrows
    <3>1. CASE PrepareSync(r) \/ PrepareReplay(r)
      <4>1. PICK k \in Curated, m \in [selected : MaybeHead, base : Base \cup {NoBase},
                                       prepared : MaybeHead] :
                Fresh(k) /\ made' = [made EXCEPT ![k] = m]
        <5>1. ASSUME NEW x \in MaybeHead, NEW k \in Curated
              PROVE  [selected |-> x, base |-> main, prepared |-> k]
                         \in [selected : MaybeHead, base : Base \cup {NoBase},
                              prepared : MaybeHead]
          BY DEF MaybeHead
        <5>2. remote \in MaybeHead
          BY DEF MaybeHead
        <5>3. PrepareReplay(r) => selected \in MaybeHead
          <6>1. PrepareReplay(r) => gen.prepared \in Curated
            BY StagesApart
            DEF PrepareReplay, PublicationInv, GenerationInv, TaskKept, Relies, At,
                CanContinueConflict, Checkpointed, GenerationKept, IsPrepared, Open
          <6> QED BY <6>1 DEF selected, CurationTypeOK
        <5> QED BY <3>1, <5>1, <5>2, <5>3 DEF PrepareSync, PrepareReplay
      <4> QED BY <4>1, FreshGrows
    <3>2. CASE CheckpointStart(r)
      BY <3>2 DEF CheckpointStart, Fresh, MadeGrows, CurationTypeOK
    <3>3. CASE ~ (PrepareSync(r) \/ PrepareReplay(r) \/ CheckpointStart(r))
      BY <1>2, <3>3, SameGrows
      DEF Curate, Prepare, PrepareClose, PrepareBegin, StartGeneration, PrepareResume,
          PrepareRetry, PrepareRetryStale, PrepareMissing, PrepareRestore,
          PrepareConflict, PrepareAbort, PrepareSupersede, RecordReview,
          CheckpointComplete, Validate, RecordValidation
    <3> QED BY <3>1, <3>2, <3>3
  <2> QED BY <2>1, <2>2, <2>3, <2>5, <2>6, <2>7
<1> QED BY <1>1, <1>2

\* Curation commands of a run that publishes nothing leave every publication what
\* it knows.
LEMMA CurateStep ==
  ASSUME PublicationInv, NEW r \in Run, pub[r] = NoPub, Curate(r),
         UNCHANGED <<pub, pushVars, githubVars>>
  PROVE  PublicationInv'
<1> USE PublicationFacts
<1>1. UNCHANGED <<pub, push, orphans, landed, comment, label>>
  BY DEF pushVars, githubVars
<1>2. /\ UNCHANGED <<owner, mutex, journal, ci, remote>> /\ MadeGrows
      /\ reviewed \subseteq reviewed' /\ passed \subseteq passed'
      /\ \A q \in Run \ {r} : task'[q] = task[q]
      /\ mutex # NoRun => UNCHANGED <<made, synced>>
      /\ PublishedWorkHasJournal'
  BY <1>1, CurateFrame DEF gitVars
<1>3. GenerationInv'
  BY GenerationNextInv DEF GenerationNext, PublicationInv
<1>4. JournalKept' /\ CiKept' /\ ClaimsAreTrue'
  BY <1>1, <1>2, CiAlone
  DEF PublicationInv, JournalKept, JournalTellsTruth, ClaimsAreTrue
<1>5. BranchKept'
  <2>1. ASSUME NEW p \in orphans, Replaces(p) PROVE Replaces(p)'
    <3>1. p.new \in Curated /\ made[p.new].prepared # NoHead
      BY <2>1 DEF Replaces, PublicationInv, GenerationInv, CommitsKept
    <3>2. made'[p.new] = made[p.new]
      BY <1>2, <3>1, PreparedStays
    <3> QED BY <1>2, <2>1, <3>2 DEF Replaces
  <2> QED BY <1>1, <1>2, <2>1 DEF PublicationInv, BranchKept, OnlyReviewedLands
<1>6. ASSUME NEW q \in Run PROVE Honest(q, pub[q])'
  <2>1. CASE q = r
    BY <1>1, <2>1, PubTerms DEF Honest, Presenting
  <2>2. CASE q # r
    BY <1>1, <1>2, <2>2 DEF PublicationInv, Honest
  <2> QED BY <2>1, <2>2
<1>7. \A q \in Run : InFlight(q)'
  BY <1>1, <1>2 DEF PublicationInv, InFlight
<1>8. PublicationTypeOK'
  BY <1>1, <1>3 DEF PublicationInv, GenerationInv, PublicationTypeOK
<1> QED BY <1>2, <1>3, <1>4, <1>5, <1>6, <1>7, <1>8 DEF PublicationInv

\* The API, main and the lease leave the publications, too; a run that loses the
\* lease can still have one mutation under way.
LEMMA LeaseStep ==
  ASSUME PublicationInv,
         \/ (PrSync \/ MainAdvance \/ Acquire) /\ UNCHANGED <<pub, pushVars, githubVars>>
         \/ LosePublication
  PROVE  PublicationInv'
<1> USE PublicationFacts
<1>1. /\ UNCHANGED <<push, orphans, landed, comment, label, remote>>
      /\ UNCHANGED <<made, synced, reviewed, passed, journal, work, ci, mutex>>
  BY DEF pushVars, githubVars, PrSync, MainAdvance, Acquire, AcquireLease,
         LosePublication, Lose, LoseLease, genVars, gitVars, history, storeVars, ciVars
<1>2. GenerationInv'
  BY EnvironmentInv DEF PublicationInv, Environment, LosePublication
<1>3. JournalKept' /\ CiKept' /\ PublishedWorkHasJournal' /\ ClaimsAreTrue'
  BY <1>1, RecordsAlone, CiAlone DEF PublicationInv, ClaimsAreTrue
<1>4. BranchKept'
  BY <1>1 DEF PublicationInv, BranchKept, OnlyReviewedLands, Replaces
<1>5. NoPub \in PubRecord /\ NoPub.step = "idle" /\ NoPub.goal = "none" /\ NoPub.valid = NoHead
  BY PubTerms, StoreAssumption DEF NoPub, PubRecord, PubStep, Goal, MaybeHead
<1>6. CASE owner' = owner
  <2>1. UNCHANGED <<pub, task>>
    BY <1>6
    DEF PrSync, MainAdvance, Acquire, AcquireLease, LosePublication, Lose, LoseLease,
        genVars
  <2>2. \A q \in Run : Honest(q, pub[q])' /\ InFlight(q)'
    BY <1>1, <1>6, <2>1 DEF PublicationInv, Honest, InFlight
  <2>3. PublicationTypeOK'
    BY <1>1, <1>2, <2>1 DEF PublicationInv, GenerationInv, PublicationTypeOK
  <2> QED BY <1>2, <1>3, <1>4, <2>2, <2>3 DEF PublicationInv
<1>7. CASE owner' # owner
  <2>1. mutex = NoRun /\ \A q \in Run : push[q] = "none"
    BY <1>7, NoFlight
    DEF PrSync, MainAdvance, Acquire, AcquireLease, LosePublication, Lose, LoseLease,
        storeVars
  <2>2. /\ pub' \in [Run -> PubRecord]
        /\ \A q \in Run : /\ task'[q] = task[q] \/ task'[q].step = "idle"
                          /\ \/ pub'[q] = NoPub
                             \/ pub'[q] = pub[q] /\ pub[q].step # "advance"
    <3>1. CASE Acquire /\ UNCHANGED pub
      <4>1. owner = NoRun /\ task' = task
        BY <3>1 DEF Acquire, AcquireLease, genVars
      <4> QED BY <3>1, <4>1 DEF PublicationInv, Honest
    <3>2. CASE LosePublication
      <4>1. /\ owner \in Run /\ task' = [task EXCEPT ![owner] = Idle]
            /\ \/ pub' = [pub EXCEPT ![owner] = NoPub]
               \/ pub' = pub /\ pub[owner].step # "advance"
        BY <3>2 DEF LosePublication, Lose, LoseLease, Done, PubDone, StoreTypeOK, MaybeRun
      <4>2. \A q \in Run \ {owner} : pub[q].step # "advance"
        BY DEF PublicationInv, Honest
      <4>3. Idle.step = "idle"
        BY DEF Idle
      <4>4. \A q \in Run : task'[q] = task[q] \/ task'[q].step = "idle"
        BY <4>1, <4>3
      <4>5. pub' \in [Run -> PubRecord]
        BY <1>5, <4>1
      <4>6. \A q \in Run : \/ pub'[q] = NoPub
                           \/ pub'[q] = pub[q] /\ pub[q].step # "advance"
        BY <4>1, <4>2
      <4> QED BY <4>4, <4>5, <4>6
    <3> QED BY <1>7, <3>1, <3>2 DEF PrSync, MainAdvance, storeVars
  <2>3. ASSUME NEW q \in Run PROVE Honest(q, pub[q])'
    <3>1. CASE pub'[q] = NoPub
      BY <1>5, <3>1 DEF Honest, Presenting
    <3>2. CASE pub'[q] = pub[q] /\ pub[q].step # "advance"
      BY <1>1, <2>2, <3>2 DEF PublicationInv, Honest
    <3> QED BY <2>2, <3>1, <3>2
  <2>4. \A q \in Run : InFlight(q)'
    BY <1>1, <2>1 DEF InFlight
  <2>5. PublicationTypeOK'
    BY <1>1, <1>2, <2>2 DEF PublicationInv, GenerationInv, PublicationTypeOK, PubRecord
  <2> QED BY <1>2, <1>3, <1>4, <2>3, <2>4, <2>5 DEF PublicationInv
<1> QED BY <1>6, <1>7

-----------------------------------------------------------------------------
(* The theorems.                                                           *)

\* Every step of a publication, a curation command or the outside keeps the
\* invariant.
LEMMA PublicationNextInv ==
  PublicationInv /\ [PublicationNext]_publicationVars => PublicationInv'
<1> SUFFICES ASSUME PublicationInv, [PublicationNext]_publicationVars
             PROVE  PublicationInv'
  OBVIOUS
<1>1. ASSUME NEW r \in Run, Publish(r) PROVE PublicationInv'
  BY <1>1, PushStartStep, ConsumeStep, RecoverStartStep, StartPushStep, AdvanceStep,
     PushReturnsStep, RecordPushStep, StateHandOffStep, StatePlanStep, StateStartStep,
     MutationStartStep, MutationStep, SettleStep, PubStopStep
  DEF Publish
<1>2. CASE UNCHANGED publicationVars
  <2>1. UNCHANGED curationVars
    BY <1>2 DEF publicationVars
  <2>2. /\ UNCHANGED <<storeVars, gitVars, genVars, pub, push, orphans, landed>>
        /\ UNCHANGED <<comment, label, owner, mutex, journal, work, ci, task, made>>
        /\ UNCHANGED <<synced, reviewed, passed, remote>>
    BY <1>2 DEF publicationVars, curationVars, storeVars, gitVars, genVars, history,
                pushVars, githubVars, ciVars
  <2>3. GenerationInv'
    BY <2>1, GenerationNextInv DEF PublicationInv
  <2>4. JournalKept' /\ CiKept' /\ PublishedWorkHasJournal' /\ ClaimsAreTrue'
    BY <2>2, RecordsAlone, CiAlone DEF PublicationInv, ClaimsAreTrue
  <2>5. BranchKept' /\ \A q \in Run : Honest(q, pub[q])' /\ InFlight(q)'
    BY <2>2 DEF PublicationInv, BranchKept, OnlyReviewedLands, Replaces, Honest, InFlight
  <2>6. PublicationTypeOK'
    BY <2>2, <2>3 DEF PublicationInv, GenerationInv, PublicationTypeOK
  <2> QED BY <2>3, <2>4, <2>5, <2>6 DEF PublicationInv
<1> QED BY <1>1, <1>2, PushArrivesStep, CurateStep, LeaseStep DEF PublicationNext

\* What every publication keeps.
LEMMA PublicationAlways == PublicationSpec => []PublicationInv
  BY PublicationInitInv, PublicationNextInv, PTL DEF PublicationSpec

\* Whatever is pushed, died or arrives late: only commits with a reviewed checkpoint
\* reach the branch.
THEOREM OnlyReviewedEverLands == PublicationSpec => []OnlyReviewedLands
<1>1. PublicationInv => OnlyReviewedLands
  BY DEF PublicationInv, BranchKept
<1> QED BY <1>1, PublicationAlways, PTL

\* A push journal says pushed only when its head has been the branch's, wherever
\* the command, or the one that recovers it, died.
THEOREM JournalAlwaysTrue == PublicationSpec => []JournalTellsTruth
<1>1. PublicationInv => JournalTellsTruth
  BY DEF PublicationInv, JournalKept
<1> QED BY <1>1, PublicationAlways, PTL

\* The journal, the continuation and the work record agree on what was validated
\* and pushed.
THEOREM RecordsAlwaysAgree == PublicationSpec => []RecordsAgree
<1>1. PublicationInv => RecordsAgree
  BY DEF PublicationInv, CiKept, RecordsAgree
<1> QED BY <1>1, PublicationAlways, PTL

\* What the comment and the label of the pull request claim has been validated,
\* also when they were written after the lease was lost.
THEOREM ClaimsStayTrue == PublicationSpec => []ClaimsAreTrue
<1>1. PublicationInv => ClaimsAreTrue
  BY DEF PublicationInv
<1> QED BY <1>1, PublicationAlways, PTL

\* The commands leave the branch to git and to its author.
LEMMA CommandsLeaveBranch ==
  ASSUME PublicationInv, [PublicationNext]_publicationVars, remote' # remote
  PROVE  \/ \E r \in Run : PushArrives(r)
         \/ OrphanArrives
         \/ AuthorPush
<1>1. ASSUME NEW r \in Run, Publish(r) PROVE remote' = remote
  BY <1>1
  DEF Publish, PushStart, ManualStart, Consume, RecoverStart, StartPush, SkipPush,
      PushReturns, MarkPushed, RecordPush, StateHandOff, StatePlan, OutcomeStart,
      CommentStart, Comment, LabelStart, Label, Settle, PubStop, StateStart,
      unpublished, gitVars
<1>2. ASSUME NEW r \in Run, Curate(r), UNCHANGED pushVars PROVE remote' = remote
  BY <1>2, CurateFrame DEF pushVars, gitVars
<1>3. PrSync \/ MainAdvance \/ Acquire \/ LosePublication => remote' = remote
  BY DEF PrSync, MainAdvance, Acquire, LosePublication, Lose, gitVars
<1>4. UNCHANGED publicationVars => remote' = remote
  BY DEF publicationVars, curationVars, gitVars
<1> QED BY <1>1, <1>2, <1>3, <1>4 DEF PublicationNext

\* A push of the maintainer replaces exactly the head its commit was prepared from,
\* also one that arrives long after its command died: the packet names that head,
\* and neither the journal nor the sync moves while a push is under way.
THEOREM PushReplacesItsOrigin == PublicationSpec => ReplacesItsOrigin
<1> DEFINE Origin == remote' # remote /\ remote' \in Curated
                         => made[remote'].selected = remote
<1>1. PublicationInv /\ [PublicationNext]_publicationVars => Origin
  <2> SUFFICES ASSUME PublicationInv, [PublicationNext]_publicationVars, remote' # remote,
                      remote' \in Curated
               PROVE  made[remote'].selected = remote
    OBVIOUS
  <2>1. ASSUME NEW r \in Run, PushArrives(r) PROVE made[remote'].selected = remote
    <3>1. push[r] # "none" /\ remote = Packet.old /\ remote' = Packet.new
      BY <2>1 DEF PushArrives
    <3> QED BY <3>1, PacketReplaces DEF Replaces
  <2>2. CASE OrphanArrives
    <3>1. PICK p \in orphans : remote = p.old /\ remote' = p.new
      BY <2>2 DEF OrphanArrives
    <3> QED BY <3>1 DEF PublicationInv, BranchKept, Replaces
  <2>3. CASE AuthorPush
    BY <2>3 DEF AuthorPush, Curated
  <2> QED BY <2>1, <2>2, <2>3, CommandsLeaveBranch
<1>2. PublicationSpec => [][Origin]_publicationVars
  BY <1>1, PublicationAlways, PTL DEF PublicationSpec
<1> QED BY <1>2 DEF ReplacesItsOrigin
===============================================================================
