------------------------- MODULE StrategyOps_proofs -------------------------
(***************************************************************************)
(* Type correctness of StrategyOps, the wallets it records, and what its   *)
(* commands promise about money and positions: for every package, every    *)
(* supply of strategies, every environment and every operator.             *)
(***************************************************************************)
EXTENDS StrategyOps, FiniteSetTheorems, TLAPS

(***************************************************************************)
(* Types.                                                                  *)
(***************************************************************************)

\* What the initial states satisfy.
LEMMA InitType == Init => TypeOK
<1> SUFFICES ASSUME Init PROVE TypeOK
  OBVIOUS
<1> USE PlatformAssumption
<1>1. PlatformTypeOK
  BY DEF Init, PlatformInit, PlatformTypeOK, Strategy, Status, Runtime, NoRuntime
<1>2. CloseTypeOK
  BY DEF Init, ClosingInit, CloseTypeOK, NoRts, NoTargets, NoJobs, Status, Job, JobDone
<1>3. Fresh \in [Inst -> Entry]
  BY DEF Fresh, Pending, Entry
<1>4. QED
  BY <1>1, <1>2, <1>3 DEF Init, TypeOK, PC, NoReply, Report

\* A step of the platform, or of a call to it, keeps the platform's types.
LEMMA PlatformTypes ==
    ASSUME PlatformTypeOK, NEW s \in Sid, NEW i \in Inst
    PROVE  /\ \A status \in Status :
                SetStatus(s, status) => strategies' \in [Sid -> Strategy]
           /\ \A wallet \in Sid \cup {None} :
                CreateRuntime(i, wallet) => runtimes' \in [Inst -> Runtime]
<1>1. ASSUME NEW status \in Status, SetStatus(s, status)
      PROVE  strategies' \in [Sid -> Strategy]
  BY <1>1 DEF SetStatus, PlatformTypeOK, Strategy
<1>2. ASSUME NEW wallet \in Sid \cup {None}, CreateRuntime(i, wallet)
      PROVE  runtimes' \in [Inst -> Runtime]
  BY <1>2 DEF CreateRuntime, PlatformTypeOK, Runtime
<1>3. QED
  BY <1>1, <1>2

\* Whichever runtime is deleted, the inventory stays well typed.
LEMMA DeleteTypes ==
    ASSUME PlatformTypeOK, NEW i, DeleteRuntime(i)
    PROVE  runtimes' \in [Inst -> Runtime]
BY DEF DeleteRuntime, PlatformTypeOK, Runtime, NoRuntime

\* Mishaps are counted up to the bound.
LEMMA MishapTypes ==
    ASSUME PlatformTypeOK, NEW kind, Mishap(kind) \/ Smooth
    PROVE  mishaps' \in 0 .. MaxMishaps
BY PlatformAssumption DEF PlatformTypeOK, Mishap, Smooth

\* The process's variables return to their initial values when a command ends.
LEMMA EndsTypes ==
    ASSUME NEW result \in Report, Ends(result)
    PROVE  /\ CloseTypeOK'
           /\ pc' \in PC /\ st' \in [Inst -> Entry] /\ todo' \in SUBSET Inst
           /\ reply' \in [inst : Inst \cup {None}, sid : Sid \cup {None}]
           /\ allLive' \in BOOLEAN /\ report' \in Report /\ up' \in SUBSET Inst
<1>1. CloseTypeOK'
  BY DEF Ends, ClosingReset, CloseTypeOK, NoRts, NoTargets, NoJobs, Status, Job, JobDone
<1>2. Fresh \in [Inst -> Entry]
  BY DEF Fresh, Pending, Entry
<1>3. QED
  BY <1>1, <1>2 DEF Ends, PC, NoReply

\* The platform's own steps keep its types.
LEMMA EnvironmentTypes == TypeOK /\ Environment => TypeOK'
<1> SUFFICES ASSUME TypeOK, Environment PROVE TypeOK'
  OBVIOUS
<1>1. PlatformTypeOK'
  <2> USE DEF TypeOK
  <2>1. ASSUME NEW s \in Sid, Activate(s) PROVE PlatformTypeOK'
    BY <2>1, PlatformTypes DEF Activate, PlatformTypeOK, Status, SetStatus, Strategy
  <2>2. ASSUME NEW s \in Sid, FundingFails(s) PROVE PlatformTypeOK'
    BY <2>2, MishapTypes DEF FundingFails, PlatformTypeOK, Status, SetStatus, Strategy
  <2>3. ASSUME NEW s \in Sid, Flattened(s) PROVE PlatformTypeOK'
    BY <2>3 DEF Flattened, PlatformTypeOK, Status, SetStatus, Strategy
  <2>4. ASSUME NEW s \in Sid, AppClose(s) PROVE PlatformTypeOK'
    BY <2>4, MishapTypes DEF AppClose, PlatformTypeOK, Status, SetStatus, Strategy
  <2>5. ASSUME NEW s \in Sid, AppPause(s) PROVE PlatformTypeOK'
    BY <2>5, MishapTypes DEF AppPause, PlatformTypeOK, Status, SetStatus, Strategy
  <2>6. ASSUME NEW i \in Inst, RuntimeFails(i) PROVE PlatformTypeOK'
    BY <2>6, MishapTypes DEF RuntimeFails, PlatformTypeOK, Runtime
  <2>7. ASSUME NEW i \in Inst, RuntimeRecovers(i) PROVE PlatformTypeOK'
    BY <2>7 DEF RuntimeRecovers, PlatformTypeOK, Runtime
  <2>8. QED
    BY <2>1, <2>2, <2>3, <2>4, <2>5, <2>6, <2>7 DEF Environment, PlatformStep
<1>2. QED
  BY <1>1 DEF TypeOK, CloseTypeOK, Environment, Rest, closing, process

\* close_one keeps the types of the platform and of its own bookkeeping.
LEMMA CloseOneTypes ==
    ASSUME PlatformTypeOK, CloseTypeOK, NEW s \in Sid, close_one(s)
    PROVE  PlatformTypeOK' /\ CloseTypeOK'
<1>1. ASSUME NEW where \in Job, JobGoes(s, where)
      PROVE  job' \in [Sid -> Job]
  BY <1>1 DEF JobGoes, CloseTypeOK
<1>2. AfterStop(s) \in Job
  BY DEF AfterStop, Job, JobDone
<1>3. {"check1", "stop2", "check2", "failed", "closing"} \subseteq Job
  BY DEF Job, JobDone
<1>4. ASSUME DeleteOn(s)
      PROVE  runtimes' \in [Inst -> Runtime] /\ mishaps' \in 0 .. MaxMishaps
  BY <1>4, DeleteTypes, MishapTypes DEF DeleteOn, PlatformTypeOK
<1>5. CASE Stop(s)
  BY <1>1, <1>3, <1>4, <1>5 DEF Stop, PlatformTypeOK, CloseTypeOK
<1>6. CASE NothingToStop(s)
  BY <1>1, <1>2, <1>6 DEF NothingToStop, platform, PlatformTypeOK, CloseTypeOK
<1>7. CASE StopAgain(s)
  BY <1>1, <1>3, <1>4, <1>7 DEF StopAgain, PlatformTypeOK, CloseTypeOK
<1>8. CASE CheckStopped(s)
  <2>1. PICK gone \in BOOLEAN :
          /\ runtime_gone(RuntimeOf(s), gone)
          /\ JobGoes(s, IF job[s] = "check1"
                        THEN (IF gone THEN "check2" ELSE "stop2")
                        ELSE (IF gone THEN AfterStop(s) ELSE "failed"))
    BY <1>8 DEF CheckStopped
  <2>2. mishaps' \in 0 .. MaxMishaps
    BY <2>1, MishapTypes DEF runtime_gone
  <2>3. job' \in [Sid -> Job]
    BY <1>1, <1>2, <1>3, <2>1
  <2>4. QED
    BY <1>8, <2>2, <2>3 DEF CheckStopped, PlatformTypeOK, CloseTypeOK
<1>9. CASE SubmitClose(s)
  <2>1. strategies' \in [Sid -> Strategy]
    BY <1>9 DEF SubmitClose, SetStatus, PlatformTypeOK, Strategy, Status
  <2>2. mishaps' \in 0 .. MaxMishaps
    BY <1>9, MishapTypes DEF SubmitClose
  <2>3. job' \in [Sid -> Job]
    BY <1>1, <1>3, <1>9 DEF SubmitClose
  <2>4. QED
    BY <1>9, <2>1, <2>2, <2>3 DEF SubmitClose, PlatformTypeOK, CloseTypeOK
<1>10. QED
  BY <1>5, <1>6, <1>7, <1>8, <1>9 DEF close_one

\* Starting a command keeps the types.
LEMMA StartTypes == TypeOK /\ Start => TypeOK'
<1> SUFFICES ASSUME TypeOK, Start PROVE TypeOK'
  OBVIOUS
<1>1. ASSUME NEW command, NEW where \in PC, NEW loop \in SUBSET Inst,
             Starts(command, where, loop)
      PROVE  TypeOK'
  BY <1>1 DEF Starts, TypeOK, PlatformTypeOK, CloseTypeOK, platform, closing, Report
<1>2. {"c.reconcile", "r.find", "r.recover", "v.row", "x.list", "a.list"} \subseteq PC
  BY DEF PC, CreatePCs, RuntimePCs, VerifyPCs, ClosePCs
<1>3. CASE StartCreate
  BY <1>1, <1>2, <1>3 DEF StartCreate
<1>4. CASE StartRuntime
  <2> DEFINE missing == {i \in Inst : file[i].wallet = None}
  <2>1. \/ Starts("runtime", "r.find", Inst)
        \/ Starts("runtime", "r.recover", missing)
    BY <1>4 DEF StartRuntime
  <2>2. missing \in SUBSET Inst
    OBVIOUS
  <2> HIDE DEF missing
  <2>3. QED
    BY <1>1, <1>2, <2>1, <2>2
<1>5. CASE StartVerify
  BY <1>1, <1>2, <1>5 DEF StartVerify
<1>6. CASE StartClose
  BY <1>1, <1>2, <1>6 DEF StartClose
<1>7. CASE StartCloseAll
  BY <1>1, <1>2, <1>7 DEF StartCloseAll
<1>8. QED
  BY <1>3, <1>4, <1>5, <1>6, <1>7 DEF Start

\* So does a kill, also while the state file is being written.
LEMMA KillTypes == TypeOK /\ (Kill \/ KillWhileSaving) => TypeOK'
<1> SUFFICES ASSUME TypeOK, Kill \/ KillWhileSaving PROVE TypeOK'
  OBVIOUS
<1>1. PICK result \in Killed : Ends(result)
  BY DEF Kill, KillWhileSaving, Dies, Killed
<1>2. Fresh \in [Inst -> Entry]
  BY DEF Fresh, Pending, Entry
<1>3. file' \in [Inst -> Entry]
  BY <1>2 DEF Kill, KillWhileSaving, TypeOK
<1>4. PlatformTypeOK'
  BY MishapTypes DEF Kill, KillWhileSaving, TypeOK, PlatformTypeOK
<1>5. QED
  BY <1>1, <1>3, <1>4, EndsTypes DEF TypeOK, Report

\* The two reads that every teardown starts from keep the types.
LEMMA ReadTypes ==
    ASSUME PlatformTypeOK
    PROVE  /\ ReadRuntimes(rts') => /\ rts' \in [Inst -> Sid \cup {None}]
                                    /\ mishaps' \in 0 .. MaxMishaps
           /\ \A open : ReadOpen(open) => mishaps' \in 0 .. MaxMishaps
           /\ \A open \in SUBSET Sid :
                [s \in Sid |-> IF s \in open THEN strategies[s].status
                                             ELSE "UNUSED"] \in [Sid -> Status]
<1>1. ASSUME ReadRuntimes(rts')
      PROVE  rts' \in [Inst -> Sid \cup {None}] /\ mishaps' \in 0 .. MaxMishaps
  BY <1>1, MishapTypes DEF ReadRuntimes, PlatformTypeOK, Runtime, NoRts
<1>2. ASSUME NEW open, ReadOpen(open)
      PROVE  mishaps' \in 0 .. MaxMishaps
  BY <1>2, MishapTypes DEF ReadOpen
<1>3. ASSUME NEW open \in SUBSET Sid
      PROVE  [s \in Sid |-> IF s \in open THEN strategies[s].status
                                          ELSE "UNUSED"] \in [Sid -> Status]
  BY DEF PlatformTypeOK, Strategy, Status
<1>4. QED
  BY <1>1, <1>2, <1>3

\* verify keeps the types.
LEMMA VerifyTypes == TypeOK /\ VerifyStep => TypeOK'
<1> SUFFICES ASSUME TypeOK, VerifyStep PROVE TypeOK'
  OBVIOUS
<1>1. Fresh \in [Inst -> Entry]
  BY DEF Fresh, Pending, Entry
<1>2. CASE Verified
  <2>1. \E result \in Report : Ends(result)
    BY <1>2 DEF Verified, Report
  <2>2. file' \in [Inst -> Entry]
    BY <1>1, <1>2 DEF Verified, TypeOK
  <2>3. PlatformTypeOK'
    BY <1>2 DEF Verified, platform, TypeOK, PlatformTypeOK
  <2>4. QED
    BY <2>1, <2>2, <2>3, EndsTypes DEF TypeOK
<1>3. ASSUME NEW i \in Inst, VerifyRow(i) PROVE TypeOK'
  <2>1. PICK running \in BOOLEAN, live \in BOOLEAN :
          /\ \/ running = Running(i) /\ Smooth
                /\ live = (running /\ runtimes[i].health = "running")
             \/ running /\ live /\ Running(i) /\ Mishap("health")
             \/ ~running /\ ~live /\ Mishap("inventory")
          /\ st' = IF live THEN [st EXCEPT ![i].status = "live"] ELSE st
          /\ file' = IF running THEN st' ELSE file
          /\ allLive' = (allLive /\ live)
    BY <1>3 DEF VerifyRow
  <2>2. mishaps' \in 0 .. MaxMishaps
    BY <2>1, MishapTypes DEF TypeOK
  <2>3. st' \in [Inst -> Entry]
    BY <2>1 DEF TypeOK, Entry
  <2>4. file' \in [Inst -> Entry]
    BY <2>1, <2>3 DEF TypeOK
  <2>5. allLive' \in BOOLEAN
    BY <2>1, Zenon DEF TypeOK
  <2>6. todo' \in SUBSET Inst
    BY <1>3 DEF VerifyRow, TypeOK
  <2>7. QED
    BY <1>3, <2>2, <2>3, <2>4, <2>5, <2>6
    DEF VerifyRow, TypeOK, PlatformTypeOK, CloseTypeOK, closing
<1>4. QED
  BY <1>2, <1>3 DEF VerifyStep

\* close keeps the types.
LEMMA CloseTypes == TypeOK /\ CloseStep => TypeOK'
<1> SUFFICES ASSUME TypeOK, CloseStep PROVE TypeOK'
  OBVIOUS
<1>1. Fresh \in [Inst -> Entry]
  BY DEF Fresh, Pending, Entry
<1>2. ClosePCs \subseteq PC
  BY DEF PC
<1>3. CASE CloseReadsOpen
  <2>1. PICK open \in SUBSET Sid :
          /\ ReadOpen(open)
          /\ IF open = {}
             THEN Ends("nothing-open")
             ELSE /\ seen' = [s \in Sid |-> IF s \in open
                                            THEN strategies[s].status ELSE "UNUSED"]
                  /\ Goto(IF pc = "x.list" THEN "x.runtimes" ELSE "a.runtimes")
                  /\ UNCHANGED <<rts, job, st, todo, reply, allLive, up>>
    BY <1>3 DEF CloseReadsOpen
  <2>2. PlatformTypeOK'
    BY <1>3, <2>1, ReadTypes DEF CloseReadsOpen, TypeOK, PlatformTypeOK
  <2>3. CASE open = {}
    <3>1. Ends("nothing-open") /\ file' = file /\ "nothing-open" \in Report
      BY <1>3, <2>1, <2>3 DEF CloseReadsOpen, Report
    <3>2. QED
      BY <2>2, <3>1, EndsTypes DEF TypeOK
  <2>4. CASE open # {}
    <3>1. seen' \in [Sid -> Status]
      BY <2>1, <2>4, ReadTypes DEF TypeOK
    <3>2. QED
      BY <1>2, <1>3, <2>1, <2>2, <2>4, <3>1
      DEF CloseReadsOpen, Goto, ClosePCs, TypeOK, CloseTypeOK
  <2>5. QED
    BY <2>3, <2>4
<1>4. CASE CloseReadsRuntimes
  <2>1. rts' \in [Inst -> Sid \cup {None}] /\ mishaps' \in 0 .. MaxMishaps
    BY <1>4, ReadTypes DEF CloseReadsRuntimes, TypeOK
  <2>2. job' \in [Sid -> Job]
    BY <1>4 DEF CloseReadsRuntimes, StartJobs, Job
  <2>3. QED
    BY <1>2, <1>4, <2>1, <2>2
    DEF CloseReadsRuntimes, Goto, ClosePCs, TypeOK, PlatformTypeOK, CloseTypeOK
<1>5. CASE CloseDone
  <2>1. \E result \in Report : Ends(result)
    BY <1>5 DEF CloseDone, Report
  <2>2. file' \in [Inst -> Entry]
    BY <1>1, <1>5 DEF CloseDone, TypeOK
  <2>3. PlatformTypeOK'
    BY <1>5 DEF CloseDone, platform, TypeOK, PlatformTypeOK
  <2>4. QED
    BY <2>1, <2>2, <2>3, EndsTypes DEF TypeOK
<1>6. ASSUME NEW s \in Sid, CloseThread(s) PROVE TypeOK'
  BY <1>6, CloseOneTypes DEF CloseThread, TypeOK, process
<1>7. QED
  BY <1>3, <1>4, <1>5, <1>6 DEF CloseStep

\* _recover_wallet's candidate: when there is exactly one, it is an ACTIVE
\* strategy that matches the instance.
LEMMA FoundCandidate ==
    ASSUME NEW i, NEW active \in SUBSET Sid,
           Cardinality(Candidates(i, active)) = 1
    PROVE  (CHOOSE s \in Candidates(i, active) : TRUE) \in Candidates(i, active)
<1>1. Candidates(i, active) # {}
  BY FS_EmptySet
<1>2. QED
  BY <1>1

\* runtime keeps the types.
LEMMA RuntimeTypes == TypeOK /\ RuntimeStep => TypeOK'
<1> SUFFICES ASSUME TypeOK, RuntimeStep PROVE TypeOK'
  OBVIOUS
<1>1. RuntimePCs \subseteq PC
  BY DEF PC
<1>2. CASE Recover
  <2>1. PICK active \in SUBSET Sid :
          /\ \/ active = {s \in Sid : strategies[s].status = "ACTIVE"} /\ Smooth
             \/ active = {} /\ Mishap("strategy_list")
          /\ LET found == {i \in todo : Cardinality(Candidates(i, active)) = 1}
                 healed == [i \in Inst |->
                              IF i \in found
                              THEN [st[i] EXCEPT
                                      !.wallet = CHOOSE s \in Candidates(i, active) : TRUE,
                                      !.status = "active"]
                              ELSE st[i]]
             IN /\ file' = IF found = {} THEN file ELSE healed
                /\ IF found = todo
                   THEN /\ Goto("r.find")
                        /\ st' = healed
                        /\ todo' = Inst
                        /\ UNCHANGED <<closing, reply, allLive, up>>
                   ELSE Ends("unresolved")
    BY <1>2 DEF Recover
  <2> DEFINE found == {i \in todo : Cardinality(Candidates(i, active)) = 1}
             healed == [i \in Inst |->
                          IF i \in found
                          THEN [st[i] EXCEPT
                                  !.wallet = CHOOSE s \in Candidates(i, active) : TRUE,
                                  !.status = "active"]
                          ELSE st[i]]
  <2>2. healed \in [Inst -> Entry]
    <3>1. ASSUME NEW i \in found
          PROVE  (CHOOSE s \in Candidates(i, active) : TRUE) \in Sid
      BY <3>1, FoundCandidate DEF Candidates
    <3>2. QED
      BY <3>1 DEF TypeOK, Entry
  <2>3. /\ file' = IF found = {} THEN file ELSE healed
        /\ \/ /\ Goto("r.find") /\ st' = healed /\ todo' = Inst
              /\ UNCHANGED <<closing, reply, allLive, up>>
           \/ Ends("unresolved")
    BY <2>1
  <2> HIDE DEF found, healed
  <2>4. file' \in [Inst -> Entry]
    BY <2>2, <2>3 DEF TypeOK
  <2>5. PlatformTypeOK'
    BY <1>2, <2>1, MishapTypes DEF Recover, TypeOK, PlatformTypeOK
  <2>6. CASE Ends("unresolved")
    BY <2>4, <2>5, <2>6, EndsTypes DEF TypeOK, Report
  <2>7. CASE /\ Goto("r.find") /\ st' = healed /\ todo' = Inst
             /\ UNCHANGED <<closing, reply, allLive, up>>
    BY <1>1, <2>2, <2>4, <2>5, <2>7
    DEF Goto, RuntimePCs, TypeOK, CloseTypeOK, closing
  <2>8. QED
    BY <2>3, <2>6, <2>7
<1>3. CASE DeleteOld
  <2>1. runtimes' \in [Inst -> Runtime] /\ mishaps' \in 0 .. MaxMishaps
    BY <1>3, DeleteTypes, MishapTypes DEF DeleteOld, TypeOK, PlatformTypeOK
  <2>2. QED
    BY <1>1, <1>3, <2>1
    DEF DeleteOld, Goto, RuntimePCs, TypeOK, PlatformTypeOK, CloseTypeOK, closing
<1>4. CASE RegisterRuntime
  <2>1. PICK rc \in {"ok", "failed"} :
          /\ \/ CreateRuntime(reply.inst, st[reply.inst].wallet) /\ (Smooth \/ Mishap("register"))
             \/ UNCHANGED runtimes /\ (Smooth \/ Mishap("register"))
          /\ st' = IF rc = "ok"
                   THEN [st EXCEPT ![reply.inst].status = "registered",
                                   ![reply.inst].error = FALSE]
                   ELSE [st EXCEPT ![reply.inst].error = TRUE]
    BY <1>4 DEF RegisterRuntime, Smooth
  <2>2. st' \in [Inst -> Entry]
    <3>1. st \in [Inst -> Entry]
      BY DEF TypeOK
    <3>2. \/ st' = [st EXCEPT ![reply.inst].status = "registered",
                              ![reply.inst].error = FALSE]
          \/ st' = [st EXCEPT ![reply.inst].error = TRUE]
      BY <2>1
    <3>3. ASSUME NEW e \in Entry
          PROVE  /\ [e EXCEPT !.status = "registered", !.error = FALSE] \in Entry
                 /\ [e EXCEPT !.error = TRUE] \in Entry
      BY DEF Entry
    <3>4. ASSUME NEW j \in Inst
          PROVE  st'[j] \in {st[j], [st[j] EXCEPT !.error = TRUE],
                             [st[j] EXCEPT !.status = "registered", !.error = FALSE]}
      BY <3>1, <3>2
    <3>5. st' = [j \in Inst |-> st'[j]] /\ \A j \in Inst : st[j] \in Entry
      BY <3>1, <3>2
    <3>6. \A j \in Inst : st'[j] \in Entry
      BY <3>3, <3>4, <3>5
    <3>7. QED
      BY <3>5, <3>6
  <2>3. mishaps' \in 0 .. MaxMishaps
    BY <2>1, MishapTypes DEF TypeOK
  <2>4. runtimes' \in [Inst -> Runtime]
    <3>1. CASE reply.inst \in Inst
      <4>1. st[reply.inst].wallet \in Sid \cup {None}
        BY <3>1 DEF TypeOK, Entry
      <4>2. QED
        BY <2>1, <3>1, <4>1 DEF CreateRuntime, TypeOK, PlatformTypeOK, Runtime
    <3>2. CASE reply.inst \notin Inst
      BY <2>1, <3>2 DEF CreateRuntime, TypeOK, PlatformTypeOK, Runtime
    <3>3. QED
      BY <3>1, <3>2
  <2>5. QED
    BY <1>1, <1>4, <2>2, <2>3, <2>4
    DEF RegisterRuntime, Goto, RuntimePCs, NoReply, TypeOK, PlatformTypeOK,
        CloseTypeOK, closing
<1>5. CASE RuntimeDone
  <2>1. \E result \in Report : Ends(result)
    BY <1>5 DEF RuntimeDone, Report
  <2>2. PlatformTypeOK' /\ file' \in [Inst -> Entry]
    BY <1>5 DEF RuntimeDone, platform, TypeOK, PlatformTypeOK
  <2>3. QED
    BY <2>1, <2>2, EndsTypes DEF TypeOK
<1>6. ASSUME NEW i \in Inst, FindRuntime(i) PROVE TypeOK'
  <2>1. PICK wallet \in Sid \cup {None} :
          /\ Smooth \/ Mishap("inventory")
          /\ \/ /\ st' = [st EXCEPT ![i].status = "registered", ![i].error = FALSE]
                /\ file' = st'
                /\ todo' = todo \ {i}
                /\ UNCHANGED <<pc, reply>>
             \/ /\ pc' \in {"r.create", "r.delete"}
                /\ reply' = [NoReply EXCEPT !.inst = i]
                /\ st' = [st EXCEPT ![i].error = FALSE]
                /\ UNCHANGED <<file, todo>>
    BY <1>6 DEF FindRuntime
  <2>2. st' \in [Inst -> Entry]
    <3>1. CASE st' = [st EXCEPT ![i].status = "registered", ![i].error = FALSE]
      BY <3>1 DEF TypeOK, Entry
    <3>2. CASE st' = [st EXCEPT ![i].error = FALSE]
      BY <3>2 DEF TypeOK, Entry
    <3>3. QED
      BY <2>1, <3>1, <3>2
  <2>3. mishaps' \in 0 .. MaxMishaps
    BY <2>1, MishapTypes DEF TypeOK
  <2>4. /\ file' \in [Inst -> Entry] /\ todo' \in SUBSET Inst /\ pc' \in PC
        /\ reply' \in [inst : Inst \cup {None}, sid : Sid \cup {None}]
    BY <1>1, <2>1, <2>2 DEF TypeOK, NoReply, RuntimePCs
  <2>5. QED
    BY <1>6, <2>2, <2>3, <2>4
    DEF FindRuntime, TypeOK, PlatformTypeOK, CloseTypeOK, closing
<1>7. QED
  BY <1>2, <1>3, <1>4, <1>5, <1>6 DEF RuntimeStep

\* create's two calls for an instance: with a name, and without one after an
\* answer taken for a refusal of the name.
Creates(i) == Submit(i) \/ (Retry /\ i = reply.inst)

AsksAgain(i) ==
    /\ reply' = [NoReply EXCEPT !.inst = i]
    /\ Goto("c.retry")
    /\ pc = "c.submit"
    /\ UNCHANGED <<closing, file, st, todo, allLive, up>>

\* What either call does.
LEMMA CreateCall ==
    ASSUME NEW i, Creates(i)
    PROVE  /\ UNCHANGED runtimes
           /\ \/ UNCHANGED strategies
              \/ \E s \in Sid, named, lost \in BOOLEAN : CreateStrategy(i, s, named, lost)
           /\ Smooth \/ Mishap("create") \/ Mishap("name") \/ Mishap("name_lost")
           /\ \/ SubmitFailed(i)
              \/ AsksAgain(i)
              \/ \E s \in Sid, named \in BOOLEAN :
                   CreateStrategy(i, s, named, FALSE) /\ SubmitAnswered(i, s)
BY DEF Creates, Submit, Retry, CallFails, AsksAgain, Smooth

\* create keeps the types.
LEMMA CreateTypes == TypeOK /\ CreateStep => TypeOK'
<1> SUFFICES ASSUME TypeOK, CreateStep PROVE TypeOK'
  OBVIOUS
<1> USE MishapTypes
<1>1. CreatePCs \subseteq PC
  BY DEF PC
<1>2. Fresh \in [Inst -> Entry]
  BY DEF Fresh, Pending, Entry
<1>3. CASE Reconciled
  BY <1>1, <1>3 DEF Reconciled, Goto, CreatePCs, TypeOK, PlatformTypeOK,
                    CloseTypeOK, platform, closing
<1>4. CASE CreateReadsRuntimes
  BY <1>1, <1>4, ReadTypes DEF CreateReadsRuntimes, Goto, CreatePCs, TypeOK,
                               PlatformTypeOK, CloseTypeOK
<1>5. CASE CreateReadsExisting
  <2>1. PICK open \in SUBSET Sid :
          /\ ReadOpen(open)
          /\ seen' = [s \in Sid |-> IF s \in open THEN strategies[s].status
                                                  ELSE "UNUSED"]
          /\ Goto(IF open = {} THEN "c.fund" ELSE "c.livecheck")
          /\ up' = IF open = {} THEN {} ELSE {i \in Inst : Running(i)}
    BY <1>5 DEF CreateReadsExisting, existing_open
  <2>2. seen' \in [Sid -> Status] /\ mishaps' \in 0 .. MaxMishaps
    BY <2>1, ReadTypes DEF TypeOK
  <2>3. QED
    BY <1>1, <1>5, <2>1, <2>2 DEF CreateReadsExisting, Goto, CreatePCs, TypeOK,
                                  PlatformTypeOK, CloseTypeOK
<1>6. CASE LiveChecked
  BY <1>1, <1>6 DEF LiveChecked, Goto, CreatePCs, TypeOK, PlatformTypeOK,
                    CloseTypeOK, platform, closing
<1>7. CASE CreateForgets
  <2>1. Ends("closing-existing") /\ "closing-existing" \in Report
    BY <1>7 DEF CreateForgets, Report
  <2>2. PlatformTypeOK' /\ file' \in [Inst -> Entry]
    BY <1>2, <1>7 DEF CreateForgets, platform, TypeOK, PlatformTypeOK
  <2>3. QED
    BY <2>1, <2>2, EndsTypes DEF TypeOK
<1>8. CASE Fund
  <2>1. PlatformTypeOK' /\ file' \in [Inst -> Entry]
    BY <1>8 DEF Fund, TypeOK, PlatformTypeOK
  <2>2. CASE Ends("underfunded")
    BY <2>1, <2>2, EndsTypes DEF TypeOK, Report
  <2>3. CASE /\ Goto("c.submit") /\ todo' = Need
             /\ UNCHANGED <<closing, st, reply, allLive, up>>
    BY <1>1, <2>1, <2>3 DEF Goto, CreatePCs, Need, TypeOK, CloseTypeOK, closing
  <2>4. QED
    BY <1>8, <2>2, <2>3 DEF Fund
<1>9. CASE Record
  <2>1. st' \in [Inst -> Entry]
    <3>1. CASE reply.inst \in Inst
      <4>1. reply.sid \in Sid \cup {None}
        BY DEF TypeOK
      <4>2. st' = [st EXCEPT ![reply.inst] =
                     [@ EXCEPT !.sid = reply.sid, !.status = "creating",
                               !.error = FALSE]]
        BY <1>9, <3>1 DEF Record, strategy_id_of, TypeOK, Entry
      <4>3. [st[reply.inst] EXCEPT !.sid = reply.sid, !.status = "creating",
                                   !.error = FALSE] \in Entry
        <5>1. st[reply.inst] \in Entry
          BY <3>1 DEF TypeOK
        <5>2. ASSUME NEW e \in Entry, NEW sid \in Sid \cup {None}
              PROVE  [e EXCEPT !.sid = sid, !.status = "creating",
                               !.error = FALSE] \in Entry
          BY DEF Entry
        <5>3. QED
          BY <4>1, <5>1, <5>2
      <4>4. QED
        BY <3>1, <4>2, <4>3 DEF TypeOK
    <3>2. CASE reply.inst \notin Inst
      BY <1>9, <3>2 DEF Record, TypeOK
    <3>3. QED
      BY <3>1, <3>2
  <2>2. QED
    BY <1>1, <1>9, <2>1 DEF Record, Goto, CreatePCs, NoReply, TypeOK,
                            PlatformTypeOK, CloseTypeOK, platform, closing
<1>10. CASE Submitted
  BY <1>1, <1>10 DEF Submitted, Goto, CreatePCs, Waiting, TypeOK,
                     PlatformTypeOK, CloseTypeOK, platform, closing
<1>11. CASE Polled
  <2>1. PlatformTypeOK' /\ file' \in [Inst -> Entry]
    BY <1>11 DEF Polled, TypeOK, PlatformTypeOK
  <2>2. ASSUME NEW result \in {"wallets-ready", "creating"}, Ends(result)
        PROVE  TypeOK'
    BY <2>1, <2>2, EndsTypes DEF TypeOK, Report
  <2>3. CASE /\ todo' = Waiting
             /\ UNCHANGED <<closing, pc, st, reply, allLive, up, report>>
    BY <2>1, <2>3 DEF Waiting, TypeOK, CloseTypeOK, closing
  <2>4. QED
    BY <1>11, <2>2, <2>3 DEF Polled
<1>12. ASSUME NEW i \in Inst, Reconcile(i) PROVE TypeOK'
  <2>1. st' \in [Inst -> Entry] /\ mishaps' \in 0 .. MaxMishaps
    BY <1>12 DEF Reconcile, RecordedActive, TypeOK, Entry, Pending
  <2>2. QED
    BY <1>12, <2>1 DEF Reconcile, TypeOK, PlatformTypeOK, CloseTypeOK, closing
<1>13. ASSUME NEW i \in Inst \cup {None}, Creates(i) PROVE TypeOK'
  <2>1. PlatformTypeOK'
    <3>1. strategies' \in [Sid -> Strategy]
      <4>1. PlatformTypeOK /\ strategies \in [Sid -> Strategy]
        BY DEF TypeOK, PlatformTypeOK
      <4>2. ASSUME NEW s \in Sid, NEW named \in BOOLEAN, NEW lost \in BOOLEAN,
                   CreateStrategy(i, s, named, lost)
            PROVE  strategies' \in [Sid -> Strategy]
        BY <4>1, <4>2 DEF CreateStrategy, Strategy, Status
      <4>3. QED
        BY <1>13, <4>1, <4>2, CreateCall
    <3>2. mishaps' \in 0 .. MaxMishaps /\ UNCHANGED runtimes
      BY <1>13, CreateCall DEF Smooth, TypeOK
    <3>3. QED
      BY <3>1, <3>2 DEF TypeOK, PlatformTypeOK
  <2>2. CASE \E s \in Sid : SubmitAnswered(i, s)
    BY <1>1, <2>1, <2>2 DEF SubmitAnswered, Goto, CreatePCs, TypeOK, CloseTypeOK, closing
  <2>3. CASE AsksAgain(i)
    BY <1>1, <2>1, <2>3 DEF AsksAgain, NoReply, Goto, CreatePCs, TypeOK, CloseTypeOK,
                            closing
  <2>4. CASE SubmitFailed(i)
    <3>1. file' \in [Inst -> Entry]
      <4>1. PICK status \in {"pending", st[i].status} :
              file' = [st EXCEPT ![i].status = status, ![i].error = TRUE]
        BY <2>4 DEF SubmitFailed
      <4>2. CASE i \in Inst
        <5>1. st \in [Inst -> Entry]
          BY DEF TypeOK
        <5>2. status \in {"pending", "creating", "active", "registered", "live"}
          BY <4>2, <5>1 DEF Entry
        <5>3. QED
          BY <4>1, <4>2, <5>1, <5>2 DEF Entry
      <4>3. CASE i \notin Inst
        BY <4>1, <4>3 DEF TypeOK
      <4>4. QED
        BY <4>2, <4>3
    <3>2. QED
      BY <2>1, <2>4, <3>1, EndsTypes DEF SubmitFailed, TypeOK, Report
  <2>5. QED
    BY <1>13, <2>2, <2>3, <2>4, CreateCall
<1>14. ASSUME NEW i \in Inst, Poll(i) PROVE TypeOK'
  <2>1. PICK active \in BOOLEAN :
          /\ Polls(st[i].sid, active)
          /\ st' = IF active THEN [st EXCEPT ![i].wallet = st[i].sid,
                                             ![i].status = "active"]
                             ELSE st
          /\ file' = IF active THEN st' ELSE file
    BY <1>14 DEF Poll
  <2>2. st' \in [Inst -> Entry]
    BY <2>1 DEF TypeOK, Entry
  <2>3. mishaps' \in 0 .. MaxMishaps /\ file' \in [Inst -> Entry]
    BY <2>1, <2>2 DEF Polls, TypeOK
  <2>4. QED
    BY <1>14, <2>2, <2>3 DEF Poll, TypeOK, PlatformTypeOK, CloseTypeOK, closing
<1>15. ASSUME NEW s \in Sid, LiveCheck(s) PROVE TypeOK'
  <2>1. PICK running \in BOOLEAN :
          /\ HasRunningRuntime(s, running)
          /\ IF running THEN Ends("refused")
                        ELSE /\ JobGoes(s, "start")
                             /\ up' \subseteq up
                             /\ UNCHANGED <<rts, seen, process>>
    BY <1>15 DEF LiveCheck
  <2>2. PlatformTypeOK' /\ file' \in [Inst -> Entry]
    BY <1>15, <2>1 DEF LiveCheck, HasRunningRuntime, TypeOK, PlatformTypeOK
  <2>3. CASE running
    BY <2>1, <2>2, <2>3, EndsTypes DEF TypeOK, Report
  <2>4. CASE ~running
    BY <2>1, <2>2, <2>4 DEF JobGoes, Job, TypeOK, CloseTypeOK, process
  <2>5. QED
    BY <2>3, <2>4
<1>16. ASSUME NEW s \in Sid, CreateCloses(s) PROVE TypeOK'
  BY <1>16, CloseOneTypes DEF CreateCloses, TypeOK, process
<1>17. CASE Retry
  <2>1. Creates(reply.inst) /\ reply.inst \in Inst \cup {None}
    BY <1>17 DEF Creates, TypeOK
  <2>2. QED
    BY <1>13, <2>1
<1>18. QED
  BY <1>3, <1>4, <1>5, <1>6, <1>7, <1>8, <1>9, <1>10, <1>11, <1>12, <1>13,
     <1>14, <1>15, <1>16, <1>17 DEF CreateStep, Creates

\* Every step keeps the types.
LEMMA StepTypes == TypeOK /\ [Next]_vars => TypeOK'
<1>1. ASSUME TypeOK, UNCHANGED vars PROVE TypeOK'
  BY <1>1 DEF TypeOK, PlatformTypeOK, CloseTypeOK, vars, platform, closing, process
<1>2. QED
  BY <1>1, StartTypes, CreateTypes, RuntimeTypes, VerifyTypes, CloseTypes,
     KillTypes, EnvironmentTypes DEF Next, Work

\* Whatever the package, the environment and the operator, every variable of
\* deploy.py and close.py keeps its type.
THEOREM TypeCorrect == Spec => []TypeOK
BY InitType, StepTypes, PTL DEF Spec

(***************************************************************************)
(* Where create makes strategies.                                          *)
(***************************************************************************)

FundPCs == {"c.fund", "c.submit", "c.retry", "c.record"}

\* The steps that lead to a point at which create funds, or stay at one.
LEMMA FundSteps ==
    ASSUME Next, pc' \in FundPCs
    PROVE  \/ CreateReadsExisting \/ Fund \/ Record \/ Environment
           \/ \E i \in Inst : Submit(i)
           \/ Retry /\ pc' = "c.record"
<1> USE DEF FundPCs
<1>1. ASSUME NEW result, Ends(result) PROVE FALSE
  BY <1>1 DEF Ends
<1>2. ~Start
  BY DEF Start, StartCreate, StartRuntime, StartVerify, StartClose, StartCloseAll, Starts
<1>3. ~Kill /\ ~KillWhileSaving
  BY <1>1 DEF Kill, KillWhileSaving, Dies
<1>4. ~VerifyStep
  BY <1>1 DEF VerifyStep, Verified, VerifyRow
<1>5. ~RuntimeStep
  <2>1. ~Recover
    <3>1. ASSUME Recover PROVE Goto("r.find") \/ Ends("unresolved")
      BY <3>1 DEF Recover
    <3>2. QED
      BY <1>1, <3>1 DEF Goto
  <2>2. ASSUME NEW i \in Inst PROVE ~FindRuntime(i)
    BY DEF FindRuntime
  <2>3. QED
    BY <1>1, <2>1, <2>2 DEF RuntimeStep, DeleteOld, RegisterRuntime, RuntimeDone, Goto
<1>6. ~CloseStep
  BY <1>1 DEF CloseStep, CloseReadsOpen, CloseReadsRuntimes, CloseDone, CloseThread,
              Goto, process
<1>7. ASSUME CreateStep
      PROVE  \/ CreateReadsExisting \/ Fund \/ Record
             \/ \E i \in Inst : Submit(i)
             \/ Retry /\ pc' = "c.record"
  BY <1>1, <1>7 DEF CreateStep, Reconciled, CreateReadsRuntimes, LiveChecked, CreateForgets,
              Submitted, Polled, Reconcile, Poll, LiveCheck, CreateCloses, Retry, SubmitFailed,
              SubmitAnswered, Goto, process
<1>8. QED
  BY <1>2, <1>3, <1>4, <1>5, <1>6, <1>7 DEF Next, Work

(***************************************************************************)
(* Wallets.  The state file, the copy a command works on, the answer not   *)
(* yet recorded and the host's registry only ever hold wallets created for *)
(* the instance they are recorded for.                                     *)
(***************************************************************************)

\* The wallets an instance may use, and none.
Own(i) == {None} \cup {s \in Sid : strategies[s].inst = i}

UsedHasInst ==
    \A s \in Sid : strategies[s].status = "UNUSED" <=> strategies[s].inst = None

Owned(f) == \A i \in Inst : f[i].sid \in Own(i) /\ f[i].wallet \in Own(i)

\* The call create repeats is one for an instance.
RetryInst == pc = "c.retry" => reply.inst \in Inst

ReplyOwned ==
    reply.sid # None => reply.inst \in Inst /\ reply.sid \in Own(reply.inst)

RuntimesOwned == \A i \in Inst : runtimes[i].wallet \in Own(i)

\* The inductive invariant.
OwnInv ==
    /\ TypeOK
    /\ UsedHasInst
    /\ Owned(file)
    /\ Owned(st)
    /\ ReplyOwned
    /\ RetryInst
    /\ RuntimesOwned

\* Nothing is owned at the start.
LEMMA InitOwn == Init => OwnInv
<1> SUFFICES ASSUME Init PROVE OwnInv
  OBVIOUS
<1>1. TypeOK
  BY InitType
<1>2. Owned(Fresh)
  BY DEF Owned, Fresh, Pending, Own
<1>3. ReplyOwned /\ RetryInst /\ RuntimesOwned /\ UsedHasInst
  BY DEF Init, PlatformInit, NoReply, NoRuntime, ReplyOwned, RetryInst, RuntimesOwned,
         UsedHasInst, Own
<1>4. QED
  BY <1>1, <1>2, <1>3 DEF Init, OwnInv

\* What a step does to the strategies: nothing, a new status for an open one, or
\* a new one for the instance create submits.
LEMMA StrategyChanges ==
    ASSUME TypeOK, RetryInst, Next
    PROVE  \/ UNCHANGED strategies
           \/ \E s \in Sid, status \in Status \ {"UNUSED"} :
                strategy_open(s) /\ SetStatus(s, status)
           \/ \E i \in Inst, s \in Sid, named, lost \in BOOLEAN :
                Creates(i) /\ CreateStrategy(i, s, named, lost)
<1> USE DEF strategy_open, LIVE_STATUSES, DEAD_STATUSES, Status
<1>1. CASE Start
  BY <1>1 DEF Start, StartCreate, StartRuntime, StartVerify, StartClose,
              StartCloseAll, Starts, platform
<1>2. CASE Kill \/ KillWhileSaving
  BY <1>2 DEF Kill, KillWhileSaving
<1>3. CASE Environment
  BY <1>3 DEF Environment, PlatformStep, Activate, FundingFails, Flattened, AppClose,
              AppPause, RuntimeFails, RuntimeRecovers
<1>4. CASE VerifyStep
  BY <1>4 DEF VerifyStep, Verified, VerifyRow, platform
<1>5. CASE RuntimeStep
  BY <1>5 DEF RuntimeStep, Recover, DeleteOld, RegisterRuntime, RuntimeDone,
              FindRuntime, platform
<1>6. ASSUME NEW s \in Sid, close_one(s)
      PROVE  \/ UNCHANGED strategies
             \/ \E status \in Status \ {"UNUSED"} :
                  strategy_open(s) /\ SetStatus(s, status)
  BY <1>6 DEF close_one, Stop, NothingToStop, StopAgain, CheckStopped, SubmitClose,
              platform
<1>7. CASE CloseStep
  BY <1>6, <1>7 DEF CloseStep, CloseReadsOpen, CloseReadsRuntimes, CloseDone,
                    CloseThread, platform
<1>8. CASE CreateStep
  <2>1. ASSUME NEW i \in Inst, Creates(i)
        PROVE  \/ UNCHANGED strategies
               \/ \E s \in Sid, named, lost \in BOOLEAN :
                    Creates(i) /\ CreateStrategy(i, s, named, lost)
    BY <2>1, CreateCall
  <2>2. Retry => reply.inst \in Inst /\ Creates(reply.inst)
    BY DEF Retry, RetryInst, Creates
  <2>3. \A i \in Inst : Submit(i) => Creates(i)
    BY DEF Creates
  <2>4. QED
    BY <1>6, <1>8, <2>1, <2>2, <2>3
    DEF CreateStep, Reconciled, CreateReadsRuntimes, CreateReadsExisting, LiveChecked,
        CreateForgets, Fund, Record, Submitted, Polled, Reconcile, Poll, LiveCheck,
        CreateCloses, platform
<1>9. QED
  BY <1>1, <1>2, <1>3, <1>4, <1>5, <1>7, <1>8 DEF Next, Work

\* So an instance never loses a wallet, and ids in use belong to an instance.
LEMMA OwnersKept ==
    ASSUME TypeOK, UsedHasInst, RetryInst, Next
    PROVE  UsedHasInst' /\ \A i \in Inst : Own(i) \subseteq Own(i)'
<1>1. CASE UNCHANGED strategies
  BY <1>1 DEF UsedHasInst, Own
<1>2. ASSUME NEW s \in Sid, NEW status \in Status \ {"UNUSED"},
             strategy_open(s), SetStatus(s, status)
      PROVE  UsedHasInst' /\ \A i \in Inst : Own(i) \subseteq Own(i)'
  BY <1>2 DEF SetStatus, TypeOK, PlatformTypeOK, Strategy, UsedHasInst, Own,
              strategy_open, LIVE_STATUSES
<1>3. ASSUME NEW i \in Inst, NEW s \in Sid, NEW named \in BOOLEAN, NEW lost \in BOOLEAN,
             CreateStrategy(i, s, named, lost)
      PROVE  UsedHasInst' /\ \A j \in Inst : Own(j) \subseteq Own(j)'
  <2>1. strategies' = [strategies EXCEPT ![s] =
                         [status |-> "FUND_WALLET", inst |-> i, named |-> named,
                          lost |-> lost]]
    BY <1>3 DEF CreateStrategy
  <2>2. strategies[s].inst = None /\ i # None
    BY <1>3, PlatformAssumption DEF CreateStrategy, UsedHasInst
  <2>3. \A t \in Sid : strategies'[t] = IF t = s
                         THEN [status |-> "FUND_WALLET", inst |-> i, named |-> named,
                               lost |-> lost]
                         ELSE strategies[t]
    BY <2>1 DEF TypeOK, PlatformTypeOK
  <2>4. UsedHasInst'
    BY <2>2, <2>3 DEF UsedHasInst
  <2>5. QED
    BY <2>2, <2>3, <2>4, PlatformAssumption DEF Own
<1>4. QED
  BY <1>1, <1>2, <1>3, StrategyChanges

\* Below: every command only writes wallets of the instance into the file and
\* into its own copy, and every registration takes the wallet from that copy.

\* A command that ends leaves no copy of the state behind it but a blank one.
LEMMA EndsOwned == ASSUME NEW result, Ends(result) PROVE Owned(st') /\ reply' = NoReply
BY DEF Ends, Owned, Fresh, Pending, Own

\* load_state of a missing file names no wallet.
LEMMA FreshOwned == Owned(Fresh)
BY DEF Owned, Fresh, Pending, Own

\* Deleting a runtime binds no wallet.
LEMMA DeleteOwned ==
    ASSUME TypeOK, RuntimesOwned, NEW n, DeleteRuntime(n)
    PROVE  \A i \in Inst : runtimes'[i].wallet \in Own(i)
BY DEF DeleteRuntime, NoRuntime, RuntimesOwned, Own, TypeOK, PlatformTypeOK

\* close_one touches neither ledger, and only unregisters.
LEMMA CloseOneOwned ==
    ASSUME TypeOK, RuntimesOwned, NEW s \in Sid, close_one(s)
    PROVE  \A i \in Inst : runtimes'[i].wallet \in Own(i)
<1>1. UNCHANGED runtimes \/ DeleteRuntime(RuntimeOf(s))
  BY DEF close_one, Stop, NothingToStop, StopAgain, CheckStopped, SubmitClose,
         DeleteOn, platform
<1>2. QED
  BY <1>1, DeleteOwned DEF RuntimesOwned

\* What a step may leave in the ledgers and the registry.
LeavesOwned ==
    /\ Owned(file') /\ Owned(st')
    /\ \A i \in Inst : runtimes'[i].wallet \in Own(i)

\* verify writes nothing that names a wallet.
LEMMA VerifyOwned == OwnInv /\ VerifyStep => LeavesOwned
<1> SUFFICES ASSUME OwnInv, VerifyStep PROVE LeavesOwned
  OBVIOUS
<1>1. CASE Verified
  BY <1>1, EndsOwned, FreshOwned DEF Verified, OwnInv, LeavesOwned, platform, RuntimesOwned
<1>2. ASSUME NEW i \in Inst, VerifyRow(i) PROVE LeavesOwned
  <2>1. /\ st' = [st EXCEPT ![i].status = "live"] \/ st' = st
        /\ file' = st' \/ file' = file
        /\ UNCHANGED runtimes
    BY <1>2 DEF VerifyRow
  <2>2. Owned(st')
    BY <2>1 DEF OwnInv, TypeOK, Entry, Owned
  <2>3. QED
    BY <2>1, <2>2 DEF OwnInv, LeavesOwned, RuntimesOwned
<1>3. QED
  BY <1>1, <1>2 DEF VerifyStep

\* close writes nothing that names a wallet, and its threads bind none.
LEMMA CloseOwned == OwnInv /\ CloseStep => LeavesOwned
<1> SUFFICES ASSUME OwnInv, CloseStep PROVE LeavesOwned
  OBVIOUS
<1>1. CASE CloseReadsOpen
  BY <1>1, EndsOwned DEF CloseReadsOpen, OwnInv, LeavesOwned, RuntimesOwned
<1>2. CASE CloseReadsRuntimes
  BY <1>2 DEF CloseReadsRuntimes, OwnInv, LeavesOwned, RuntimesOwned
<1>3. CASE CloseDone
  BY <1>3, EndsOwned, FreshOwned DEF CloseDone, OwnInv, LeavesOwned, RuntimesOwned, platform
<1>4. ASSUME NEW s \in Sid, CloseThread(s) PROVE LeavesOwned
  BY <1>4, CloseOneOwned DEF CloseThread, OwnInv, LeavesOwned, process
<1>5. QED
  BY <1>1, <1>2, <1>3, <1>4 DEF CloseStep

\* Poll takes the wallet of the strategy it recorded, Record the id the backend
\* returned for the instance; everything else forgets or copies.
LEMMA CreateOwned == OwnInv /\ CreateStep => LeavesOwned
<1> SUFFICES ASSUME OwnInv, CreateStep PROVE LeavesOwned
  OBVIOUS
<1> USE DEF OwnInv, LeavesOwned, RuntimesOwned
<1>1. CASE Reconciled
  BY <1>1 DEF Reconciled, platform
<1>2. CASE CreateReadsRuntimes \/ CreateReadsExisting \/ LiveChecked \/ Submitted
  BY <1>2 DEF CreateReadsRuntimes, CreateReadsExisting, LiveChecked, Submitted, platform
<1>3. CASE CreateForgets
  BY <1>3, EndsOwned, FreshOwned DEF CreateForgets, platform
<1>4. CASE Fund
  BY <1>4, EndsOwned DEF Fund
<1>5. CASE Record
  <2>1. st' = [st EXCEPT ![reply.inst].sid = reply.sid,
                         ![reply.inst].status = "creating",
                         ![reply.inst].error = FALSE]
    BY <1>5 DEF Record, strategy_id_of
  <2>2. ASSUME NEW i \in Inst
        PROVE  st'[i].sid \in {st[i].sid} \cup
                 (IF i = reply.inst THEN {reply.sid} ELSE {})
               /\ st'[i].wallet = st[i].wallet
    BY <2>1 DEF TypeOK, Entry
  <2>3. Owned(st')
    BY <2>2 DEF Owned, ReplyOwned, Own
  <2>4. QED
    BY <1>5, <2>3 DEF Record, platform
<1>6. CASE Polled
  BY <1>6, EndsOwned DEF Polled
<1>7. ASSUME NEW i \in Inst, Reconcile(i) PROVE LeavesOwned
  <2>1. st' = st \/ st' = [st EXCEPT ![i] = Pending]
    BY <1>7 DEF Reconcile
  <2>2. Owned(st')
    BY <2>1 DEF Owned, Pending, Own, TypeOK
  <2>3. QED
    BY <1>7, <2>2 DEF Reconcile
<1>8. ASSUME NEW i \in Inst, Creates(i) PROVE LeavesOwned
  <2>1. UNCHANGED runtimes
    BY <1>8, CreateCall
  <2>2. CASE AsksAgain(i) \/ \E s \in Sid : SubmitAnswered(i, s)
    BY <2>1, <2>2 DEF AsksAgain, SubmitAnswered
  <2>3. CASE SubmitFailed(i)
    <3>1. PICK status :
            file' = [st EXCEPT ![i].status = status, ![i].error = TRUE]
      BY <2>3 DEF SubmitFailed
    <3>2. Owned(file')
      BY <3>1 DEF Owned, TypeOK, Entry
    <3>3. QED
      BY <2>1, <2>3, <3>2, EndsOwned DEF SubmitFailed
  <2>4. QED
    BY <1>8, <2>2, <2>3, CreateCall
<1>9. ASSUME NEW i \in Inst, Poll(i) PROVE LeavesOwned
  <2>1. /\ \/ st' = st
           \/ st' = [st EXCEPT ![i].wallet = st[i].sid, ![i].status = "active"]
        /\ file' = st' \/ file' = file
        /\ UNCHANGED runtimes
    BY <1>9 DEF Poll
  <2>2. Owned(st')
    BY <2>1 DEF Owned, TypeOK, Entry
  <2>3. QED
    BY <2>1, <2>2
<1>10. ASSUME NEW s \in Sid, LiveCheck(s) PROVE LeavesOwned
  BY <1>10, EndsOwned DEF LiveCheck, process
<1>11. ASSUME NEW s \in Sid, CreateCloses(s) PROVE LeavesOwned
  BY <1>11, CloseOneOwned DEF CreateCloses, process
<1>12. CASE Retry
  BY <1>8, <1>12 DEF Retry, RetryInst, Creates
<1>13. QED
  BY <1>1, <1>2, <1>3, <1>4, <1>5, <1>6, <1>7, <1>8, <1>9, <1>10, <1>11, <1>12
  DEF CreateStep, Creates

\* _recover_wallet's candidate belongs to the instance: by its name when there
\* are several instances, by elimination when there is one.
LEMMA CandidatesOwned ==
    ASSUME TypeOK, UsedHasInst, NEW i \in Inst, NEW active,
           active \subseteq {s \in Sid : strategies[s].status = "ACTIVE"}
    PROVE  Candidates(i, active) \subseteq Own(i)
<1> SUFFICES ASSUME NEW s \in Candidates(i, active) PROVE strategies[s].inst = i
  BY DEF Candidates, Own
<1>1. s \in Sid /\ strategies[s].inst \in Inst
  BY DEF Candidates, UsedHasInst, TypeOK, PlatformTypeOK, Strategy
<1>2. CASE Cardinality(Inst) = 1
  <2>1. \E x : Inst = {x}
    BY <1>2, PlatformAssumption, FS_Singleton
  <2>2. QED
    BY <1>1, <2>1
<1>3. CASE strategies[s].named /\ strategies[s].inst = i
  BY <1>3
<1>4. QED
  BY <1>2, <1>3 DEF Candidates, Matches

\* runtime records only wallets of the instance, and registers only on them.
LEMMA RuntimeOwned == OwnInv /\ RuntimeStep => LeavesOwned
<1> SUFFICES ASSUME OwnInv, RuntimeStep PROVE LeavesOwned
  OBVIOUS
<1> USE DEF OwnInv, LeavesOwned
<1>1. CASE Recover
  <2>1. PICK active \in SUBSET Sid :
          /\ \/ active = {s \in Sid : strategies[s].status = "ACTIVE"} /\ Smooth
             \/ active = {} /\ Mishap("strategy_list")
          /\ LET found == {i \in todo : Cardinality(Candidates(i, active)) = 1}
                 healed == [i \in Inst |->
                              IF i \in found
                              THEN [st[i] EXCEPT
                                      !.wallet = CHOOSE s \in Candidates(i, active) : TRUE,
                                      !.status = "active"]
                              ELSE st[i]]
             IN /\ file' = IF found = {} THEN file ELSE healed
                /\ IF found = todo
                   THEN /\ Goto("r.find")
                        /\ st' = healed
                        /\ todo' = Inst
                        /\ UNCHANGED <<closing, reply, allLive, up>>
                   ELSE Ends("unresolved")
    BY <1>1 DEF Recover
  <2> DEFINE found == {i \in todo : Cardinality(Candidates(i, active)) = 1}
             healed == [i \in Inst |->
                          IF i \in found
                          THEN [st[i] EXCEPT
                                  !.wallet = CHOOSE s \in Candidates(i, active) : TRUE,
                                  !.status = "active"]
                          ELSE st[i]]
  <2>2. (file' = file \/ file' = healed) /\ (st' = healed \/ Ends("unresolved"))
    BY <2>1
  <2>3. ASSUME NEW i \in Inst
        PROVE  healed[i].sid \in Own(i) /\ healed[i].wallet \in Own(i)
    <3>1. CASE i \in found
      <4>1. (CHOOSE s \in Candidates(i, active) : TRUE) \in Own(i)
        BY <2>1, <3>1, FoundCandidate, CandidatesOwned
      <4>2. QED
        BY <3>1, <4>1 DEF Owned, TypeOK, Entry
    <3>2. CASE i \notin found
      BY <3>2 DEF Owned
    <3>3. QED
      BY <3>1, <3>2
  <2>4. Owned(healed)
    BY <2>3 DEF Owned
  <2> HIDE DEF found, healed
  <2>5. QED
    BY <1>1, <2>2, <2>4, EndsOwned DEF Recover, RuntimesOwned
<1>2. CASE DeleteOld
  BY <1>2, DeleteOwned DEF DeleteOld, RuntimesOwned
<1>3. CASE RegisterRuntime
  <2>1. /\ \/ st' = [st EXCEPT ![reply.inst].status = "registered",
                               ![reply.inst].error = FALSE]
           \/ st' = [st EXCEPT ![reply.inst].error = TRUE]
        /\ file' = st'
        /\ CreateRuntime(reply.inst, st[reply.inst].wallet) \/ UNCHANGED runtimes
    BY <1>3 DEF RegisterRuntime
  <2>2. ASSUME NEW i \in Inst
        PROVE  st'[i].sid = st[i].sid /\ st'[i].wallet = st[i].wallet
    BY <2>1 DEF TypeOK, Entry
  <2>3. Owned(st')
    BY <2>2 DEF Owned
  <2>4. ASSUME NEW i \in Inst PROVE runtimes'[i].wallet \in Own(i)
    BY <2>1 DEF CreateRuntime, RuntimesOwned, Owned, TypeOK, PlatformTypeOK
  <2>5. QED
    BY <2>1, <2>3, <2>4
<1>4. CASE RuntimeDone
  BY <1>4, EndsOwned DEF RuntimeDone, platform, RuntimesOwned
<1>5. ASSUME NEW i \in Inst, FindRuntime(i) PROVE LeavesOwned
  <2>1. /\ \/ st' = [st EXCEPT ![i].status = "registered", ![i].error = FALSE]
           \/ st' = [st EXCEPT ![i].error = FALSE]
        /\ file' = st' \/ file' = file
        /\ UNCHANGED runtimes
    BY <1>5 DEF FindRuntime
  <2>2. ASSUME NEW j \in Inst
        PROVE  st'[j].sid = st[j].sid /\ st'[j].wallet = st[j].wallet
    BY <2>1 DEF TypeOK, Entry
  <2>3. Owned(st')
    BY <2>2 DEF Owned
  <2>4. QED
    BY <2>1, <2>3 DEF RuntimesOwned
<1>6. QED
  BY <1>1, <1>2, <1>3, <1>4, <1>5 DEF RuntimeStep

\* Starting, killing and the environment name no wallet that was not named.
LEMMA OtherOwned ==
    OwnInv /\ (Start \/ Kill \/ KillWhileSaving \/ Environment) => LeavesOwned
<1> SUFFICES ASSUME OwnInv, Start \/ Kill \/ KillWhileSaving \/ Environment
             PROVE  LeavesOwned
  OBVIOUS
<1> USE DEF OwnInv, LeavesOwned, RuntimesOwned
<1>1. CASE Start
  BY <1>1 DEF Start, StartCreate, StartRuntime, StartVerify, StartClose,
              StartCloseAll, Starts, platform
<1>2. CASE Kill \/ KillWhileSaving
  BY <1>2, EndsOwned, FreshOwned DEF Kill, KillWhileSaving, Dies
<1>3. CASE Environment
  <2>1. ASSUME NEW i \in Inst, RuntimeFails(i) \/ RuntimeRecovers(i)
        PROVE  \A j \in Inst : runtimes'[j].wallet = runtimes[j].wallet
    BY <2>1 DEF RuntimeFails, RuntimeRecovers, TypeOK, PlatformTypeOK, Runtime
  <2>2. \A j \in Inst : runtimes'[j].wallet = runtimes[j].wallet
    BY <1>3, <2>1 DEF Environment, PlatformStep, Activate, FundingFails, Flattened,
                      AppClose, AppPause
  <2>3. QED
    BY <1>3, <2>2 DEF Environment, Rest, process
<1>4. QED
  BY <1>1, <1>2, <1>3

\* The answer that is not recorded yet: the id of the strategy the backend has
\* just created for the instance.
LEMMA ReplyStays ==
    ASSUME OwnInv, Next, \A i \in Inst : Own(i) \subseteq Own(i)'
    PROVE  ReplyOwned'
<1> USE DEF ReplyOwned
<1>1. CASE UNCHANGED reply
  BY <1>1 DEF OwnInv
<1>2. CASE reply'.sid = None
  BY <1>2
<1>3. ASSUME NEW i \in Inst, Creates(i) PROVE ReplyOwned'
  <2>1. CASE SubmitFailed(i) \/ AsksAgain(i)
    BY <2>1 DEF SubmitFailed, AsksAgain, Ends, NoReply
  <2>2. ASSUME NEW s \in Sid, NEW named \in BOOLEAN,
               CreateStrategy(i, s, named, FALSE), SubmitAnswered(i, s)
        PROVE  ReplyOwned'
    BY <2>2 DEF CreateStrategy, SubmitAnswered, Own, OwnInv, TypeOK, PlatformTypeOK
  <2>3. QED
    BY <1>3, <2>1, <2>2, CreateCall
<1>4. \/ UNCHANGED reply
      \/ reply'.sid = None
      \/ \E i \in Inst : Creates(i)
  <2>1. ASSUME NEW result, Ends(result) PROVE reply'.sid = None
    BY <2>1 DEF Ends, NoReply
  <2>2. CASE Start
    BY <2>2 DEF Start, StartCreate, StartRuntime, StartVerify, StartClose,
                StartCloseAll, Starts
  <2>3. CASE Kill \/ KillWhileSaving
    BY <2>1, <2>3 DEF Kill, KillWhileSaving, Dies
  <2>4. CASE Environment
    BY <2>4 DEF Environment, Rest, process
  <2>5. CASE VerifyStep
    BY <2>1, <2>5 DEF VerifyStep, Verified, VerifyRow
  <2>6. CASE CloseStep
    BY <2>1, <2>6 DEF CloseStep, CloseReadsOpen, CloseReadsRuntimes, CloseDone,
                      CloseThread, process
  <2>7. CASE RuntimeStep
    <3>1. CASE Recover
      <4>1. UNCHANGED reply \/ Ends("unresolved")
        BY <3>1 DEF Recover
      <4>2. QED
        BY <2>1, <4>1
    <3>2. ASSUME NEW i \in Inst, FindRuntime(i)
          PROVE  UNCHANGED reply \/ reply' = [NoReply EXCEPT !.inst = i]
      BY <3>2 DEF FindRuntime
    <3>3. QED
      BY <2>1, <2>7, <3>1, <3>2
      DEF RuntimeStep, DeleteOld, RegisterRuntime, RuntimeDone, NoReply
  <2>8. CASE CreateStep
    <3>1. CASE Fund \/ Polled \/ CreateForgets
      <4>1. UNCHANGED reply \/ \E result \in Report : Ends(result)
        BY <3>1 DEF Fund, Polled, CreateForgets, Report
      <4>2. QED
        BY <2>1, <4>1
    <3>2. ASSUME NEW s \in Sid, LiveCheck(s)
          PROVE  UNCHANGED reply \/ Ends("refused")
      BY <3>2 DEF LiveCheck, process
    <3>3. CASE Record
      BY <3>3 DEF Record, NoReply
    <3>4. CASE \/ Reconciled \/ CreateReadsRuntimes \/ CreateReadsExisting
               \/ LiveChecked \/ Submitted
      BY <3>4 DEF Reconciled, CreateReadsRuntimes, CreateReadsExisting, LiveChecked,
                  Submitted
    <3>5. ASSUME NEW i \in Inst, Reconcile(i) \/ Poll(i) PROVE UNCHANGED reply
      BY <3>5 DEF Reconcile, Poll
    <3>6. ASSUME NEW s \in Sid, CreateCloses(s) PROVE UNCHANGED reply
      BY <3>6 DEF CreateCloses, process
    <3>7. CASE Retry
      BY <3>7 DEF Retry, RetryInst, Creates, OwnInv
    <3>8. QED
      BY <2>1, <2>8, <3>1, <3>2, <3>3, <3>4, <3>5, <3>6, <3>7 DEF CreateStep, Creates
  <2>9. QED
    BY <2>2, <2>3, <2>4, <2>5, <2>6, <2>7, <2>8 DEF Next, Work
<1>5. QED
  BY <1>1, <1>2, <1>3, <1>4

\* create repeats the call for the instance it made the first one for.
LEMMA RetryStays == ASSUME OwnInv, Next PROVE RetryInst'
<1> SUFFICES ASSUME pc' = "c.retry" PROVE reply'.inst \in Inst
  BY DEF RetryInst
<1>1. CASE Environment
  BY <1>1 DEF Environment, Rest, process, OwnInv, RetryInst
<1>2. ASSUME NEW i \in Inst, Submit(i) PROVE reply'.inst \in Inst
  <2>1. AsksAgain(i)
    BY <1>2, CreateCall DEF Creates, SubmitFailed, SubmitAnswered, Ends, Goto
  <2>2. QED
    BY <2>1 DEF AsksAgain, NoReply
<1>3. ~CreateReadsExisting /\ ~Fund /\ ~Record
  BY DEF CreateReadsExisting, Fund, Record, Goto, Ends
<1>4. QED
  BY <1>1, <1>2, <1>3, FundSteps DEF FundPCs

\* Every step keeps the inductive invariant.
LEMMA StepOwn == OwnInv /\ [Next]_vars => OwnInv'
<1>1. ASSUME OwnInv, UNCHANGED vars PROVE OwnInv'
  <2>1. TypeOK'
    BY <1>1, StepTypes DEF OwnInv
  <2>2. QED
    BY <1>1, <2>1 DEF OwnInv, UsedHasInst, Owned, ReplyOwned, RetryInst, RuntimesOwned,
                      Own, vars, platform, process
<1>2. ASSUME OwnInv, Next PROVE OwnInv'
  <2>1. TypeOK'
    BY <1>2, StepTypes DEF OwnInv
  <2>2. UsedHasInst' /\ \A i \in Inst : Own(i) \subseteq Own(i)'
    BY <1>2, OwnersKept DEF OwnInv
  <2>3. LeavesOwned
    BY <1>2, CreateOwned, RuntimeOwned, VerifyOwned, CloseOwned, OtherOwned DEF Next, Work
  <2>4. Owned(file)' /\ Owned(st)' /\ RuntimesOwned'
    BY <2>2, <2>3 DEF LeavesOwned, Owned, RuntimesOwned
  <2>5. ReplyOwned'
    BY <1>2, <2>2, ReplyStays
  <2>6. RetryInst'
    BY <1>2, RetryStays
  <2>7. QED
    BY <2>1, <2>2, <2>4, <2>5, <2>6 DEF OwnInv
<1>3. QED
  BY <1>1, <1>2

\* No wallet of one instance is ever recorded for, or traded by the runtime of,
\* another: also not when the state was lost and _recover_wallet found it again.
THEOREM WalletBelongsTheorem == Spec => []WalletBelongs
<1>1. OwnInv => WalletBelongs
  BY PlatformAssumption DEF OwnInv, Owned, Own, RuntimesOwned, WalletBelongs, Registered
<1>2. QED
  BY InitOwn, StepOwn, <1>1, PTL DEF Spec

-----------------------------------------------------------------------------

(***************************************************************************)
(* What create, runtime, verify and close promise about money and          *)
(* positions, for every package, every supply of strategies, any number of *)
(* mishaps and every operator or one who goes by the reports.  Each        *)
(* theorem names the kinds of mishap its property does not survive.        *)
(***************************************************************************)

(***************************************************************************)
(* No instance is funded twice.                                            *)
(***************************************************************************)

\* While create funds: at first nothing of the package is open; then nothing
\* open belongs to an instance still to be funded, but to the one create is at;
\* before the call is repeated, only a strategy the first call made and lost.
FundsUnheld ==
    /\ pc = "c.fund" => \A s \in Sid : ~strategy_open(s)
    /\ pc = "c.submit" =>
         \A s \in Sid : strategy_open(s) => strategies[s].inst \notin todo
    /\ pc = "c.retry" => reply.inst \in todo
    /\ pc \in {"c.retry", "c.record"} =>
         \A s \in Sid : strategy_open(s) /\ strategies[s].inst \in todo
                        => strategies[s].inst = reply.inst
    /\ pc = "c.retry" =>
         \A s \in Sid : strategy_open(s) /\ strategies[s].inst = reply.inst
                        => strategies[s].lost

\* The inductive invariant.
FundInv == OwnInv /\ FundsUnheld /\ OneOpenStrategyPerInstance

\* Nothing opens but by create's submit, and no strategy changes hands.
LEMMA OpenOnlySubmitted ==
    ASSUME OwnInv, Next, ~\E i \in Inst : Creates(i)
    PROVE  \A s \in Sid : strategy_open(s)' =>
             /\ strategy_open(s) /\ strategies'[s].inst = strategies[s].inst
             /\ strategies'[s].lost = strategies[s].lost
<1> USE DEF OwnInv, TypeOK, PlatformTypeOK
<1>1. \/ UNCHANGED strategies
      \/ \E s \in Sid, status \in Status \ {"UNUSED"} :
           strategy_open(s) /\ SetStatus(s, status)
  BY StrategyChanges
<1>2. CASE UNCHANGED strategies
  BY <1>2 DEF strategy_open
<1>3. ASSUME NEW s \in Sid, NEW status \in Status \ {"UNUSED"},
             strategy_open(s), SetStatus(s, status)
      PROVE  \A t \in Sid : strategy_open(t)' =>
               /\ strategy_open(t) /\ strategies'[t].inst = strategies[t].inst
               /\ strategies'[t].lost = strategies[t].lost
  BY <1>3 DEF SetStatus, Strategy, strategy_open
<1>4. QED
  BY <1>1, <1>2, <1>3

\* create funds only what it has seen that nothing holds.
LEMMA FundsStayUnheld ==
    ASSUME "strategy_list" \notin Mishaps, FundInv, Next
    PROVE  FundsUnheld'
<1> USE DEF FundInv
<1> SUFFICES ASSUME pc' \in FundPCs PROVE FundsUnheld'
  BY DEF FundsUnheld, FundPCs
<1>0. TypeOK
  BY DEF OwnInv
<1>1. CASE CreateReadsExisting
  <2>1. PICK open \in SUBSET Sid :
          /\ existing_open(open)
          /\ IF open = {} THEN Goto("c.fund") ELSE Goto("c.livecheck")
    BY <1>1 DEF CreateReadsExisting
  <2>2. UNCHANGED strategies /\ pc' = "c.fund" /\ open = {}
    BY <1>1, <2>1 DEF CreateReadsExisting, Goto, FundPCs
  <2>3. \A s \in Sid : ~strategy_open(s)
    BY <2>1, <2>2 DEF existing_open, ReadOpen, Mishap
  <2>4. QED
    BY <2>2, <2>3 DEF FundsUnheld, strategy_open
<1>2. CASE Fund
  <2>1. UNCHANGED strategies /\ pc' = "c.submit" /\ pc = "c.fund"
    BY <1>2 DEF Fund, Goto, Ends, FundPCs
  <2>2. QED
    BY <2>1 DEF FundsUnheld, strategy_open
<1>3. CASE Record
  <2>1. /\ UNCHANGED strategies /\ pc' = "c.submit" /\ pc = "c.record"
        /\ todo' = todo \ {reply.inst}
    BY <1>3 DEF Record, Goto, platform
  <2>2. ASSUME NEW s \in Sid, strategy_open(s), strategies[s].inst \in todo
        PROVE  strategies[s].inst = reply.inst
    BY <2>1, <2>2 DEF FundsUnheld
  <2>3. QED
    BY <2>1, <2>2 DEF FundsUnheld, strategy_open
<1>4. CASE Environment
  <2>1. UNCHANGED <<pc, todo, reply>>
    BY <1>4 DEF Environment, Rest, process
  <2>2. ~\E i \in Inst : Creates(i)
    <3>1. ASSUME NEW i \in Inst, Creates(i) PROVE pc' # pc
      BY <3>1 DEF Creates, Submit, Retry, SubmitFailed, SubmitAnswered, Goto, Ends
    <3>2. QED
      BY <2>1, <3>1
  <2>3. \A s \in Sid : strategy_open(s)' =>
          /\ strategy_open(s) /\ strategies'[s].inst = strategies[s].inst
          /\ strategies'[s].lost = strategies[s].lost
    BY <2>2, OpenOnlySubmitted
  <2>4. QED
    BY <2>1, <2>3 DEF FundsUnheld
<1>5. ASSUME NEW i \in Inst, Submit(i) PROVE FundsUnheld'
  <2>1. /\ pc = "c.submit" /\ i \in todo /\ todo' = todo /\ reply'.inst = i
        /\ pc' \in {"c.retry", "c.record"}
    <3>1. pc = "c.submit" /\ i \in todo /\ Creates(i)
      BY <1>5 DEF Submit, Creates
    <3>2. AsksAgain(i) \/ \E s \in Sid : SubmitAnswered(i, s)
      BY <3>1, CreateCall DEF SubmitFailed, Ends, FundPCs
    <3>3. QED
      BY <3>1, <3>2 DEF AsksAgain, SubmitAnswered, NoReply, Goto
  <2>2. \A s \in Sid : strategy_open(s) => strategies[s].inst \notin todo
    BY <2>1 DEF FundsUnheld
  <2>3. CASE UNCHANGED strategies
    BY <2>1, <2>2, <2>3 DEF FundsUnheld, strategy_open
  <2>4. ASSUME NEW s \in Sid, NEW named \in BOOLEAN, NEW lost \in BOOLEAN,
               CreateStrategy(i, s, named, lost), pc' = "c.retry" => lost
        PROVE  FundsUnheld'
    <3>1. /\ \A t \in Sid \ {s} : strategies'[t] = strategies[t]
          /\ strategies'[s].inst = i /\ strategies'[s].lost = lost
      BY <2>4, <1>0 DEF CreateStrategy, TypeOK, PlatformTypeOK
    <3>2. QED
      BY <2>1, <2>2, <2>4, <3>1 DEF FundsUnheld, strategy_open
  <2>5. \/ UNCHANGED strategies
        \/ \E s \in Sid, named, lost \in BOOLEAN :
             CreateStrategy(i, s, named, lost) /\ (pc' = "c.retry" => lost)
    BY <1>5, <2>1 DEF Submit, SubmitFailed, SubmitAnswered, Goto, Ends
  <2>6. QED
    BY <2>3, <2>4, <2>5
<1>6. CASE Retry /\ pc' = "c.record"
  <2>1. PICK s \in Sid :
          /\ CreateStrategy(reply.inst, s, FALSE, FALSE)
          /\ reply' = [inst |-> reply.inst, sid |-> s]
          /\ pc = "c.retry" /\ todo' = todo
    BY <1>6 DEF Retry, SubmitFailed, SubmitAnswered, Goto, Ends
  <2>2. \A t \in Sid \ {s} : strategies'[t] = strategies[t]
    BY <2>1, <1>0 DEF CreateStrategy, TypeOK, PlatformTypeOK
  <2>3. strategies'[s].inst = reply.inst
    BY <2>1, <1>0 DEF CreateStrategy, TypeOK, PlatformTypeOK
  <2>4. QED
    BY <1>6, <2>1, <2>2, <2>3 DEF FundsUnheld, strategy_open
<1>7. QED
  BY <1>1, <1>2, <1>3, <1>4, <1>5, <1>6, FundSteps

\* So a second strategy opens beside a lost one at most, and beside no other.
LEMMA OneOpenKept ==
    ASSUME FundInv, Next
    PROVE  OneOpenStrategyPerInstance'
<1> USE DEF FundInv, OneOpenStrategyPerInstance
<1>1. CASE ~\E i \in Inst : Creates(i)
  BY <1>1, OpenOnlySubmitted
<1>2. ASSUME NEW i \in Inst, Creates(i) PROVE OneOpenStrategyPerInstance'
  <2>1. CASE UNCHANGED strategies
    BY <2>1 DEF strategy_open
  <2>2. ASSUME NEW s \in Sid, NEW named \in BOOLEAN, NEW lost \in BOOLEAN,
               CreateStrategy(i, s, named, lost),
               \A t \in Sid : strategy_open(t) /\ strategies[t].inst = i
                             => strategies[t].lost # lost
        PROVE  OneOpenStrategyPerInstance'
    <3>1. /\ \A t \in Sid \ {s} : strategies'[t] = strategies[t]
          /\ strategies'[s].inst = i /\ strategies'[s].lost = lost
      BY <2>2 DEF CreateStrategy, OwnInv, TypeOK, PlatformTypeOK
    <3>2. QED
      BY <2>2, <3>1 DEF strategy_open
  <2>3. CASE Submit(i)
    <3>1. \A t \in Sid : strategy_open(t) => strategies[t].inst # i
      BY <2>3 DEF Submit, FundsUnheld
    <3>2. QED
      BY <1>2, <2>1, <2>2, <3>1, CreateCall
  <2>4. CASE Retry /\ i = reply.inst
    <3>1. \A t \in Sid : strategy_open(t) /\ strategies[t].inst = i => strategies[t].lost
      BY <2>4 DEF Retry, FundsUnheld
    <3>2. \/ UNCHANGED strategies
          \/ \E s \in Sid : CreateStrategy(i, s, FALSE, FALSE)
      BY <2>4 DEF Retry, CallFails
    <3>3. QED
      BY <2>1, <2>2, <3>1, <3>2
  <2>5. QED
    BY <1>2, <2>3, <2>4 DEF Creates
<1>3. QED
  BY <1>1, <1>2

\* Nothing is open at the start.
LEMMA InitFund == Init => FundInv
<1>1. Init => FundsUnheld /\ OneOpenStrategyPerInstance
  BY DEF Init, PlatformInit, FundsUnheld, OneOpenStrategyPerInstance, strategy_open,
         LIVE_STATUSES
<1>2. QED
  BY <1>1, InitOwn DEF FundInv

\* A strategy_list that answers keeps every instance at one open strategy, and one
\* more at most that was made by a call whose error create took for a refused name:
\* for any package and however often create is killed and run again, between any
\* two of its calls, by whichever command before it.
THEOREM NeverFundsTwice ==
    ASSUME "strategy_list" \notin Mishaps
    PROVE  Spec => []OneOpenStrategyPerInstance
<1>1. FundInv /\ [Next]_vars => FundInv'
  <2>1. ASSUME FundInv, Next PROVE FundInv'
    BY <2>1, FundsStayUnheld, OneOpenKept, StepOwn DEF FundInv
  <2>2. ASSUME FundInv, UNCHANGED vars PROVE FundInv'
    <3>1. OwnInv'
      BY <2>2, StepOwn DEF FundInv
    <3>2. QED
      BY <2>2, <3>1 DEF FundInv, FundsUnheld, OneOpenStrategyPerInstance, strategy_open,
                        vars, platform, process
  <2>3. QED
    BY <2>1, <2>2
<1>2. FundInv => OneOpenStrategyPerInstance
  BY DEF FundInv
<1>3. QED
  BY InitFund, <1>1, <1>2, PTL DEF Spec

(***************************************************************************)
(* No strategy is closed under a runtime of its own.                       *)
(***************************************************************************)

\* Where close_one's jobs may have begun, and where the inventory they share
\* has been read.
JobPCs  == {"c.livecheck", "c.close", "x.close", "a.close"}
ReadPCs == JobPCs \cup {"c.existing"}

JobsInTime == \A s \in Sid : job[s] # "none" => pc \in JobPCs

\* The inventory lists every instance's runtime on a wallet of the instance,
\* and every runtime there still is: none is registered while one reads it.
InventoryOwned == \A i \in Inst : rts[i] \in Own(i)
InventoryHolds ==
    pc \in ReadPCs => \A i \in Inst : Registered(i) => rts[i] = runtimes[i].wallet

NoRuntimeOn(s) == \A i \in Inst : runtimes[i].wallet # s

\* A job that looks whether a runtime is gone looks for the wallet's own one,
\* and a job that submits has found none.
JobsSafe ==
    \A s \in Sid :
        /\ job[s] \in {"check1", "stop2", "check2"} => HasRuntime(s)
        /\ job[s] = "submit" => NoRuntimeOn(s)

\* The inductive invariant.
StopInv == OwnInv /\ JobsInTime /\ InventoryOwned /\ InventoryHolds /\ JobsSafe

\* A step that is no part of a teardown: it registers nothing where the
\* inventory has been read, and neither enters nor leaves such a point unnoticed.
Quiet ==
    /\ UNCHANGED <<rts, job>>
    /\ pc \in JobPCs => pc' \in JobPCs
    /\ pc' \in ReadPCs => /\ pc \in ReadPCs
                          /\ \A i \in Inst : runtimes'[i].wallet = runtimes[i].wallet
    /\ pc' \in JobPCs \cap CreatePCs => pc \in CreatePCs

\* What every step does to a teardown.
LEMMA TeardownSteps ==
    ASSUME TypeOK, Next
    PROVE  \/ ClosingReset /\ pc' = "idle"
           \/ Quiet
           \/ CreateReadsRuntimes
           \/ CloseReadsRuntimes
           \/ \E s \in Sid : LiveCheck(s)
           \/ \E s \in Sid : /\ close_one(s) /\ UNCHANGED <<pc, rts>>
                             /\ pc \in {"c.close", "x.close", "a.close"}
<1> DEFINE Reset == ClosingReset /\ pc' = "idle"
<1>0. ASSUME NEW result, Ends(result) PROVE Reset
  BY <1>0 DEF Ends
<1> HIDE DEF Reset
<1> USE DEF Quiet, JobPCs, ReadPCs, CreatePCs
<1>1. CASE Start
  BY <1>1 DEF Start, StartCreate, StartRuntime, StartVerify, StartClose,
              StartCloseAll, Starts, MayRun, closing
<1>2. CASE Kill \/ KillWhileSaving
  BY <1>0, <1>2 DEF Kill, KillWhileSaving, Dies, Reset
<1>3. CASE Environment
  <2>1. UNCHANGED <<pc, rts, job>>
    BY <1>3 DEF Environment, Rest, closing, process
  <2>2. ASSUME NEW i \in Inst, RuntimeFails(i) \/ RuntimeRecovers(i)
        PROVE  \A j \in Inst : runtimes'[j].wallet = runtimes[j].wallet
    BY <2>2 DEF RuntimeFails, RuntimeRecovers, TypeOK, PlatformTypeOK, Runtime
  <2>3. \A j \in Inst : runtimes'[j].wallet = runtimes[j].wallet
    BY <1>3, <2>2 DEF Environment, PlatformStep, Activate, FundingFails, Flattened,
                      AppClose, AppPause
  <2>4. QED
    BY <2>1, <2>3
<1>4. CASE VerifyStep
  BY <1>0, <1>4 DEF VerifyStep, Verified, VerifyRow, closing, Reset
<1>5. CASE RuntimeStep
  <2>1. CASE Recover
    <3>1. Ends("unresolved") \/ (Goto("r.find") /\ UNCHANGED closing)
      BY <2>1 DEF Recover
    <3>2. QED
      BY <1>0, <2>1, <3>1 DEF Recover, Goto, closing, Reset
  <2>2. ASSUME NEW i \in Inst, FindRuntime(i) PROVE Quiet
    <3>1. /\ UNCHANGED closing /\ pc = "r.find"
          /\ pc' \in {pc, "r.create", "r.delete"}
      BY <2>2 DEF FindRuntime
    <3>2. QED
      BY <3>1 DEF closing
  <2>3. CASE DeleteOld \/ RegisterRuntime
    <3>1. /\ UNCHANGED closing /\ pc \in {"r.delete", "r.create"}
          /\ pc' \in {"r.create", "r.find"}
      BY <2>3 DEF DeleteOld, RegisterRuntime, Goto
    <3>2. QED
      BY <3>1 DEF closing
  <2>4. CASE RuntimeDone
    BY <1>0, <2>4 DEF RuntimeDone, Reset
  <2>5. QED
    BY <1>5, <2>1, <2>2, <2>3, <2>4 DEF RuntimeStep
<1>6. CASE CloseStep
  <2>1. CASE CloseReadsOpen
    <3>1. \/ Ends("nothing-open")
          \/ UNCHANGED <<rts, job>> /\ pc' \in {"x.runtimes", "a.runtimes"}
      BY <2>1 DEF CloseReadsOpen, Goto
    <3>2. QED
      BY <1>0, <2>1, <3>1 DEF CloseReadsOpen, Reset
  <2>2. CASE CloseDone
    BY <1>0, <2>2 DEF CloseDone, Reset
  <2>3. ASSUME NEW s \in Sid, CloseThread(s)
        PROVE  /\ close_one(s) /\ UNCHANGED <<pc, rts>>
               /\ pc \in {"c.close", "x.close", "a.close"}
    BY <2>3 DEF CloseThread, process, close_one, Stop, NothingToStop, StopAgain,
                CheckStopped, SubmitClose
  <2>4. QED
    BY <1>6, <2>1, <2>2, <2>3 DEF CloseStep
<1>7. CASE CreateStep
  <2>1. CASE Reconciled \/ Record \/ Submitted
    BY <2>1 DEF Reconciled, Record, Submitted, Goto, closing
  <2>2. CASE LiveChecked
    BY <2>2 DEF LiveChecked, Goto, closing, platform
  <2>3. CASE CreateReadsExisting
    <3>1. pc' \in {"c.fund", "c.livecheck"} /\ UNCHANGED <<rts, job, runtimes>>
      BY <2>3 DEF CreateReadsExisting, Goto
    <3>2. QED
      BY <2>3, <3>1 DEF CreateReadsExisting
  <2>4. CASE CreateForgets
    BY <1>0, <2>4 DEF CreateForgets, Reset
  <2>5. CASE Fund
    <3>1. Ends("underfunded") \/ (pc' = "c.submit" /\ UNCHANGED closing)
      BY <2>5 DEF Fund, Goto
    <3>2. QED
      BY <1>0, <2>5, <3>1 DEF Fund, closing, Reset
  <2>6. CASE Polled
    <3>1. Ends("wallets-ready") \/ Ends("creating") \/ UNCHANGED <<closing, pc>>
      BY <2>6 DEF Polled
    <3>2. QED
      BY <1>0, <2>6, <3>1 DEF Polled, closing, Reset
  <2>7. ASSUME NEW i \in Inst, Reconcile(i) \/ Poll(i) PROVE Quiet
    BY <2>7 DEF Reconcile, Poll, closing
  <2>8. ASSUME NEW i, Creates(i) PROVE Reset \/ Quiet
    <3>1. \/ Ends("failed")
          \/ pc' \in {"c.retry", "c.record"} /\ UNCHANGED closing
      BY <2>8, CreateCall DEF SubmitFailed, SubmitAnswered, AsksAgain, Goto
    <3>2. pc \in {"c.submit", "c.retry"}
      BY <2>8 DEF Creates, Submit, Retry
    <3>3. QED
      BY <1>0, <3>1, <3>2 DEF closing
  <2>9. ASSUME NEW s \in Sid, CreateCloses(s)
        PROVE  /\ close_one(s) /\ UNCHANGED <<pc, rts>>
               /\ pc \in {"c.close", "x.close", "a.close"}
    BY <2>9 DEF CreateCloses, process, close_one, Stop, NothingToStop, StopAgain,
                CheckStopped, SubmitClose
  <2>10. QED
    BY <1>7, <2>1, <2>2, <2>3, <2>4, <2>5, <2>6, <2>7, <2>8, <2>9
    DEF CreateStep, Creates, Reset
<1>8. QED
  BY <1>1, <1>2, <1>3, <1>4, <1>5, <1>6, <1>7 DEF Next, Work

\* Jobs run where close_one does.
LEMMA JobsKept == ASSUME TypeOK, JobsInTime, Next PROVE JobsInTime'
<1> USE DEF JobsInTime
<1>1. CASE ClosingReset /\ pc' = "idle"
  BY <1>1 DEF ClosingReset, NoJobs
<1>2. CASE Quiet
  BY <1>2 DEF Quiet
<1>3. CASE CreateReadsRuntimes \/ CloseReadsRuntimes
  BY <1>3 DEF CreateReadsRuntimes, CloseReadsRuntimes, StartJobs, Goto, JobPCs
<1>4. ASSUME NEW s \in Sid, LiveCheck(s) PROVE JobsInTime'
  BY <1>4 DEF LiveCheck, Ends, ClosingReset, NoJobs, JobPCs, process
<1>5. ASSUME NEW s \in Sid, UNCHANGED pc, pc \in {"c.close", "x.close", "a.close"}
      PROVE  JobsInTime'
  BY <1>5 DEF JobPCs
<1>6. QED
  BY <1>1, <1>2, <1>3, <1>4, <1>5, TeardownSteps

\* An inventory that can be read is the registry's.
LEMMA ReadsRegistry ==
    ASSUME "inventory" \notin Mishaps, OwnInv, NEW inventory, ReadRuntimes(inventory)
    PROVE  \A i \in Inst : inventory[i] = runtimes[i].wallet /\ inventory[i] \in Own(i)
BY DEF ReadRuntimes, Mishap, OwnInv, RuntimesOwned

\* The runtime the inventory names for a wallet is the only one on the wallet.
LEMMA OnlyRuntime ==
    ASSUME StopInv, pc \in ReadPCs, NEW s \in Sid, NEW i \in Inst,
           runtimes[i].wallet = s
    PROVE  HasRuntime(s) /\ RuntimeOf(s) = i
<1>1. Registered(i) /\ rts[i] = s
  BY PlatformAssumption DEF StopInv, InventoryHolds, Registered
<1>2. \A j \in Inst : rts[j] = s => j = i
  BY <1>1, PlatformAssumption DEF StopInv, InventoryOwned, Own
<1>3. QED
  BY <1>1, <1>2 DEF HasRuntime, RuntimeOf

\* One step of close_one submits nothing under a runtime.
LEMMA CloseOneSafe ==
    ASSUME StopInv, pc \in ReadPCs, NEW s \in Sid, close_one(s)
    PROVE  /\ \A i \in Inst : runtimes'[i].wallet \in {None, runtimes[i].wallet}
           /\ \A t \in Sid \ {s} : job'[t] = job[t]
           /\ job'[s] \in {"check1", "stop2", "check2"} => HasRuntime(s)
           /\ job'[s] = "submit" => NoRuntimeOn(s)
<1> USE DEF StopInv, OwnInv, TypeOK, CloseTypeOK, PlatformTypeOK
<1>1. UNCHANGED runtimes \/ DeleteRuntime(RuntimeOf(s))
  BY DEF close_one, Stop, NothingToStop, StopAgain, CheckStopped, SubmitClose,
         DeleteOn, platform
<1>2. \A i \in Inst : runtimes'[i].wallet \in {None, runtimes[i].wallet}
  BY <1>1 DEF DeleteRuntime, NoRuntime, Runtime
<1>3. \A t \in Sid \ {s} : job'[t] = job[t]
  BY DEF close_one, Stop, NothingToStop, StopAgain, CheckStopped, SubmitClose, JobGoes
<1>4. CASE Stop(s) \/ StopAgain(s)
  BY <1>2, <1>3, <1>4 DEF Stop, StopAgain, JobGoes, JobsSafe
<1>5. CASE NothingToStop(s)
  <2>1. NoRuntimeOn(s)
    BY <1>5, OnlyRuntime DEF NothingToStop, NoRuntimeOn
  <2>2. QED
    BY <1>2, <1>3, <1>5, <2>1 DEF NothingToStop, JobGoes, AfterStop
<1>6. CASE CheckStopped(s)
  <2>1. HasRuntime(s)
    BY <1>6 DEF CheckStopped, JobsSafe
  <2>2. PICK gone \in BOOLEAN :
          /\ runtime_gone(RuntimeOf(s), gone)
          /\ JobGoes(s, IF job[s] = "check1"
                        THEN (IF gone THEN "check2" ELSE "stop2")
                        ELSE (IF gone THEN AfterStop(s) ELSE "failed"))
    BY <1>6 DEF CheckStopped
  <2>3. gone => NoRuntimeOn(s)
    <3> SUFFICES ASSUME gone, NEW i \in Inst, runtimes[i].wallet = s PROVE FALSE
      BY DEF NoRuntimeOn
    <3>1. ~Registered(RuntimeOf(s))
      BY <2>2 DEF runtime_gone
    <3>2. RuntimeOf(s) = i
      BY OnlyRuntime
    <3>3. QED
      BY <3>1, <3>2, PlatformAssumption DEF Registered
  <2>4. job'[s] = "submit" => gone
    BY <1>6, <2>2 DEF CheckStopped, JobGoes
  <2>5. QED
    BY <1>2, <1>3, <2>1, <2>3, <2>4
<1>7. CASE SubmitClose(s)
  BY <1>2, <1>3, <1>7 DEF SubmitClose, JobGoes
<1>8. QED
  BY <1>4, <1>5, <1>6, <1>7 DEF close_one

\* Every step keeps the inductive invariant.
LEMMA StopKept ==
    ASSUME "inventory" \notin Mishaps, StopInv, Next
    PROVE  StopInv'
<1> USE DEF StopInv
<1>0. OwnInv' /\ TypeOK /\ TypeOK' /\ \A i \in Inst : Own(i) \subseteq Own(i)'
  BY StepOwn, OwnersKept DEF OwnInv
<1> USE DEF JobsInTime, InventoryOwned, InventoryHolds, JobsSafe, NoRuntimeOn,
            HasRuntime, Registered
<1>1. CASE ClosingReset /\ pc' = "idle"
  <2>1. /\ \A i \in Inst : rts'[i] = None
        /\ \A s \in Sid : job'[s] = "none"
    BY <1>1 DEF ClosingReset, NoRts, NoJobs
  <2>2. pc' \notin ReadPCs
    BY <1>1 DEF ReadPCs, JobPCs
  <2>3. QED
    BY <1>0, <2>1, <2>2 DEF Own
<1>2. CASE Quiet
  <2>1. InventoryOwned'
    BY <1>0, <1>2 DEF Quiet
  <2>2. JobsInTime' /\ InventoryHolds'
    BY <1>2 DEF Quiet, JobPCs, ReadPCs
  <2>3. JobsSafe'
    <3> SUFFICES ASSUME NEW s \in Sid, job[s] # "none"
                 PROVE  /\ (job[s] \in {"check1", "stop2", "check2"} => HasRuntime(s))'
                        /\ (job[s] = "submit" => NoRuntimeOn(s))'
      BY <1>2 DEF Quiet
    <3>1. \A i \in Inst : runtimes'[i].wallet = runtimes[i].wallet /\ rts'[i] = rts[i]
      BY <1>2 DEF Quiet, ReadPCs
    <3>2. QED
      BY <1>2, <3>1 DEF Quiet
  <2>4. QED
    BY <1>0, <2>1, <2>2, <2>3
<1>3. CASE CreateReadsRuntimes
  <2>1. /\ ReadRuntimes(rts') /\ pc' = "c.existing" /\ pc = "c.runtimes"
        /\ UNCHANGED <<runtimes, strategies, job>>
    BY <1>3 DEF CreateReadsRuntimes, Goto
  <2>2. \A i \in Inst : rts'[i] = runtimes[i].wallet /\ rts'[i] \in Own(i)
    BY <2>1, ReadsRegistry
  <2>3. \A s \in Sid : job'[s] = "none"
    BY <2>1 DEF JobPCs
  <2>4. QED
    BY <1>0, <2>1, <2>2, <2>3 DEF Own
<1>4. CASE CloseReadsRuntimes
  <2>1. /\ ReadRuntimes(rts') /\ pc' \in {"x.close", "a.close"}
        /\ UNCHANGED <<runtimes, strategies>>
        /\ \A s \in Sid : job'[s] \in {"start", "none"}
    BY <1>4 DEF CloseReadsRuntimes, Goto, StartJobs
  <2>2. \A i \in Inst : rts'[i] = runtimes[i].wallet /\ rts'[i] \in Own(i)
    BY <2>1, ReadsRegistry
  <2>3. QED
    BY <1>0, <2>1, <2>2 DEF Own, JobPCs
<1>5. ASSUME NEW s \in Sid, LiveCheck(s) PROVE StopInv'
  <2>1. CASE Ends("refused")
    BY <1>1, <2>1 DEF Ends
  <2>2. CASE JobGoes(s, "start") /\ UNCHANGED <<rts, seen, process>>
    <3>1. /\ UNCHANGED <<rts, runtimes, strategies, pc>> /\ pc = "c.livecheck"
          /\ job' = [job EXCEPT ![s] = "start"]
      BY <1>5, <2>2 DEF LiveCheck, JobGoes, process
    <3>2. QED
      BY <1>0, <3>1 DEF JobPCs, Own, TypeOK, CloseTypeOK
  <2>3. QED
    BY <1>5, <2>1, <2>2 DEF LiveCheck
<1>6. ASSUME NEW s \in Sid, close_one(s), UNCHANGED <<pc, rts>>,
             pc \in {"c.close", "x.close", "a.close"}
      PROVE  StopInv'
  <2>1. pc \in ReadPCs /\ pc \in JobPCs
    BY <1>6 DEF ReadPCs, JobPCs
  <2>2. /\ \A i \in Inst : runtimes'[i].wallet \in {None, runtimes[i].wallet}
        /\ \A t \in Sid \ {s} : job'[t] = job[t]
        /\ job'[s] \in {"check1", "stop2", "check2"} => HasRuntime(s)
        /\ job'[s] = "submit" => NoRuntimeOn(s)
    BY <1>6, <2>1, CloseOneSafe
  <2>3. InventoryOwned' /\ JobsInTime' /\ InventoryHolds'
    BY <1>0, <1>6, <2>1, <2>2
  <2>4. ASSUME NEW t \in Sid
        PROVE  /\ (job[t] \in {"check1", "stop2", "check2"} => HasRuntime(t))'
               /\ (job[t] = "submit" => NoRuntimeOn(t))'
    <3>1. /\ job'[t] \in {"check1", "stop2", "check2"} => HasRuntime(t)
          /\ job'[t] = "submit" => NoRuntimeOn(t)
      BY <2>2
    <3>2. NoRuntimeOn(t) => NoRuntimeOn(t)'
      BY <2>2, PlatformAssumption
    <3>3. HasRuntime(t) => HasRuntime(t)'
      BY <1>6
    <3>4. QED
      BY <3>1, <3>2, <3>3
  <2>5. QED
    BY <1>0, <2>3, <2>4
<1>7. QED
  BY <1>0, <1>1, <1>2, <1>3, <1>4, <1>5, <1>6, TeardownSteps

LEMMA InitStop == Init => StopInv
<1>1. ASSUME Init PROVE JobsInTime /\ InventoryOwned /\ InventoryHolds /\ JobsSafe
  BY <1>1 DEF Init, ClosingInit, NoRts, NoJobs, JobsInTime, InventoryOwned,
              InventoryHolds, JobsSafe, Own, ReadPCs, JobPCs
<1>2. QED
  BY <1>1, InitOwn DEF StopInv

\* Stuttering included.
LEMMA StepStop ==
    ASSUME "inventory" \notin Mishaps
    PROVE  StopInv /\ [Next]_vars => StopInv'
<1>1. ASSUME StopInv, UNCHANGED vars PROVE StopInv'
  <2>1. OwnInv'
    BY <1>1, StepOwn DEF StopInv
  <2>2. UNCHANGED <<strategies, runtimes, pc, rts, job>>
    BY <1>1 DEF vars, platform, closing, process
  <2>3. QED
    BY <1>1, <2>1, <2>2 DEF StopInv, JobsInTime, InventoryOwned, InventoryHolds,
         JobsSafe, Own, Registered, HasRuntime, NoRuntimeOn
<1>2. QED
  BY <1>1, StopKept

\* While the inventory can be read, no close is submitted for a wallet that a
\* runtime is still registered on: whatever deletes fail, whatever is killed and
\* whichever threads close the wallets beside it.
THEOREM StopsBeforeClosing ==
    ASSUME "inventory" \notin Mishaps
    PROVE  Spec => StopBeforeClose
<1>1. StopInv /\ [Next]_vars =>
        [\A s \in Sid : job[s] = "submit" /\ job'[s] \in JobDone
                        => \A i \in Inst : runtimes[i].wallet # s]_vars
  BY DEF StopInv, JobsSafe, NoRuntimeOn
<1>2. QED
  BY InitStop, StepStop, <1>1, PTL DEF Spec, StopBeforeClose

(***************************************************************************)
(* create spares what runs.                                                *)
(***************************************************************************)

\* What has run since create looked for existing strategies still does, and no
\* job is on its wallet: the job of a wallet begins when create has found nothing
\* running on it, or could not look, and a step of close_one deletes nothing but
\* the runtime on the job's own wallet.
UpRuns   == \A i \in up : Running(i)
UpInTime == up # {} => pc \in {"c.livecheck", "c.close"}
UpSpared == \A i \in up : job[runtimes[i].wallet] = "none"

\* The inductive invariant.
SpareInv == OwnInv /\ JobsInTime /\ UpRuns /\ UpInTime /\ UpSpared

\* The steps after which anything is left to spare.
LEMMA UpSteps ==
    ASSUME SpareInv, Next, up' # {}
    PROVE  \/ Environment \/ CreateReadsExisting \/ LiveChecked
           \/ \E s \in Sid : LiveCheck(s) \/ CreateCloses(s)
<1> USE DEF SpareInv, UpInTime
<1>0. ASSUME NEW result, Ends(result) PROVE FALSE
  BY <1>0 DEF Ends
<1>1. ~Start
  BY DEF Start, StartCreate, StartRuntime, StartVerify, StartClose, StartCloseAll,
         Starts, MayRun
<1>2. ~Kill /\ ~KillWhileSaving
  BY <1>0 DEF Kill, KillWhileSaving, Dies
<1>3. ~VerifyStep
  BY <1>0 DEF VerifyStep, Verified, VerifyRow
<1>4. ~RuntimeStep
  <2>1. ~Recover
    <3>1. ASSUME Recover PROVE (pc = "r.recover" /\ UNCHANGED up) \/ Ends("unresolved")
      BY <3>1 DEF Recover
    <3>2. QED
      BY <1>0, <3>1
  <2>2. ASSUME NEW i \in Inst PROVE ~FindRuntime(i)
    BY DEF FindRuntime
  <2>3. QED
    BY <1>0, <2>1, <2>2 DEF RuntimeStep, DeleteOld, RegisterRuntime, RuntimeDone
<1>5. ~CloseStep
  BY <1>0 DEF CloseStep, CloseReadsOpen, CloseReadsRuntimes, CloseDone, CloseThread
<1>6. ASSUME NEW i, Creates(i) PROVE FALSE
  <2>1. UNCHANGED up /\ pc \in {"c.submit", "c.retry"}
    BY <1>0, <1>6, CreateCall DEF Creates, Submit, Retry, SubmitFailed, SubmitAnswered,
                                  AsksAgain
  <2>2. QED
    BY <2>1
<1>7. ASSUME CreateStep
      PROVE  \/ CreateReadsExisting \/ LiveChecked
             \/ \E s \in Sid : LiveCheck(s) \/ CreateCloses(s)
  BY <1>0, <1>6, <1>7 DEF CreateStep, Reconciled, CreateReadsRuntimes, CreateForgets, Fund,
                          Record, Submitted, Polled, Reconcile, Poll, Creates
<1>8. QED
  BY <1>1, <1>2, <1>3, <1>4, <1>5, <1>7 DEF Next, Work

\* A step of create's close_one leaves what is to be spared as it is.
LEMMA ClosesSpare ==
    ASSUME SpareInv, NEW t \in Sid, CreateCloses(t), NEW i \in up
    PROVE  /\ UNCHANGED <<runtimes[i], strategies[runtimes[i].wallet]>>
           /\ job'[runtimes[i].wallet] = "none"
<1> USE DEF SpareInv, OwnInv, TypeOK, PlatformTypeOK, CloseTypeOK
<1>1. close_one(t) /\ job[t] # "none"
  BY DEF CreateCloses, close_one, Stop, NothingToStop, StopAgain, CheckStopped, SubmitClose
<1>2. PICK s \in Sid : s = runtimes[i].wallet
  BY PlatformAssumption DEF UpRuns, Running, Registered, Runtime
<1>3. s # t /\ job[s] = "none"
  BY <1>1, <1>2 DEF UpSpared
<1>4. strategies'[s] = strategies[s]
  BY <1>1, <1>3 DEF close_one, Stop, NothingToStop, StopAgain, CheckStopped,
                    SubmitClose, SetStatus, platform
<1>5. runtimes'[i] = runtimes[i]
  <2>1. \/ UNCHANGED runtimes
        \/ DeleteRuntime(RuntimeOf(t)) /\ runtimes[RuntimeOf(t)].wallet = t
    BY <1>1 DEF close_one, Stop, NothingToStop, StopAgain, CheckStopped, SubmitClose,
                DeleteOn, platform
  <2>2. QED
    BY <1>2, <1>3, <2>1 DEF DeleteRuntime
<1>6. job'[s] = job[s]
  BY <1>1, <1>3 DEF close_one, Stop, NothingToStop, StopAgain, CheckStopped, SubmitClose,
                    JobGoes
<1>7. QED
  BY <1>2, <1>3, <1>4, <1>5, <1>6

\* Every step keeps the inductive invariant.
LEMMA SpareKept == ASSUME SpareInv, Next PROVE SpareInv'
<1> USE DEF SpareInv
<1>0. TypeOK /\ TypeOK' /\ OwnInv' /\ JobsInTime'
  BY StepOwn, JobsKept DEF OwnInv
<1> SUFFICES UpRuns' /\ UpInTime' /\ UpSpared'
  BY <1>0
<1>1. CASE up' = {}
  BY <1>1 DEF UpRuns, UpInTime, UpSpared
<1>2. CASE Environment
  <2>1. UNCHANGED <<pc, job>> /\ up' = {i \in up : Running(i)'}
    BY <1>2 DEF Environment, Rest, closing, process
  <2>2. ASSUME NEW i \in Inst, RuntimeFails(i) \/ RuntimeRecovers(i)
        PROVE  \A j \in Inst : runtimes'[j].wallet = runtimes[j].wallet
    BY <1>0, <2>2 DEF RuntimeFails, RuntimeRecovers, TypeOK, PlatformTypeOK, Runtime
  <2>3. \A j \in Inst : runtimes'[j].wallet = runtimes[j].wallet
    BY <1>2, <2>2 DEF Environment, PlatformStep, Activate, FundingFails, Flattened,
                      AppClose, AppPause
  <2>4. UpRuns'
    BY <2>1 DEF UpRuns
  <2>5. UpInTime' /\ UpSpared'
    BY <1>0, <2>1, <2>3 DEF UpInTime, UpSpared, TypeOK
  <2>6. QED
    BY <2>4, <2>5
<1>3. CASE CreateReadsExisting /\ up' # {}
  <2>1. /\ pc = "c.existing" /\ pc' = "c.livecheck" /\ UNCHANGED <<runtimes, job>>
        /\ up' = {i \in Inst : Running(i)}
    BY <1>3 DEF CreateReadsExisting, Goto
  <2>2. \A i \in up' : runtimes[i].wallet \in Sid
    BY <1>0, <2>1 DEF Running, Registered, TypeOK, PlatformTypeOK, Runtime
  <2>3. \A s \in Sid : job[s] = "none"
    BY <2>1 DEF JobsInTime, JobPCs
  <2>4. QED
    BY <2>1, <2>2, <2>3 DEF UpRuns, UpInTime, UpSpared, Running, Registered
<1>4. CASE LiveChecked
  <2>1. UNCHANGED <<runtimes, job, up>> /\ pc' = "c.close"
    BY <1>4 DEF LiveChecked, platform, closing, Goto
  <2>2. QED
    BY <2>1 DEF UpRuns, UpInTime, UpSpared, Running, Registered
<1>5. ASSUME NEW s \in Sid, LiveCheck(s), up' # {}
      PROVE  UpRuns' /\ UpInTime' /\ UpSpared'
  <2>1. PICK running \in BOOLEAN :
          /\ HasRunningRuntime(s, running)
          /\ IF running THEN Ends("refused")
                        ELSE /\ JobGoes(s, "start")
                             /\ up' = IF mishaps' = mishaps THEN up
                                      ELSE {i \in up : runtimes[i].wallet # s}
                             /\ UNCHANGED <<rts, seen, process>>
    BY <1>5 DEF LiveCheck
  <2>2. ~running
    BY <1>5, <2>1 DEF Ends
  <2>3. UNCHANGED <<pc, runtimes>> /\ pc = "c.livecheck" /\ job' = [job EXCEPT ![s] = "start"]
    BY <1>5, <2>1, <2>2 DEF LiveCheck, process, JobGoes
  <2>4. ASSUME NEW i \in up' PROVE i \in up /\ runtimes[i].wallet # s
    <3>1. CASE mishaps' = mishaps
      <4>1. ~Mishap("lookup")
        BY <1>0, <3>1 DEF Mishap, TypeOK, PlatformTypeOK
      <4>2. ~\E j \in Inst : runtimes[j].wallet = s /\ Running(j)
        BY <2>1, <2>2, <4>1 DEF HasRunningRuntime
      <4>3. i \in up /\ i \in Inst
        BY <1>0, <2>1, <2>2, <3>1 DEF TypeOK
      <4>4. QED
        BY <4>2, <4>3 DEF UpRuns
    <3>2. CASE mishaps' # mishaps
      BY <2>1, <2>2, <3>2
    <3>3. QED
      BY <3>1, <3>2
  <2>5. UpRuns' /\ UpInTime'
    BY <2>3, <2>4 DEF UpRuns, UpInTime, Running, Registered
  <2>6. UpSpared'
    BY <1>0, <2>3, <2>4 DEF UpSpared, TypeOK, CloseTypeOK
  <2>7. QED
    BY <2>5, <2>6
<1>6. ASSUME NEW s \in Sid, CreateCloses(s) PROVE UpRuns' /\ UpInTime' /\ UpSpared'
  <2>1. UNCHANGED <<pc, up>>
    BY <1>6 DEF CreateCloses, process
  <2>2. \A i \in up : runtimes'[i] = runtimes[i] /\ job'[runtimes[i].wallet] = "none"
    BY <1>6, ClosesSpare
  <2>3. QED
    BY <2>1, <2>2 DEF UpRuns, UpInTime, UpSpared, Running, Registered
<1>7. QED
  BY <1>1, <1>2, <1>3, <1>4, <1>5, <1>6, UpSteps

\* A step of create that moves its teardown on leaves what it must spare as it is.
LEMMA SparesStep ==
    ASSUME SpareInv, Next, pc \in CreatePCs, closing' # closing, NEW i \in up
    PROVE  UNCHANGED <<runtimes[i], strategies[runtimes[i].wallet]>>
<1>1. pc \in {"c.livecheck", "c.close"}
  BY DEF SpareInv, UpInTime
<1>2. \/ UNCHANGED <<runtimes, strategies>>
      \/ \E s \in Sid : CreateCloses(s)
  <2>1. ~Start /\ ~Environment /\ ~RuntimeStep /\ ~VerifyStep /\ ~CloseStep
    BY <1>1 DEF Start, StartCreate, StartRuntime, StartVerify, StartClose, StartCloseAll,
         Starts, MayRun, Environment, Rest, RuntimeStep, Recover, DeleteOld,
         RegisterRuntime, RuntimeDone, FindRuntime, VerifyStep, Verified, VerifyRow,
         CloseStep, CloseReadsOpen, CloseReadsRuntimes, CloseDone, CloseThread
  <2>2. CASE Kill \/ KillWhileSaving
    BY <2>2 DEF Kill, KillWhileSaving
  <2>3. ~Retry /\ \A j \in Inst : ~Submit(j)
    BY <1>1 DEF Retry, Submit
  <2>4. CASE CreateStep
    BY <2>3, <2>4
    DEF CreateStep, Reconciled, CreateReadsRuntimes, CreateReadsExisting, LiveChecked,
        CreateForgets, Fund, Record, Submitted, Polled, Reconcile, Poll, LiveCheck, platform
  <2>5. QED
    BY <2>1, <2>2, <2>4 DEF Next, Work
<1>3. QED
  BY <1>2, ClosesSpare

\* Whatever fails, stops and comes back, a create that tears down what it finds stops
\* no runtime that has run since it read the existing strategies, and closes no
\* strategy that one trades, unless it could not look for that very runtime.
THEOREM CreateSparesRunningTheorem == Spec => CreateSparesRunning
<1>1. Init => SpareInv
  BY InitOwn DEF Init, ClosingInit, NoJobs, SpareInv, JobsInTime, UpRuns, UpInTime, UpSpared
<1>2. SpareInv /\ [Next]_vars => SpareInv'
  <2>1. ASSUME SpareInv, UNCHANGED vars PROVE SpareInv'
    <3>1. OwnInv'
      BY <2>1, StepOwn DEF SpareInv
    <3>2. UNCHANGED <<runtimes, pc, job, up>>
      BY <2>1 DEF vars, platform, closing, process
    <3>3. QED
      BY <2>1, <3>1, <3>2 DEF SpareInv, JobsInTime, UpRuns, UpInTime, UpSpared, Running,
                              Registered
  <2>2. QED
    BY <2>1, SpareKept
<1>3. SpareInv /\ [Next]_vars =>
        [\A i \in up :
           pc \in CreatePCs /\ closing' # closing
           => UNCHANGED runtimes[i] /\ UNCHANGED strategies[runtimes[i].wallet]]_vars
  BY SparesStep
<1>4. QED
  BY <1>1, <1>2, <1>3, PTL DEF Spec, CreateSparesRunning

(***************************************************************************)
(* An operator who goes by the reports.                                    *)
(***************************************************************************)

\* What the operator and the commands run on the reports' advice are at: making
\* strategies, registering runtimes, checking them; else tearing down.
Creating  == (pc = "idle" /\ report \in Asks.create)  \/ pc \in CreatePCs
Wiring    == (pc = "idle" /\ report \in Asks.runtime) \/ pc \in RuntimePCs
Verifying == (pc = "idle" /\ report \in Asks.verify)  \/ pc \in VerifyPCs

Held(s) == strategies[s].status \in {"ACTIVE", "PAUSED"}
HeldIn(f) == \A i \in Inst : f[i].wallet # None => Held(f[i].wallet)

\* While strategies are made, runtimes are left over on dead ones at most.
NothingTraded == \A i \in Inst : Registered(i) => ~strategy_open(runtimes[i].wallet)

\* When the runtimes are all there, they trade on strategies that can be traded.
HeldTraded == \A i \in Inst : Registered(i) => Held(runtimes[i].wallet)

\* What create has noted when it comes to a point: ids kept are held ones, so
\* none when it funds; then each instance gets a new id and, polled, its wallet.
CreateNotes ==
    /\ pc = "c.reconcile" =>
         \A i \in Inst \ todo : st[i].sid # None => Held(st[i].sid)
    /\ pc \in {"c.runtimes", "c.existing"} =>
         \A i \in Inst : st[i].sid # None => Held(st[i].sid)
    /\ pc = "c.livecheck" => \A s \in Targets : NoRuntimeOn(s)
    /\ pc = "c.fund" => \A i \in Inst : st[i].sid = None
    /\ pc \in {"c.submit", "c.retry", "c.record"} =>
         \A i \in Inst \ todo :
           st[i].sid # None /\ st[i].status = "creating" /\ file[i] = st[i]
    /\ pc = "c.record" => reply.sid # None
    /\ pc = "c.poll" =>
         \A i \in Inst : /\ st[i].sid # None /\ file[i] = st[i]
                         /\ \/ i \in Waiting
                            \/ st[i].wallet # None /\ Held(st[i].wallet)

\* What runtime has noted: an instance without an error has its own wallet's runtime.
RuntimeNotes ==
    /\ pc \in {"r.delete", "r.create"} => reply.inst \in todo
    /\ pc \in {"r.find", "r.delete", "r.create"} =>
         \A i \in Inst \ todo : ~st[i].error => runtimes[i].wallet = st[i].wallet

BookRules ==
    /\ report # "refused"
    /\ Creating => NothingTraded
    /\ Wiring \/ Verifying => HeldIn(file) /\ HeldIn(st)
    /\ Verifying => HeldTraded
    /\ CreateNotes
    /\ RuntimeNotes

\* The inductive invariant.
BookInv == OwnInv /\ BookRules

\* The platform ends nothing that can be traded, unless the user does.
LEMMA HeldOutside ==
    ASSUME "app_close" \notin Mishaps, OwnInv, Environment
    PROVE  \A s \in Sid : Held(s) => Held(s)'
BY DEF Held, OwnInv, TypeOK, PlatformTypeOK, Strategy, Environment, PlatformStep, Activate,
       FundingFails, Flattened, AppClose, AppPause, RuntimeFails, RuntimeRecovers,
       SetStatus, Mishap

\* A command that ends hands over what the next one starts from.
LEMMA EndsByBook ==
    ASSUME NEW result, Ends(result), result # "refused",
           result \in Asks.create => NothingTraded',
           result \in Asks.runtime \cup Asks.verify => HeldIn(file)',
           result \in Asks.verify => HeldTraded'
    PROVE  BookRules'
<1>1. pc' = "idle" /\ report' = result /\ st' = Fresh
  BY DEF Ends
<1>2. HeldIn(st)'
  BY <1>1 DEF HeldIn, Fresh, Pending
<1>3. CreateNotes' /\ RuntimeNotes'
  BY <1>1 DEF CreateNotes, RuntimeNotes
<1>4. ~(pc' \in CreatePCs) /\ ~(pc' \in RuntimePCs) /\ ~(pc' \in VerifyPCs)
  BY <1>1 DEF CreatePCs, RuntimePCs, VerifyPCs
<1>5. QED
  BY <1>1, <1>2, <1>3, <1>4 DEF BookRules, Creating, Wiring, Verifying

\* Runtimes that trade nothing open go on to, as long as none is registered.
LEMMA NothingTradedKept ==
    ASSUME OwnInv, Next, NothingTraded,
           \A i \in Inst : runtimes'[i].wallet \in {None, runtimes[i].wallet}
    PROVE  NothingTraded'
<1> SUFFICES ASSUME NEW i \in Inst, Registered(i)', strategy_open(runtimes[i].wallet)'
             PROVE  FALSE
  BY DEF NothingTraded
<1>1. Registered(i) /\ runtimes'[i].wallet = runtimes[i].wallet
  BY DEF Registered
<1>2. PICK s \in Sid : s = runtimes[i].wallet
  BY <1>1, PlatformAssumption DEF OwnInv, RuntimesOwned, Own, Registered
<1>3. /\ ~strategy_open(s) /\ strategies[s].status # "UNUSED" /\ strategy_open(s)'
  BY <1>1, <1>2, PlatformAssumption
  DEF NothingTraded, OwnInv, RuntimesOwned, Own, UsedHasInst, strategy_open
<1>4. CASE ~\E j \in Inst : Creates(j)
  BY <1>3, <1>4, OpenOnlySubmitted
<1>5. ASSUME NEW j \in Inst, Creates(j) PROVE FALSE
  <2>1. \/ UNCHANGED strategies
        \/ \E t \in Sid, named, lost \in BOOLEAN : CreateStrategy(j, t, named, lost)
    BY <1>5, CreateCall
  <2>2. strategies'[s] = strategies[s]
    BY <1>3, <2>1 DEF CreateStrategy, OwnInv, TypeOK, PlatformTypeOK
  <2>3. QED
    BY <1>3, <2>2 DEF strategy_open
<1>6. QED
  BY <1>4, <1>5

\* The start of a command.
LEMMA StartByBook == ASSUME ByTheBook, BookInv, Start PROVE BookRules'
<1> USE DEF BookInv, BookRules
<1>1. pc = "idle" /\ report' = "none" /\ st' = file
      /\ UNCHANGED <<strategies, runtimes, file, reply, allLive, seen>>
  BY DEF Start, StartCreate, StartRuntime, StartVerify, StartClose, StartCloseAll,
         Starts, MayRun, platform, closing
<1>2. CASE StartCreate
  <2>1. /\ report \in Asks.create /\ pc' = "c.reconcile"
        /\ \A i \in Inst \ todo' : file[i].sid = None
    BY <1>2 DEF StartCreate, Starts, MayRun, Asks
  <2>2. NothingTraded'
    BY <1>1, <2>1 DEF Creating, NothingTraded, Registered, strategy_open
  <2>3. CreateNotes' /\ RuntimeNotes'
    BY <1>1, <2>1 DEF CreateNotes, RuntimeNotes
  <2>4. QED
    BY <1>1, <2>1, <2>2, <2>3 DEF Wiring, Verifying, RuntimePCs, VerifyPCs
<1>3. CASE StartRuntime
  <2>1. /\ report \in Asks.runtime /\ pc' \in {"r.find", "r.recover"}
        /\ pc' = "r.find" => todo' = Inst
    BY <1>3 DEF StartRuntime, Starts, MayRun, Asks
  <2>2. HeldIn(file)' /\ HeldIn(st)'
    BY <1>1, <2>1 DEF Wiring, HeldIn, Held
  <2>3. CreateNotes' /\ RuntimeNotes'
    BY <1>1, <2>1 DEF CreateNotes, RuntimeNotes
  <2>4. QED
    BY <1>1, <2>1, <2>2, <2>3 DEF Creating, Verifying, CreatePCs, VerifyPCs
<1>4. CASE StartVerify
  <2>1. report \in Asks.verify /\ pc' = "v.row"
    BY <1>4 DEF StartVerify, Starts, MayRun, Asks
  <2>2. HeldIn(file)' /\ HeldIn(st)' /\ HeldTraded'
    BY <1>1, <2>1 DEF Verifying, HeldIn, Held, HeldTraded, Registered
  <2>3. CreateNotes' /\ RuntimeNotes'
    BY <1>1, <2>1 DEF CreateNotes, RuntimeNotes
  <2>4. QED
    BY <1>1, <2>1, <2>2, <2>3 DEF Creating, CreatePCs
<1>5. CASE StartClose \/ StartCloseAll
  <2>1. pc' \in {"x.list", "a.list"}
    BY <1>5 DEF StartClose, StartCloseAll, Starts
  <2>2. QED
    BY <1>1, <2>1 DEF Creating, Wiring, Verifying, CreatePCs, RuntimePCs, VerifyPCs,
                      CreateNotes, RuntimeNotes
<1>6. QED
  BY <1>2, <1>3, <1>4, <1>5 DEF Start

\* A file that is gone names no wallet.
LEMMA FreshHeld == ASSUME file' = Fresh PROVE HeldIn(file)'
BY DEF HeldIn, Fresh, Pending

\* A kill, during a save or not.
LEMMA KillByBook == ASSUME BookInv, Kill \/ KillWhileSaving PROVE BookRules'
<1> USE DEF BookInv, BookRules
<1>1. /\ Dies /\ UNCHANGED <<strategies, runtimes>>
      /\ file' = file \/ file' = Fresh
  BY DEF Kill, KillWhileSaving
<1>2. CASE pc \in CreatePCs /\ Ends("create killed")
  <2>1. NothingTraded'
    BY <1>1, <1>2 DEF Creating, NothingTraded, Registered, strategy_open
  <2>2. QED
    BY <1>2, <2>1, EndsByBook DEF Asks
<1>3. CASE pc \in RuntimePCs /\ Ends("runtime killed")
  <2>1. HeldIn(file)'
    BY <1>1, <1>3, FreshHeld DEF Wiring, HeldIn, Held
  <2>2. QED
    BY <1>3, <2>1, EndsByBook DEF Asks
<1>4. CASE pc \in VerifyPCs /\ Ends("verify killed")
  <2>1. HeldIn(file)' /\ HeldTraded'
    BY <1>1, <1>4, FreshHeld DEF Verifying, HeldIn, Held, HeldTraded, Registered
  <2>2. QED
    BY <1>4, <2>1, EndsByBook DEF Asks
<1>5. CASE Ends("close killed")
  BY <1>5, EndsByBook DEF Asks
<1>6. QED
  BY <1>1, <1>2, <1>3, <1>4, <1>5 DEF Dies

\* The platform's own steps.
LEMMA EnvironmentByBook ==
    ASSUME "app_close" \notin Mishaps, BookInv, Environment
    PROVE  BookRules'
<1> USE DEF BookInv, BookRules
<1>1. UNCHANGED <<pc, report, file, st, todo, reply, allLive, seen>>
  BY DEF Environment, Rest, closing, process
<1>2. ASSUME NEW i \in Inst, RuntimeFails(i) \/ RuntimeRecovers(i)
      PROVE  \A j \in Inst : runtimes'[j].wallet = runtimes[j].wallet
  BY <1>2 DEF RuntimeFails, RuntimeRecovers, OwnInv, TypeOK, PlatformTypeOK, Runtime
<1>3. \A j \in Inst : runtimes'[j].wallet = runtimes[j].wallet
  BY <1>2 DEF Environment, PlatformStep, Activate, FundingFails, Flattened, AppClose,
              AppPause
<1>4. \A s \in Sid : Held(s) => Held(s)'
  BY HeldOutside
<1>5. ASSUME NEW w \in Sid \cup {None}, w # None => Held(w) PROVE w # None => Held(w)'
  BY <1>4, <1>5
<1>6. \A i \in Inst : /\ file[i].wallet \in Sid \cup {None}
                      /\ st[i].wallet \in Sid \cup {None}
                      /\ st[i].sid \in Sid \cup {None}
                      /\ runtimes[i].wallet \in Sid \cup {None}
  BY DEF OwnInv, TypeOK, Entry, PlatformTypeOK, Runtime
<1>7. NothingTraded => NothingTraded'
  BY <1>3, NothingTradedKept DEF Next
<1>8. HeldIn(file) => HeldIn(file)'
  BY <1>1, <1>4, <1>6 DEF HeldIn, Held
<1>9. HeldIn(st) => HeldIn(st)'
  BY <1>1, <1>4, <1>6 DEF HeldIn, Held
<1>10. HeldTraded => HeldTraded'
  BY <1>3, <1>4, <1>6 DEF HeldTraded, Registered, Held
<1>11. CreateNotes'
  <2>1. ASSUME NEW i \in Inst
        PROVE  /\ st[i].sid # None /\ Held(st[i].sid) => Held(st[i].sid)'
               /\ st[i].wallet # None /\ Held(st[i].wallet) => Held(st[i].wallet)'
    BY <1>1, <1>4, <1>6 DEF Held
  <2>2. QED
    BY <1>1, <1>3, <2>1 DEF CreateNotes, Targets, NoRuntimeOn, Waiting, Held
<1>12. RuntimeNotes'
  BY <1>1, <1>3 DEF RuntimeNotes
<1>13. QED
  BY <1>1, <1>7, <1>8, <1>9, <1>10, <1>11, <1>12 DEF Creating, Wiring, Verifying

\* create, up to the point at which it refuses, tears down or funds.
LEMMA CreateReadsByBook ==
    ASSUME "strategy_list" \notin Mishaps, BookInv,
           \/ Reconciled \/ CreateReadsRuntimes \/ CreateReadsExisting \/ LiveChecked
           \/ \E i \in Inst : Reconcile(i)
           \/ \E s \in Sid : LiveCheck(s)
    PROVE  BookRules'
<1> USE DEF BookInv, BookRules, OwnInv, TypeOK
<1>0. ASSUME pc \in CreatePCs, pc' \in CreatePCs, report' = report,
             UNCHANGED <<strategies, runtimes>>, CreateNotes'
      PROVE  BookRules'
  <2>1. NothingTraded'
    BY <1>0 DEF Creating, NothingTraded, Registered, strategy_open
  <2>2. ~Wiring' /\ ~Verifying' /\ RuntimeNotes'
    BY <1>0 DEF CreatePCs, RuntimePCs, VerifyPCs, Wiring, Verifying, RuntimeNotes
  <2>3. QED
    BY <1>0, <2>1, <2>2
<1> USE DEF CreatePCs, CreateNotes
<1>1. CASE Reconciled
  <2>1. CreateNotes'
    BY <1>1 DEF Reconciled, Goto, platform, Held
  <2>2. QED
    BY <1>0, <1>1, <2>1 DEF Reconciled, Goto, platform
<1>2. CASE CreateReadsRuntimes
  <2>1. CreateNotes'
    BY <1>2 DEF CreateReadsRuntimes, Goto, Held
  <2>2. QED
    BY <1>0, <1>2, <2>1 DEF CreateReadsRuntimes, Goto
<1>3. CASE LiveChecked
  <2>1. CreateNotes'
    BY <1>3 DEF LiveChecked, Goto
  <2>2. QED
    BY <1>0, <1>3, <2>1 DEF LiveChecked, Goto, platform
<1>4. CASE CreateReadsExisting
  <2>1. PICK open \in SUBSET Sid :
          /\ existing_open(open)
          /\ seen' = [s \in Sid |-> IF s \in open THEN strategies[s].status ELSE "UNUSED"]
          /\ pc' = IF open = {} THEN "c.fund" ELSE "c.livecheck"
          /\ report' = report
    BY <1>4 DEF CreateReadsExisting, Goto
  <2>2. open = {s \in Sid : strategy_open(s)}
    BY <2>1 DEF existing_open, ReadOpen, Mishap
  <2>3. UNCHANGED <<strategies, runtimes, st>> /\ pc = "c.existing"
    BY <1>4 DEF CreateReadsExisting
  <2>4. CASE open = {}
    <3>1. \A i \in Inst : st[i].sid = None
      BY <2>2, <2>3, <2>4
      DEF Entry, Held, strategy_open, LIVE_STATUSES, DEAD_STATUSES, Status
    <3>2. CreateNotes'
      BY <2>1, <2>3, <2>4, <3>1
    <3>3. QED
      BY <1>0, <2>1, <2>3, <2>4, <3>2
  <2>5. CASE open # {}
    <3>1. \A s \in Targets' : s \in Sid /\ strategy_open(s)
      BY <2>1, <2>2 DEF Targets
    <3>2. \A s \in Targets' : NoRuntimeOn(s)'
      BY <2>3, <3>1, PlatformAssumption
      DEF Creating, NothingTraded, NoRuntimeOn, Registered
    <3>3. CreateNotes'
      BY <2>1, <2>3, <2>5, <3>2
    <3>4. QED
      BY <1>0, <2>1, <2>3, <2>5, <3>3
  <2>6. QED
    BY <2>4, <2>5
<1>5. ASSUME NEW i \in Inst, Reconcile(i) PROVE BookRules'
  <2>1. PICK active \in BOOLEAN :
          /\ RecordedActive(st[i].sid, active)
          /\ st' = IF active THEN st ELSE [st EXCEPT ![i] = Pending]
    BY <1>5 DEF Reconcile
  <2>2. /\ pc = "c.reconcile" /\ UNCHANGED <<pc, strategies, runtimes, report>>
        /\ todo' = todo \ {i}
    BY <1>5 DEF Reconcile
  <2>3. ASSUME NEW j \in Inst \ todo', st'[j].sid # None PROVE Held(st'[j].sid)
    BY <2>1, <2>2, <2>3 DEF RecordedActive, Pending, Held
  <2>4. CreateNotes'
    BY <2>2, <2>3 DEF Held
  <2>5. QED
    BY <1>0, <2>2, <2>4
<1>6. ASSUME NEW s \in Sid, LiveCheck(s) PROVE BookRules'
  <2>1. PICK running \in BOOLEAN :
          /\ HasRunningRuntime(s, running)
          /\ IF running THEN Ends("refused")
             ELSE JobGoes(s, "start") /\ UNCHANGED <<rts, seen, process>>
    BY <1>6 DEF LiveCheck
  <2>2. pc = "c.livecheck" /\ s \in Targets /\ UNCHANGED <<strategies, runtimes>>
    BY <1>6 DEF LiveCheck
  <2>3. ~running
    BY <2>1, <2>2 DEF HasRunningRuntime, NoRuntimeOn
  <2>4. UNCHANGED <<pc, report, seen>>
    BY <2>1, <2>3 DEF process
  <2>5. CreateNotes'
    BY <2>2, <2>4 DEF Targets, NoRuntimeOn
  <2>6. QED
    BY <1>0, <2>2, <2>4, <2>5
<1>7. QED
  BY <1>1, <1>2, <1>3, <1>4, <1>5, <1>6

\* create's teardown: it registers nothing, and goes back to create.
LEMMA CreateClosesByBook ==
    ASSUME BookInv, Next, CreateForgets \/ \E s \in Sid : CreateCloses(s)
    PROVE  BookRules'
<1> USE DEF BookInv, BookRules
<1>1. CASE CreateForgets
  <2>1. NothingTraded'
    BY <1>1 DEF CreateForgets, platform, Creating, CreatePCs, NothingTraded, Registered,
                strategy_open
  <2>2. QED
    BY <1>1, <2>1, EndsByBook DEF CreateForgets, Asks
<1>2. ASSUME NEW s \in Sid, CreateCloses(s) PROVE BookRules'
  <2>1. pc = "c.close" /\ UNCHANGED <<pc, report>> /\ close_one(s)
    BY <1>2 DEF CreateCloses, process
  <2>2. UNCHANGED runtimes \/ DeleteRuntime(RuntimeOf(s))
    BY <2>1 DEF close_one, Stop, NothingToStop, StopAgain, CheckStopped, SubmitClose,
                DeleteOn, platform
  <2>3. \A i \in Inst : runtimes'[i].wallet \in {None, runtimes[i].wallet}
    BY <2>2 DEF DeleteRuntime, NoRuntime, OwnInv, TypeOK, PlatformTypeOK
  <2>4. NothingTraded'
    BY <2>1, <2>3, NothingTradedKept DEF Creating, CreatePCs
  <2>5. QED
    BY <2>1, <2>4 DEF CreateNotes, RuntimeNotes, Wiring, Verifying, RuntimePCs, VerifyPCs
<1>3. QED
  BY <1>1, <1>2

\* create's funding, up to the wallets it hands to runtime.
LEMMA CreateFundsByBook ==
    ASSUME BookInv, Next,
           \/ Fund \/ Retry \/ Record \/ Submitted \/ Polled
           \/ \E i \in Inst : Submit(i) \/ Poll(i)
    PROVE  BookRules'
<1> USE DEF BookInv, BookRules, OwnInv, TypeOK
<1>0. UNCHANGED runtimes /\ pc \in CreatePCs
  BY DEF Fund, Retry, Record, Submitted, Polled, Submit, Poll, platform, CreatePCs
<1>1. NothingTraded'
  BY <1>0, NothingTradedKept DEF Creating
<1>2. ASSUME pc' \in CreatePCs, report' = report, CreateNotes' PROVE BookRules'
  BY <1>1, <1>2 DEF CreatePCs, RuntimePCs, VerifyPCs, Wiring, Verifying, RuntimeNotes
<1> USE DEF CreatePCs, CreateNotes
<1>3. CASE Fund
  <2>1. CASE Ends("underfunded")
    BY <1>1, <2>1, EndsByBook DEF Asks
  <2>2. CASE Goto("c.submit") /\ todo' = Need
    <3>1. Inst \ todo' = {}
      BY <1>3, <2>2 DEF Fund, Need
    <3>2. CreateNotes'
      BY <2>2, <3>1 DEF Goto
    <3>3. QED
      BY <1>2, <2>2, <3>2 DEF Goto
  <2>3. QED
    BY <1>3, <2>1, <2>2 DEF Fund
<1>4. CASE Record
  <2>1. /\ st' = [st EXCEPT ![reply.inst].sid = reply.sid,
                            ![reply.inst].status = "creating",
                            ![reply.inst].error = FALSE]
        /\ file' = st' /\ todo' = todo \ {reply.inst}
        /\ pc' = "c.submit" /\ pc = "c.record" /\ report' = report
    BY <1>4 DEF Record, Goto, strategy_id_of
  <2>2. ASSUME NEW i \in Inst \ todo'
        PROVE  st'[i].sid # None /\ st'[i].status = "creating"
    BY <2>1 DEF Entry
  <2>3. CreateNotes'
    BY <2>1, <2>2
  <2>4. QED
    BY <1>2, <2>1, <2>3
<1>5. CASE Submitted
  <2>1. /\ pc' = "c.poll" /\ pc = "c.submit" /\ report' = report /\ todo = {}
        /\ UNCHANGED <<st, file, strategies>>
    BY <1>5 DEF Submitted, Goto, platform
  <2>2. CreateNotes'
    BY <2>1 DEF Waiting
  <2>3. QED
    BY <1>2, <2>1, <2>2
<1>6. CASE Polled
  <2>1. pc = "c.poll" /\ UNCHANGED <<strategies, file>>
    BY <1>6 DEF Polled
  <2>2. CASE Waiting = {} /\ Ends("wallets-ready")
    <3>1. HeldIn(file)'
      BY <2>1, <2>2 DEF HeldIn, Held
    <3>2. QED
      BY <2>2, <3>1, EndsByBook DEF Asks
  <2>3. CASE Ends("creating")
    BY <1>1, <2>3, EndsByBook DEF Asks
  <2>4. CASE UNCHANGED <<closing, pc, st, reply, allLive, up, report>>
    <3>1. CreateNotes'
      BY <2>1, <2>4 DEF Waiting, Held
    <3>2. QED
      BY <1>2, <2>1, <2>4, <3>1
  <2>5. QED
    BY <1>6, <2>2, <2>3, <2>4 DEF Polled
<1>7. ASSUME NEW i, Creates(i) PROVE BookRules'
  <2>1. CASE SubmitFailed(i)
    BY <1>1, <2>1, EndsByBook DEF SubmitFailed, Asks
  <2>2. ASSUME pc' \in {"c.retry", "c.record"}, UNCHANGED <<file, st, todo, report>>,
               pc' = "c.record" => reply'.sid # None
        PROVE  BookRules'
    <3>1. pc \in {"c.submit", "c.retry"}
      BY <1>7 DEF Creates, Submit, Retry
    <3>2. CreateNotes'
      BY <2>2, <3>1
    <3>3. QED
      BY <1>2, <2>2, <3>2
  <2>3. CASE AsksAgain(i)
    BY <2>2, <2>3 DEF AsksAgain, Goto
  <2>4. ASSUME NEW s \in Sid, SubmitAnswered(i, s) PROVE BookRules'
    BY <2>2, <2>4, PlatformAssumption DEF SubmitAnswered, Goto
  <2>5. QED
    BY <1>7, <2>1, <2>3, <2>4, CreateCall
<1>8. ASSUME NEW i \in Inst, Poll(i) PROVE BookRules'
  <2>1. PICK active \in BOOLEAN :
          /\ Polls(st[i].sid, active)
          /\ st' = IF active THEN [st EXCEPT ![i].wallet = st[i].sid, ![i].status = "active"]
                             ELSE st
          /\ file' = IF active THEN st' ELSE file
    BY <1>8 DEF Poll
  <2>2. pc = "c.poll" /\ UNCHANGED <<pc, report, strategies>>
    BY <1>8 DEF Poll
  <2>3. ASSUME NEW j \in Inst
        PROVE  /\ st'[j].sid # None /\ file'[j] = st'[j]
               /\ \/ st'[j].status \notin {"active", "registered", "live"}
                  \/ st'[j].wallet # None /\ Held(st'[j].wallet)
    BY <2>1, <2>2 DEF Polls, Held, Entry, Waiting
  <2>4. CreateNotes'
    BY <2>2, <2>3 DEF Waiting, Held
  <2>5. QED
    BY <1>2, <2>2, <2>4
<1>9. QED
  BY <1>3, <1>4, <1>5, <1>6, <1>7, <1>8 DEF Creates

\* runtime: what it recovers is ACTIVE, and it only notes as registered what is
\* on the instance's own wallet.
LEMMA RuntimeByBook == ASSUME BookInv, RuntimeStep PROVE BookRules'
<1> USE DEF BookInv, BookRules, OwnInv, TypeOK, PlatformTypeOK
<1>0. /\ UNCHANGED strategies /\ pc \in RuntimePCs
      /\ HeldIn(file) /\ HeldIn(st)
  BY DEF RuntimeStep, Recover, DeleteOld, RegisterRuntime, RuntimeDone, FindRuntime,
         platform, RuntimePCs, Wiring
<1>1. ASSUME pc' \in RuntimePCs, report' = report, HeldIn(file)', HeldIn(st)',
             RuntimeNotes'
      PROVE  BookRules'
  BY <1>1 DEF CreatePCs, RuntimePCs, VerifyPCs, Creating, Verifying, CreateNotes
<1>2. ASSUME NEW f, HeldIn(f), NEW g, \A i \in Inst : g[i].wallet = f[i].wallet
      PROVE  \A i \in Inst : g[i].wallet # None => Held(g[i].wallet)'
  BY <1>0, <1>2 DEF HeldIn, Held
<1> USE DEF RuntimePCs, RuntimeNotes
<1>3. CASE Recover
  <2>1. PICK active \in SUBSET Sid :
          /\ active \subseteq {s \in Sid : strategies[s].status = "ACTIVE"}
          /\ LET found == {i \in todo : Cardinality(Candidates(i, active)) = 1}
                 healed == [i \in Inst |->
                              IF i \in found
                              THEN [st[i] EXCEPT
                                      !.wallet = CHOOSE s \in Candidates(i, active) : TRUE,
                                      !.status = "active"]
                              ELSE st[i]]
             IN /\ file' = IF found = {} THEN file ELSE healed
                /\ IF found = todo
                   THEN /\ Goto("r.find")
                        /\ st' = healed
                        /\ todo' = Inst
                        /\ UNCHANGED <<closing, reply, allLive, up>>
                   ELSE Ends("unresolved")
    BY <1>3 DEF Recover
  <2> DEFINE found == {i \in todo : Cardinality(Candidates(i, active)) = 1}
             healed == [i \in Inst |->
                          IF i \in found
                          THEN [st[i] EXCEPT
                                  !.wallet = CHOOSE s \in Candidates(i, active) : TRUE,
                                  !.status = "active"]
                          ELSE st[i]]
  <2>2. /\ file' = file \/ file' = healed
        /\ \/ Ends("unresolved")
           \/ Goto("r.find") /\ st' = healed /\ todo' = Inst
    BY <2>1
  <2>3. ASSUME NEW i \in Inst, healed[i].wallet # None PROVE Held(healed[i].wallet)
    <3>1. CASE i \in found
      <4>1. (CHOOSE s \in Candidates(i, active) : TRUE) \in Candidates(i, active)
        BY <2>1, <3>1, FoundCandidate
      <4>2. Held(CHOOSE s \in Candidates(i, active) : TRUE)
        BY <2>1, <4>1 DEF Candidates, Held
      <4>3. healed[i].wallet = CHOOSE s \in Candidates(i, active) : TRUE
        BY <3>1 DEF Entry
      <4>4. QED
        BY <4>2, <4>3
    <3>2. CASE i \notin found
      BY <1>0, <2>3, <3>2 DEF HeldIn
    <3>3. QED
      BY <3>1, <3>2
  <2>4. HeldIn(healed)
    BY <2>3 DEF HeldIn
  <2> HIDE DEF found, healed
  <2>5. HeldIn(file)'
    BY <1>0, <2>2, <2>4 DEF HeldIn, Held
  <2>6. CASE Ends("unresolved")
    BY <2>6, EndsByBook DEF Asks
  <2>7. CASE Goto("r.find") /\ st' = healed /\ todo' = Inst
    <3>1. HeldIn(st)'
      BY <1>0, <2>4, <2>7 DEF HeldIn, Held
    <3>2. RuntimeNotes'
      BY <2>7 DEF Goto
    <3>3. QED
      BY <1>1, <2>5, <2>7, <3>1, <3>2 DEF Goto
  <2>8. QED
    BY <2>2, <2>6, <2>7
<1>4. ASSUME NEW i \in Inst, FindRuntime(i) PROVE BookRules'
  <2>1. PICK wallet \in Sid \cup {None} :
          /\ wallet = runtimes[i].wallet \/ wallet = None
          /\ IF wallet # None /\ wallet = st[i].wallet
             THEN /\ st' = [st EXCEPT ![i].status = "registered", ![i].error = FALSE]
                  /\ file' = st' /\ todo' = todo \ {i} /\ UNCHANGED <<pc, reply>>
             ELSE /\ pc' \in {"r.create", "r.delete"}
                  /\ reply' = [NoReply EXCEPT !.inst = i]
                  /\ st' = [st EXCEPT ![i].error = FALSE]
                  /\ UNCHANGED <<file, todo>>
    BY <1>4 DEF FindRuntime, wallet_match
  <2>2. pc = "r.find" /\ i \in todo /\ UNCHANGED <<runtimes, report>>
    BY <1>4 DEF FindRuntime
  <2>3. \A j \in Inst : /\ st'[j].wallet = st[j].wallet
                        /\ j # i => st'[j] = st[j]
    BY <2>1 DEF Entry
  <2>4. HeldIn(st)' /\ HeldIn(file)'
    <3>1. HeldIn(st)'
      BY <1>0, <1>2, <2>3 DEF HeldIn
    <3>2. file' = st' \/ file' = file
      BY <2>1
    <3>3. QED
      BY <1>0, <3>1, <3>2 DEF HeldIn, Held
  <2>5. RuntimeNotes'
    <3>1. CASE wallet # None /\ wallet = st[i].wallet
      BY <2>1, <2>2, <2>3, <3>1
    <3>2. CASE ~(wallet # None /\ wallet = st[i].wallet)
      BY <2>1, <2>2, <2>3, <3>2 DEF NoReply
    <3>3. QED
      BY <3>1, <3>2
  <2>6. pc' \in RuntimePCs
    BY <2>1, <2>2
  <2>7. QED
    BY <1>1, <2>2, <2>4, <2>5, <2>6
<1>5. CASE DeleteOld
  <2>1. /\ pc = "r.delete" /\ pc' = "r.create" /\ report' = report
        /\ UNCHANGED <<file, st, todo, reply>>
        /\ UNCHANGED runtimes \/ DeleteRuntime(reply.inst)
    BY <1>5 DEF DeleteOld, Goto
  <2>2. \A i \in Inst \ todo : runtimes'[i] = runtimes[i]
    BY <2>1 DEF DeleteRuntime
  <2>3. HeldIn(file)' /\ HeldIn(st)'
    BY <1>0, <2>1 DEF HeldIn, Held
  <2>4. QED
    BY <1>1, <2>1, <2>2, <2>3
<1>6. CASE RegisterRuntime
  <2> DEFINE i == reply.inst
  <2>1. PICK rc \in {"ok", "failed"} :
          /\ \/ CreateRuntime(i, st[i].wallet)
             \/ rc = "failed" /\ UNCHANGED runtimes
          /\ st' = IF rc = "ok"
                   THEN [st EXCEPT ![i].status = "registered", ![i].error = FALSE]
                   ELSE [st EXCEPT ![i].error = TRUE]
    BY <1>6 DEF RegisterRuntime
  <2>2. /\ pc = "r.create" /\ pc' = "r.find" /\ report' = report
        /\ file' = st' /\ todo' = todo \ {i} /\ i \in Inst
    BY <1>6 DEF RegisterRuntime, Goto
  <2>3. \A j \in Inst : st'[j].wallet = st[j].wallet /\ (j # i => st'[j] = st[j])
    BY <2>1 DEF Entry
  <2>4. HeldIn(st)' /\ HeldIn(file)'
    <3>1. HeldIn(st)'
      BY <1>0, <1>2, <2>3 DEF HeldIn
    <3>2. QED
      BY <2>2, <3>1 DEF HeldIn
  <2>5. ~st'[i].error => runtimes'[i].wallet = st'[i].wallet
    BY <2>1, <2>2 DEF CreateRuntime, Entry
  <2>6. \A j \in Inst : j # i => runtimes'[j] = runtimes[j]
    BY <2>1, <2>2 DEF CreateRuntime
  <2>7. RuntimeNotes'
    <3> SUFFICES ASSUME NEW j \in Inst \ todo', ~st'[j].error
                 PROVE  runtimes'[j].wallet = st'[j].wallet
      BY <2>2
    <3>1. CASE j = reply.inst
      BY <2>5, <3>1
    <3>2. CASE j # reply.inst
      BY <2>2, <2>3, <2>6, <3>2
    <3>3. QED
      BY <3>1, <3>2
  <2>8. QED
    BY <1>1, <2>2, <2>4, <2>7
<1>7. CASE RuntimeDone
  <2>1. /\ pc = "r.find" /\ todo = {} /\ UNCHANGED <<runtimes, file>>
        /\ Ends(IF \E i \in Inst : st[i].error THEN "runtime-failed" ELSE "registered")
    BY <1>7 DEF RuntimeDone, platform
  <2>2. HeldIn(file)'
    BY <1>0, <2>1 DEF HeldIn, Held
  <2>3. CASE \E i \in Inst : st[i].error
    BY <2>1, <2>2, <2>3, EndsByBook DEF Asks
  <2>4. CASE ~\E i \in Inst : st[i].error
    <3>1. HeldTraded'
      BY <1>0, <2>1, <2>4 DEF HeldTraded, HeldIn, Held, Registered
    <3>2. QED
      BY <2>1, <2>2, <2>4, <3>1, EndsByBook DEF Asks
  <2>5. QED
    BY <2>3, <2>4
<1>8. QED
  BY <1>3, <1>4, <1>5, <1>6, <1>7 DEF RuntimeStep

\* verify changes nothing but marks.
LEMMA VerifyByBook == ASSUME BookInv, VerifyStep PROVE BookRules'
<1> USE DEF BookInv, BookRules, OwnInv, TypeOK
<1>1. /\ pc = "v.row" /\ UNCHANGED <<strategies, runtimes>>
      /\ HeldIn(file) /\ HeldIn(st) /\ HeldTraded
  BY DEF VerifyStep, Verified, VerifyRow, platform, VerifyPCs, Verifying
<1>2. HeldTraded'
  BY <1>1 DEF HeldTraded, Registered, Held
<1>3. CASE Verified
  <2>1. /\ Ends(IF allLive THEN "live" ELSE "not-live")
        /\ file' = file \/ file' = Fresh
    BY <1>3 DEF Verified
  <2>2. HeldIn(file)'
    BY <1>1, <2>1, FreshHeld DEF HeldIn, Held
  <2>3. QED
    BY <1>2, <2>1, <2>2, EndsByBook DEF Asks
<1>4. ASSUME NEW i \in Inst, VerifyRow(i) PROVE BookRules'
  <2>1. /\ st' = [st EXCEPT ![i].status = "live"] \/ st' = st
        /\ file' = st' \/ file' = file
        /\ UNCHANGED <<pc, report>>
    BY <1>4 DEF VerifyRow
  <2>2. \A j \in Inst : st'[j].wallet = st[j].wallet
    BY <2>1 DEF Entry
  <2>3. HeldIn(st)'
    BY <1>1, <2>2 DEF HeldIn, Held
  <2>4. HeldIn(file)'
    BY <1>1, <2>1, <2>3 DEF HeldIn, Held
  <2>5. QED
    BY <1>1, <1>2, <2>1, <2>3, <2>4
    DEF VerifyPCs, CreatePCs, RuntimePCs, Creating, Wiring, CreateNotes, RuntimeNotes
<1>5. QED
  BY <1>3, <1>4 DEF VerifyStep

\* close says that nothing is open only when nothing is.
LEMMA CloseByBook ==
    ASSUME "strategy_list" \notin Mishaps, BookInv, CloseStep
    PROVE  BookRules'
<1> USE DEF BookInv, BookRules
<1>0. ASSUME pc' \in ClosePCs, report' = report PROVE BookRules'
  BY <1>0 DEF ClosePCs, CreatePCs, RuntimePCs, VerifyPCs, Creating, Wiring, Verifying,
              CreateNotes, RuntimeNotes
<1>1. CASE CloseReadsOpen
  <2>1. PICK open \in SUBSET Sid :
          /\ ReadOpen(open)
          /\ IF open = {} THEN Ends("nothing-open")
             ELSE Goto(IF pc = "x.list" THEN "x.runtimes" ELSE "a.runtimes")
    BY <1>1 DEF CloseReadsOpen
  <2>2. CASE open = {}
    <3>1. \A s \in Sid : ~strategy_open(s)
      BY <2>1, <2>2 DEF ReadOpen, Mishap
    <3>2. NothingTraded'
      BY <1>1, <3>1 DEF CloseReadsOpen, NothingTraded, Registered, strategy_open,
                        OwnInv, TypeOK, PlatformTypeOK, Runtime
    <3>3. QED
      BY <2>1, <2>2, <3>2, EndsByBook DEF Asks
  <2>3. CASE open # {}
    BY <1>0, <2>1, <2>3 DEF Goto, ClosePCs
  <2>4. QED
    BY <2>2, <2>3
<1>2. CASE CloseReadsRuntimes
  BY <1>0, <1>2 DEF CloseReadsRuntimes, Goto, ClosePCs
<1>3. CASE CloseDone
  BY <1>3, EndsByBook DEF CloseDone, Asks
<1>4. ASSUME NEW s \in Sid, CloseThread(s) PROVE BookRules'
  BY <1>0, <1>4 DEF CloseThread, process, ClosePCs
<1>5. QED
  BY <1>1, <1>2, <1>3, <1>4 DEF CloseStep

LEMMA InitBook == Init => BookInv
<1> SUFFICES ASSUME Init PROVE BookRules
  BY InitOwn DEF BookInv
<1>1. pc = "idle" /\ report = "none" /\ st = Fresh /\ file = Fresh
  BY DEF Init
<1>2. NothingTraded
  BY DEF Init, PlatformInit, NoRuntime, NothingTraded, Registered
<1>3. QED
  BY <1>1, <1>2 DEF BookRules, CreateNotes, RuntimeNotes, Wiring, Verifying, Asks,
                    RuntimePCs, VerifyPCs

\* Every step keeps the inductive invariant.
LEMMA StepBook ==
    ASSUME ByTheBook, "strategy_list" \notin Mishaps, "app_close" \notin Mishaps
    PROVE  BookInv /\ [Next]_vars => BookInv'
<1>1. ASSUME BookInv, Next PROVE BookInv'
  <2>1. OwnInv'
    BY <1>1, StepOwn DEF BookInv
  <2>2. BookRules'
    BY <1>1, StartByBook, KillByBook, EnvironmentByBook, CreateReadsByBook,
       CreateClosesByBook, CreateFundsByBook, RuntimeByBook, VerifyByBook, CloseByBook
    DEF Next, Work, CreateStep
  <2>3. QED
    BY <2>1, <2>2 DEF BookInv
<1>2. ASSUME BookInv, UNCHANGED vars PROVE BookInv'
  <2>1. OwnInv'
    BY <1>2, StepOwn DEF BookInv
  <2>2. UNCHANGED <<strategies, runtimes, seen, file, pc, st, todo, reply, report>>
    BY <1>2 DEF vars, platform, closing, process
  <2>3. QED
    BY <1>2, <2>1, <2>2
    DEF BookInv, BookRules, Creating, Wiring, Verifying, NothingTraded, HeldIn, Held,
        HeldTraded, CreateNotes, RuntimeNotes, Registered, strategy_open, Targets,
        NoRuntimeOn, Waiting
<1>3. QED
  BY <1>1, <1>2

\* An operator who goes by the reports, and closes nothing behind the commands'
\* back, never has runtime register a runtime on a wallet that is closing or dead,
\* whatever else is killed, lost, paused or refused.
THEOREM NeverReusesDeadWalletTheorem ==
    ASSUME ByTheBook, "strategy_list" \notin Mishaps, "app_close" \notin Mishaps
    PROVE  Spec => NeverReusesDeadWallet
<1>1. ASSUME BookInv, Next, NEW i \in Inst, ~Registered(i), Registered(i)'
      PROVE  strategies[runtimes'[i].wallet].status \in {"ACTIVE", "PAUSED"}
  <2> USE DEF BookInv, OwnInv, TypeOK, PlatformTypeOK
  <2>1. ASSUME NEW n, DeleteRuntime(n) PROVE FALSE
    BY <1>1, <2>1 DEF DeleteRuntime, NoRuntime, Registered
  <2>2. ASSUME NEW j \in Inst, RuntimeFails(j) \/ RuntimeRecovers(j) PROVE FALSE
    BY <1>1, <2>2 DEF RuntimeFails, RuntimeRecovers, Registered, Runtime
  <2>3. runtimes' # runtimes
    BY <1>1 DEF Registered
  <2>4. RegisterRuntime
    <3>1. ASSUME NEW s \in Sid, close_one(s)
          PROVE  UNCHANGED runtimes \/ DeleteRuntime(RuntimeOf(s))
      BY <3>1 DEF close_one, Stop, NothingToStop, StopAgain, CheckStopped, SubmitClose,
                  DeleteOn, platform
    <3>2. ~Start /\ ~Kill /\ ~KillWhileSaving /\ ~VerifyStep
      BY <2>3 DEF Start, StartCreate, StartRuntime, StartVerify, StartClose,
         StartCloseAll, Starts, platform, Kill, KillWhileSaving, VerifyStep, Verified,
         VerifyRow
    <3>3. ~Environment
      BY <2>2, <2>3 DEF Environment, PlatformStep, Activate, FundingFails, Flattened,
                        AppClose, AppPause
    <3>4. ~CloseStep
      BY <2>1, <2>3, <3>1 DEF CloseStep, CloseReadsOpen, CloseReadsRuntimes, CloseDone,
                              CloseThread, platform
    <3>5. ~CreateStep
      BY <2>1, <2>3, <3>1
      DEF CreateStep, Reconciled, CreateReadsRuntimes, CreateReadsExisting, LiveChecked,
          CreateForgets, Fund, Record, Submitted, Polled, Reconcile, Poll, LiveCheck,
          CreateCloses, Submit, Retry, platform
    <3>6. ASSUME RuntimeStep PROVE RegisterRuntime
      BY <2>1, <2>3, <3>6 DEF RuntimeStep, Recover, DeleteOld, RuntimeDone, FindRuntime,
                              platform
    <3>7. QED
      BY <1>1, <3>2, <3>3, <3>4, <3>5, <3>6 DEF Next, Work
  <2>5. pc = "r.create" /\ CreateRuntime(reply.inst, st[reply.inst].wallet)
    BY <2>3, <2>4 DEF RegisterRuntime
  <2>6. i = reply.inst /\ runtimes'[i].wallet = st[i].wallet
    BY <1>1, <2>5 DEF CreateRuntime, Registered
  <2>7. HeldIn(st)
    BY <1>1, <2>5 DEF BookRules, Wiring, RuntimePCs
  <2>8. QED
    BY <1>1, <2>6, <2>7 DEF HeldIn, Held, Registered
<1>2. BookInv /\ [Next]_vars =>
        [\A i \in Inst :
           ~Registered(i) /\ Registered(i)'
           => strategies[runtimes'[i].wallet].status \in {"ACTIVE", "PAUSED"}]_vars
  BY <1>1
<1>3. QED
  BY InitBook, StepBook, <1>2, PTL DEF Spec, NeverReusesDeadWallet

\* The rows verify has passed so far have a running runtime.
RowsRun == pc = "v.row" /\ allLive => \A i \in Inst \ todo : Running(i)

\* A row that passes has one, also when its health could not be read.
LEMMA RowsKept ==
    ASSUME "runtime" \notin Mishaps, TypeOK, RowsRun, Next
    PROVE  RowsRun'
<1> USE DEF RowsRun, Running, Registered
<1> SUFFICES ASSUME pc' = "v.row" PROVE RowsRun'
  OBVIOUS
<1>0. ASSUME NEW result, Ends(result) PROVE FALSE
  BY <1>0 DEF Ends
<1>1. CASE Start
  <2>1. \/ pc' \in {"c.reconcile", "r.find", "r.recover", "x.list", "a.list"}
        \/ todo' = Inst
    BY <1>1 DEF Start, StartCreate, StartRuntime, StartVerify, StartClose, StartCloseAll,
                Starts
  <2>2. QED
    BY <2>1
<1>2. CASE Kill \/ KillWhileSaving
  BY <1>0, <1>2 DEF Kill, KillWhileSaving, Dies
<1>3. CASE Environment
  <2>1. UNCHANGED <<pc, todo, allLive>>
    BY <1>3 DEF Environment, Rest, process
  <2>2. ASSUME NEW i \in Inst, RuntimeFails(i) \/ RuntimeRecovers(i)
        PROVE  \A j \in Inst : Running(j) => Running(j)'
    BY <2>2 DEF RuntimeFails, RuntimeRecovers, Mishap, TypeOK, PlatformTypeOK, Runtime
  <2>3. \A j \in Inst : Running(j) => Running(j)'
    BY <1>3, <2>2 DEF Environment, PlatformStep, Activate, FundingFails, Flattened,
                      AppClose, AppPause
  <2>4. QED
    BY <2>1, <2>3
<1>4. ASSUME NEW i \in Inst, VerifyRow(i) PROVE RowsRun'
  <2>1. /\ pc = "v.row" /\ todo' = todo \ {i} /\ UNCHANGED runtimes
        /\ \E live \in BOOLEAN : allLive' = (allLive /\ live) /\ (live => Running(i))
    BY <1>4 DEF VerifyRow
  <2>2. QED
    BY <2>1
<1>5. ~Verified
  BY <1>0 DEF Verified
<1>6. ~CloseStep
  BY <1>0 DEF CloseStep, CloseReadsOpen, CloseReadsRuntimes, CloseDone, CloseThread, Goto,
              process
<1>7. ~RuntimeStep
  <2>1. ~Recover
    <3>1. ASSUME Recover PROVE Goto("r.find") \/ Ends("unresolved")
      BY <3>1 DEF Recover
    <3>2. QED
      BY <1>0, <3>1 DEF Goto
  <2>2. ASSUME NEW i \in Inst PROVE ~FindRuntime(i)
    BY DEF FindRuntime
  <2>3. QED
    BY <1>0, <2>1, <2>2 DEF RuntimeStep, DeleteOld, RegisterRuntime, RuntimeDone, Goto
<1>8. ~CreateStep
  BY <1>0 DEF CreateStep, Reconciled, CreateReadsRuntimes, CreateReadsExisting, LiveChecked,
       CreateForgets, Fund, Record, Submitted, Polled, Reconcile, Poll, LiveCheck,
       CreateCloses, Submit, Retry, SubmitFailed, SubmitAnswered, Goto, process
<1>9. QED
  BY <1>1, <1>2, <1>3, <1>4, <1>5, <1>6, <1>7, <1>8 DEF Next, Work, VerifyStep

\* When an operator who goes by the reports is told "live", every instance of the
\* package has a running runtime on a wallet that is open, as long as runtimes do
\* not stop and nothing is closed behind the commands' back.
THEOREM LiveMeansDeployedTheorem ==
    ASSUME ByTheBook, "strategy_list" \notin Mishaps, "app_close" \notin Mishaps,
           "runtime" \notin Mishaps
    PROVE  Spec => LiveMeansDeployed
<1>1. Init => BookInv /\ RowsRun
  BY InitBook DEF Init, RowsRun
<1>2. BookInv /\ RowsRun /\ [Next]_vars => (BookInv /\ RowsRun)'
  <2>1. ASSUME BookInv, RowsRun, Next PROVE RowsRun'
    BY <2>1, RowsKept DEF BookInv, OwnInv
  <2>2. ASSUME RowsRun, UNCHANGED vars PROVE RowsRun'
    BY <2>2 DEF RowsRun, Running, Registered, vars, platform, process
  <2>3. QED
    BY <2>1, <2>2, StepBook
<1>3. ASSUME BookInv, RowsRun, Next, pc = "v.row", report' = "live", pc' = "idle"
      PROVE  \A i \in Inst : Running(i) /\ strategy_open(runtimes[i].wallet)
  <2>1. ~Start /\ ~Environment /\ ~CloseStep /\ ~RuntimeStep /\ ~CreateStep
    BY <1>3 DEF Start, StartCreate, StartRuntime, StartVerify, StartClose,
         StartCloseAll, Starts, MayRun, Environment, Rest, process, RuntimeStep, Recover,
         DeleteOld, RegisterRuntime, RuntimeDone, FindRuntime, CloseStep, CloseReadsOpen,
         CloseReadsRuntimes, CloseDone, CloseThread, CreateStep, Reconciled,
         CreateReadsRuntimes, CreateReadsExisting, LiveChecked, CreateForgets, Fund,
         Record, Submitted, Polled, Reconcile, Poll, LiveCheck, CreateCloses, Submit, Retry
  <2>2. ~Kill /\ ~KillWhileSaving
    BY <1>3 DEF Kill, KillWhileSaving, Dies, Ends
  <2>3. ASSUME NEW i \in Inst PROVE ~VerifyRow(i)
    BY <1>3 DEF VerifyRow
  <2>4. Verified
    BY <1>3, <2>1, <2>2, <2>3 DEF Next, Work, VerifyStep
  <2>5. todo = {} /\ allLive
    BY <1>3, <2>4 DEF Verified, Ends
  <2>6. \A i \in Inst : Running(i)
    BY <1>3, <2>5 DEF RowsRun
  <2>7. HeldTraded
    BY <1>3 DEF BookInv, BookRules, Verifying, VerifyPCs
  <2>8. QED
    BY <2>6, <2>7 DEF HeldTraded, Running, Held, strategy_open, LIVE_STATUSES,
                      DEAD_STATUSES, Status
<1>4. BookInv /\ RowsRun /\ [Next]_vars =>
        [pc = "v.row" /\ report' = "live" /\ pc' = "idle"
         => \A i \in Inst : Running(i) /\ strategy_open(runtimes[i].wallet)]_vars
  BY <1>3
<1>5. QED
  BY <1>1, <1>2, <1>4, PTL DEF Spec, LiveMeansDeployed
=============================================================================
