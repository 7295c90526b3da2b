----------------------------- MODULE StrategyOps -----------------------------
(***************************************************************************)
(* deploy.py (create, runtime, verify) and close.py of senpi-strategy-ops, *)
(* for one package: the commands one operator runs one after another, each *)
(* a sequence of calls to the platform that can be killed between any two  *)
(* of them, and the state file that is all a killed command leaves behind. *)
(***************************************************************************)
EXTENDS CloseOne

CONSTANTS
    Commands,   \* the commands the operator uses
    ByTheBook   \* the operator runs the command the last report asks for

VARIABLES
    file,       \* .deploy-state.json; a missing or unreadable one is Fresh
    pc,         \* the command being run and where it is
    st,         \* the command's copy of the state
    todo,       \* the instances the current loop has not handled
    reply,      \* a strategy id the backend returned, not yet recorded
    allLive,    \* verify: every row so far is live
    report,     \* what the last command ended with
    up          \* history, not in the code: the instances whose runtime has run
                \* without a break since create read the existing strategies,
                \* and was not overlooked by a read that failed

process == <<pc, st, todo, reply, allLive, report>>
vars == <<platform, closing, file, process, up>>

Entry == [sid : Sid \cup {None}, wallet : Sid \cup {None},
          status : {"pending", "creating", "active", "registered", "live"},
          error : BOOLEAN]
Pending == [sid |-> None, wallet |-> None, status |-> "pending", error |-> FALSE]
Fresh   == [i \in Inst |-> Pending]
NoReply == [inst |-> None, sid |-> None]

CreatePCs  == {"c.reconcile", "c.runtimes", "c.existing", "c.livecheck",
               "c.close", "c.fund", "c.submit", "c.retry", "c.record", "c.poll"}
RuntimePCs == {"r.recover", "r.find", "r.delete", "r.create"}
VerifyPCs  == {"v.row"}
ClosePCs   == {"x.list", "x.runtimes", "x.close",      \* close <package>
               "a.list", "a.runtimes", "a.close"}      \* close --all
PC == {"idle"} \cup CreatePCs \cup RuntimePCs \cup VerifyPCs \cup ClosePCs

Killed == {"create killed", "runtime killed", "verify killed", "close killed"}
Report == Killed \cup
          {"none", "refused", "closing-existing", "underfunded", "failed",
           "creating", "wallets-ready", "unresolved", "registered",
           "runtime-failed", "live", "not-live", "nothing-open", "closing",
           "close-failed"}

TypeOK ==
    /\ PlatformTypeOK
    /\ CloseTypeOK
    /\ file \in [Inst -> Entry]
    /\ pc \in PC
    /\ st \in [Inst -> Entry]
    /\ todo \in SUBSET Inst
    /\ reply \in [inst : Inst \cup {None}, sid : Sid \cup {None}]
    /\ allLive \in BOOLEAN
    /\ report \in Report
    /\ up \in SUBSET Inst

Init ==
    /\ PlatformInit
    /\ ClosingInit
    /\ file = Fresh
    /\ pc = "idle"
    /\ st = Fresh
    /\ todo = {}
    /\ reply = NoReply
    /\ allLive = TRUE
    /\ report = "none"
    /\ up = {}

(***************************************************************************)
(* Commands start and end.                                                 *)
(***************************************************************************)
Goto(where) == pc' = where /\ UNCHANGED report

\* The process ends; only the file survives.
Ends(result) ==
    /\ pc' = "idle"
    /\ report' = result
    /\ st' = Fresh
    /\ todo' = {}
    /\ reply' = NoReply
    /\ allLive' = TRUE
    /\ up' = {}
    /\ ClosingReset

\* The step SKILL.md tells the operator to run after each report; a killed
\* step is run again.  What is live is torn down again sooner or later.
Asks == [create  |-> {"none", "create killed", "closing-existing", "underfunded",
                      "failed", "creating", "nothing-open"},
         runtime |-> {"runtime killed", "wallets-ready", "runtime-failed",
                      "not-live"},
         verify  |-> {"verify killed", "registered", "refused"},
         close   |-> {"close killed", "unresolved", "closing", "close-failed",
                      "live"},
         close_all |-> {}]

MayRun(command) ==
    /\ pc = "idle"
    /\ command \in Commands
    /\ ByTheBook => report \in Asks[command]

Starts(command, where, loop) ==
    /\ MayRun(command)
    /\ pc' = where
    /\ report' = "none"
    /\ st' = file
    /\ todo' = loop
    /\ UNCHANGED <<platform, closing, file, reply, allLive, up>>

StartCreate == Starts("create", "c.reconcile", {i \in Inst : file[i].sid # None})

StartRuntime ==
    LET missing == {i \in Inst : file[i].wallet = None} IN
    IF missing = {} THEN Starts("runtime", "r.find", Inst)
                    ELSE Starts("runtime", "r.recover", missing)

StartVerify   == Starts("verify", "v.row", Inst)
StartClose    == Starts("close", "x.list", {})
StartCloseAll == Starts("close_all", "a.list", {})

Dies ==
    \/ pc \in CreatePCs  /\ Ends("create killed")
    \/ pc \in RuntimePCs /\ Ends("runtime killed")
    \/ pc \in VerifyPCs  /\ Ends("verify killed")
    \/ pc \in ClosePCs   /\ Ends("close killed")

\* The session times out, the host reboots, an exception escapes.
Kill ==
    /\ Mishap("kill")
    /\ Dies
    /\ UNCHANGED <<strategies, runtimes, file>>

\* save_state truncates the file before it writes: a kill in between leaves
\* what load_state takes for no state at all.
SavingPCs == {"c.reconcile", "c.close", "c.submit", "c.retry", "c.record",
              "c.poll", "r.recover", "r.find", "r.create", "v.row"}

KillWhileSaving ==
    /\ pc \in SavingPCs
    /\ Mishap("torn")
    /\ Dies
    /\ file' = Fresh
    /\ UNCHANGED <<strategies, runtimes>>

(***************************************************************************)
(* create.                                                                 *)
(***************************************************************************)

\* Mutant: what was recorded is kept, whatever became of it.
RecordedActiveAlways(s, active) == active = TRUE /\ Smooth

\* Whether a recorded strategy reads as ACTIVE; it does not when the read fails.
RecordedActive(s, active) ==
    \/ active = (strategies[s].status = "ACTIVE") /\ Smooth
    \/ active = FALSE /\ Mishap("strategy_list")

\* A recorded strategy that does not read as ACTIVE is forgotten.
Reconcile(i) ==
    /\ pc = "c.reconcile"
    /\ i \in todo
    /\ \E active \in BOOLEAN :
         /\ RecordedActive(st[i].sid, active)
         /\ st' = IF active THEN st ELSE [st EXCEPT ![i] = Pending]
    /\ todo' = todo \ {i}
    /\ UNCHANGED <<strategies, runtimes, closing, file, pc, reply, allLive, up, report>>

Reconciled ==
    /\ pc = "c.reconcile"
    /\ todo = {}
    /\ file' = st
    /\ Goto("c.runtimes")
    /\ UNCHANGED <<platform, closing, st, todo, reply, allLive, up>>

CreateReadsRuntimes ==
    /\ pc = "c.runtimes"
    /\ ReadRuntimes(rts')
    /\ Goto("c.existing")
    /\ UNCHANGED <<strategies, runtimes, seen, job, file, st, todo, reply, allLive, up>>

\* Mutant: only ACTIVE strategies count as existing ones.
existing_open_active(open) ==
    \/ open = {s \in Sid : strategies[s].status = "ACTIVE"} /\ Smooth
    \/ open = {} /\ Mishap("strategy_list")

existing_open(open) == ReadOpen(open)

CreateReadsExisting ==
    /\ pc = "c.existing"
    /\ \E open \in SUBSET Sid :
         /\ existing_open(open)
         /\ seen' = [s \in Sid |-> IF s \in open THEN strategies[s].status
                                                 ELSE "UNUSED"]
         /\ Goto(IF open = {} THEN "c.fund" ELSE "c.livecheck")
         /\ up' = IF open = {} THEN {} ELSE {i \in Inst : Running(i)}
    /\ UNCHANGED <<strategies, runtimes, rts, job, file, st, todo, reply, allLive>>

\* Mutant: the runtime is looked up by the strategy's name, not its wallet.
HasRunningRuntimeByName(s, running) ==
    /\ running = (\E i \in Inst : strategies[s].named /\ strategies[s].inst = i
                                  /\ Running(i))
    /\ Smooth

\* The inventory is read anew for every existing strategy.
HasRunningRuntime(s, running) ==
    \/ running = (\E i \in Inst : runtimes[i].wallet = s /\ Running(i)) /\ Smooth
    \/ running = FALSE /\ Mishap("lookup")

\* One live strategy and create refuses; job marks those found not running.
LiveCheck(s) ==
    /\ pc = "c.livecheck"
    /\ s \in Targets
    /\ job[s] = "none"
    /\ \E running \in BOOLEAN :
         /\ HasRunningRuntime(s, running)
         /\ IF running THEN Ends("refused")
                       ELSE /\ JobGoes(s, "start")
                            /\ up' = IF mishaps' = mishaps THEN up
                                     ELSE {i \in up : runtimes[i].wallet # s}
                            /\ UNCHANGED <<rts, seen, process>>
    /\ UNCHANGED <<strategies, runtimes, file>>

LiveChecked ==
    /\ pc = "c.livecheck"
    /\ \A s \in Targets : job[s] = "start"
    /\ Goto("c.close")
    /\ UNCHANGED <<platform, closing, file, st, todo, reply, allLive, up>>

\* create closes the existing strategies one after another.
CreateCloses(s) ==
    /\ pc = "c.close"
    /\ \A t \in Targets \ {s} : job[t] \in {"start"} \cup JobDone
    /\ close_one(s)
    /\ UNCHANGED <<file, process, up>>

\* Then it forgets every recorded id, so that the next create makes new ones.
CreateForgets ==
    /\ pc = "c.close"
    /\ JobsDone
    /\ file' = Fresh
    /\ Ends("closing-existing")
    /\ UNCHANGED platform

Need == {i \in Inst : st[i].sid = None}

\* The balance covers the request, or cannot be read, or falls short.
Fund ==
    /\ pc = "c.fund"
    /\ \/ /\ Goto("c.submit")
          /\ todo' = Need
          /\ Smooth
          /\ UNCHANGED <<closing, st, reply, allLive, up>>
       \/ /\ Need # {}
          /\ Mishap("balance")
          /\ Ends("underfunded")
    /\ UNCHANGED <<strategies, runtimes, file>>

\* The create call answers an error, or without an id: it took effect or not.
CallFails(i, named) ==
    \/ Mishap("create") /\ UNCHANGED strategies
    \/ Mishap("create") /\ \E s \in Sid : CreateStrategy(i, s, named, FALSE)
    \/ /\ \A s \in Sid : strategies[s].status # "UNUSED"
       /\ UNCHANGED <<strategies, mishaps>>

SubmitFailed(i) ==
    /\ \E status \in {"pending", st[i].status} :
         file' = [st EXCEPT ![i].status = status, ![i].error = TRUE]
    /\ Ends("failed")

SubmitAnswered(i, s) ==
    /\ reply' = [inst |-> i, sid |-> s]
    /\ Goto("c.record")
    /\ UNCHANGED <<closing, file, st, todo, allLive, up>>

\* The call with a name.  An error whose text has "name" in it, or one of three
\* codes, is taken for a refusal of the name: nothing was created, or a strategy
\* was although the answer is such an error.
Submit(i) ==
    /\ pc = "c.submit"
    /\ i \in todo
    /\ \/ \E s \in Sid : CreateStrategy(i, s, TRUE, FALSE) /\ SubmitAnswered(i, s) /\ Smooth
       \/ CallFails(i, TRUE) /\ SubmitFailed(i)
       \/ /\ \/ Mishap("name") /\ UNCHANGED strategies
             \/ Mishap("name_lost") /\ \E s \in Sid : CreateStrategy(i, s, TRUE, TRUE)
          /\ reply' = [NoReply EXCEPT !.inst = i]
          /\ Goto("c.retry")
          /\ UNCHANGED <<closing, file, st, todo, allLive, up>>
    /\ UNCHANGED runtimes

\* The same call once more, without a name.
Retry ==
    /\ pc = "c.retry"
    /\ \/ \E s \in Sid : /\ CreateStrategy(reply.inst, s, FALSE, FALSE)
                         /\ SubmitAnswered(reply.inst, s)
                         /\ Smooth
       \/ CallFails(reply.inst, FALSE) /\ SubmitFailed(reply.inst)
    /\ UNCHANGED runtimes

\* Mutant: the whole answer is recorded.
strategy_id_of_answer(answer) == answer

strategy_id_of(answer) == answer.sid

\* The id is saved before anything else happens.
Record ==
    /\ pc = "c.record"
    /\ st' = [st EXCEPT ![reply.inst].sid = strategy_id_of(reply),
                        ![reply.inst].status = "creating",
                        ![reply.inst].error = FALSE]
    /\ file' = st'
    /\ todo' = todo \ {reply.inst}
    /\ reply' = NoReply
    /\ Goto("c.submit")
    /\ UNCHANGED <<platform, closing, allLive, up>>

Waiting == {i \in Inst : st[i].status \notin {"active", "registered", "live"}}

Submitted ==
    /\ pc = "c.submit"
    /\ todo = {}
    /\ Goto("c.poll")
    /\ todo' = Waiting
    /\ UNCHANGED <<platform, closing, file, st, reply, allLive, up>>

Polls(s, active) ==
    \/ active = (strategies[s].status = "ACTIVE") /\ Smooth
    \/ active = FALSE /\ Mishap("strategy_list")

\* One instance of one polling pass.
Poll(i) ==
    /\ pc = "c.poll"
    /\ i \in todo
    /\ \E active \in BOOLEAN :
         /\ Polls(st[i].sid, active)
         /\ st' = IF active THEN [st EXCEPT ![i].wallet = st[i].sid,
                                            ![i].status = "active"]
                            ELSE st
         /\ file' = IF active THEN st' ELSE file
    /\ todo' = todo \ {i}
    /\ UNCHANGED <<strategies, runtimes, closing, pc, reply, allLive, up, report>>

\* Some strategy create still waits for can become ACTIVE.
Promising == \E i \in Waiting :
                strategies[st[i].sid].status \in {"FUND_WALLET", "ACTIVE"}

\* The pass is over: all wallets ready, or the deadline has passed, or another
\* pass.  A deadline that cuts off a strategy on its way is a mishap ("slow");
\* passes that wait for nothing are left out.
Polled ==
    /\ pc = "c.poll"
    /\ todo = {}
    /\ \/ /\ Waiting = {}
          /\ Ends("wallets-ready")
          /\ Smooth
       \/ /\ Waiting # {}
          /\ IF Promising THEN Mishap("slow") ELSE Smooth
          /\ Ends("creating")
       \/ /\ Promising
          /\ todo' = Waiting
          /\ Smooth
          /\ UNCHANGED <<closing, pc, st, reply, allLive, up, report>>
    /\ UNCHANGED <<strategies, runtimes, file>>

(***************************************************************************)
(* runtime.                                                                *)
(***************************************************************************)

\* Mutant: any ACTIVE strategy of the package will do.
MatchesAny(i, s) == TRUE

\* _recover_wallet: a package of several instances matches by name, a single
\* instance takes whatever is there.
Matches(i, s) ==
    \/ Cardinality(Inst) = 1
    \/ strategies[s].named /\ strategies[s].inst = i

Candidates(i, active) == {s \in active : Matches(i, s)}

\* Instances without a wallet get the one ACTIVE strategy that can be theirs;
\* none or several and the command gives up, after saving what it recovered.
Recover ==
    /\ pc = "r.recover"
    /\ \E active \in SUBSET Sid :
         /\ \/ active = {s \in Sid : strategies[s].status = "ACTIVE"} /\ Smooth
            \/ active = {} /\ Mishap("strategy_list")
         /\ LET found == {i \in todo : Cardinality(Candidates(i, active)) = 1}
                healed == [i \in Inst |->
                             IF i \in found
                             THEN [st[i] EXCEPT
                                     !.wallet = CHOOSE s \in Candidates(i, active) : TRUE,
                                     !.status = "active"]
                             ELSE st[i]]
            IN /\ file' = IF found = {} THEN file ELSE healed
               /\ IF found = todo
                  THEN /\ Goto("r.find")
                       /\ st' = healed
                       /\ todo' = Inst
                       /\ UNCHANGED <<closing, reply, allLive, up>>
                  ELSE Ends("unresolved")
    /\ UNCHANGED <<strategies, runtimes>>

\* Mutant: a runtime of the right name is the right runtime.
wallet_match_name(i, wallet) == TRUE

wallet_match(i, wallet) == wallet = st[i].wallet

\* The runtime of this name: on this wallet, nothing to do; on another, delete
\* and recreate; none, or an unreadable list, create.
FindRuntime(i) ==
    /\ pc = "r.find"
    /\ reply = NoReply
    /\ i \in todo
    /\ \E wallet \in Sid \cup {None} :
         /\ \/ wallet = runtimes[i].wallet /\ Smooth
            \/ wallet = None /\ Mishap("inventory")
         /\ IF wallet # None /\ wallet_match(i, wallet)
            THEN /\ st' = [st EXCEPT ![i].status = "registered", ![i].error = FALSE]
                 /\ file' = st'
                 /\ todo' = todo \ {i}
                 /\ UNCHANGED <<pc, reply>>
            ELSE /\ pc' = IF wallet = None THEN "r.create" ELSE "r.delete"
                 /\ reply' = [NoReply EXCEPT !.inst = i]
                 /\ st' = [st EXCEPT ![i].error = FALSE]
                 /\ UNCHANGED <<file, todo>>
    /\ UNCHANGED <<strategies, runtimes, closing, allLive, up, report>>

\* runtime delete <name>; its exit code is ignored.
DeleteOld ==
    /\ pc = "r.delete"
    /\ \/ DeleteRuntime(reply.inst) /\ Smooth
       \/ UNCHANGED runtimes /\ Mishap("delete")
    /\ Goto("r.create")
    /\ UNCHANGED <<strategies, closing, file, st, todo, reply, allLive, up>>

\* runtime create: done, refused because the name is taken, or failed or
\* timed out although it took effect or not.
RegisterRuntime ==
    LET i == reply.inst IN
    /\ pc = "r.create"
    /\ \E rc \in {"ok", "failed"} :
         /\ \/ rc = "ok" /\ CreateRuntime(i, st[i].wallet) /\ Smooth
            \/ rc = "failed" /\ Registered(i) /\ UNCHANGED <<runtimes, mishaps>>
            \/ rc = "failed" /\ CreateRuntime(i, st[i].wallet) /\ Mishap("register")
            \/ rc = "failed" /\ UNCHANGED runtimes /\ Mishap("register")
         /\ st' = IF rc = "ok"
                  THEN [st EXCEPT ![i].status = "registered", ![i].error = FALSE]
                  ELSE [st EXCEPT ![i].error = TRUE]
    /\ file' = st'
    /\ todo' = todo \ {i}
    /\ reply' = NoReply
    /\ Goto("r.find")
    /\ UNCHANGED <<strategies, closing, allLive, up>>

RuntimeDone ==
    /\ pc = "r.find"
    /\ todo = {}
    /\ Ends(IF \E i \in Inst : st[i].error THEN "runtime-failed" ELSE "registered")
    /\ UNCHANGED <<platform, file>>

(***************************************************************************)
(* verify.                                                                 *)
(***************************************************************************)

\* What verify reads of the runtime's name, not of its wallet.  A
\* broken scanner passes when its health cannot be read; a running runtime
\* fails when neither status nor the list can.
VerifyRow(i) ==
    /\ pc = "v.row"
    /\ i \in todo
    /\ \E running, live \in BOOLEAN :
         /\ \/ running = Running(i) /\ Smooth
               /\ live = (running /\ runtimes[i].health = "running")
            \/ running /\ live /\ Running(i) /\ Mishap("health")
            \/ ~running /\ ~live /\ Mishap("inventory")
         /\ st' = IF live THEN [st EXCEPT ![i].status = "live"] ELSE st
         /\ file' = IF running THEN st' ELSE file
         /\ allLive' = (allLive /\ live)
    /\ todo' = todo \ {i}
    /\ UNCHANGED <<strategies, runtimes, closing, pc, reply, report, up>>

\* All rows live: the deploy is complete and its state file goes.
Verified ==
    /\ pc = "v.row"
    /\ todo = {}
    /\ Ends(IF allLive THEN "live" ELSE "not-live")
    /\ file' = IF allLive THEN Fresh ELSE file
    /\ UNCHANGED platform

(***************************************************************************)
(* close <package>, close --all.                                           *)
(***************************************************************************)
CloseReadsOpen ==
    /\ pc \in {"x.list", "a.list"}
    /\ \E open \in SUBSET Sid :
         /\ ReadOpen(open)
         /\ IF open = {}
            THEN Ends("nothing-open")
            ELSE /\ seen' = [s \in Sid |-> IF s \in open
                                           THEN strategies[s].status ELSE "UNUSED"]
                 /\ Goto(IF pc = "x.list" THEN "x.runtimes" ELSE "a.runtimes")
                 /\ UNCHANGED <<rts, job, st, todo, reply, allLive, up>>
    /\ UNCHANGED <<strategies, runtimes, file>>

CloseReadsRuntimes ==
    /\ pc \in {"x.runtimes", "a.runtimes"}
    /\ ReadRuntimes(rts')
    /\ StartJobs(Targets)
    /\ Goto(IF pc = "x.runtimes" THEN "x.close" ELSE "a.close")
    /\ UNCHANGED <<strategies, runtimes, seen, file, st, todo, reply, allLive, up>>

\* One thread per target.
CloseThread(s) ==
    /\ pc \in {"x.close", "a.close"}
    /\ close_one(s)
    /\ UNCHANGED <<file, process, up>>

\* A package's state file goes even when a target failed; --all leaves it.
CloseDone ==
    /\ pc \in {"x.close", "a.close"}
    /\ JobsDone
    /\ Ends(IF \E s \in Targets : job[s] = "failed" THEN "close-failed" ELSE "closing")
    /\ file' = IF pc = "x.close" THEN Fresh ELSE file
    /\ UNCHANGED platform

(***************************************************************************)
(* The specification.                                                      *)
(***************************************************************************)
CreateStep ==
    \/ Reconciled \/ CreateReadsRuntimes \/ CreateReadsExisting
    \/ LiveChecked \/ CreateForgets \/ Fund \/ Retry \/ Record \/ Submitted \/ Polled
    \/ \E i \in Inst : Reconcile(i) \/ Submit(i) \/ Poll(i)
    \/ \E s \in Sid : LiveCheck(s) \/ CreateCloses(s)

RuntimeStep ==
    \/ Recover \/ DeleteOld \/ RegisterRuntime \/ RuntimeDone
    \/ \E i \in Inst : FindRuntime(i)

VerifyStep == Verified \/ \E i \in Inst : VerifyRow(i)

CloseStep ==
    \/ CloseReadsOpen \/ CloseReadsRuntimes \/ CloseDone
    \/ \E s \in Sid : CloseThread(s)

Start == StartCreate \/ StartRuntime \/ StartVerify \/ StartClose \/ StartCloseAll

Work == CreateStep \/ RuntimeStep \/ VerifyStep \/ CloseStep

Rest ==
    /\ up' = {i \in up : Running(i)'}
    /\ UNCHANGED <<closing, file, process>>

Environment == PlatformStep /\ Rest

Next == Start \/ Work \/ Kill \/ KillWhileSaving \/ Environment

Spec == Init /\ [][Next]_vars

\* Every command runs on unless it is killed, the operator keeps going, the
\* platform finishes what it was asked and the host restarts what it supervises.
\* Nothing makes a mishap happen.
Fairness ==
    /\ WF_vars(Start)
    /\ WF_vars(Work)
    /\ \A s \in Sid : WF_vars(Activate(s) /\ Rest) /\ WF_vars(Flattened(s) /\ Rest)
    /\ \A i \in Inst : WF_vars(RuntimeRecovers(i) /\ Rest)

FairSpec == Spec /\ Fairness

(***************************************************************************)
(* Safety.                                                                 *)
(***************************************************************************)

\* create funds an instance once: whatever was killed, lost or refused on the
\* way, two open strategies of one instance are a strategy made by a call that
\* answered "name ..." and the one of its retry, and never more (deploy.py, the
\* block above existing_open: a second wallet alongside the first double-funds).
OneOpenStrategyPerInstance ==
    \A s, t \in Sid :
        /\ strategy_open(s) /\ strategy_open(t)
        /\ strategies[s].inst = strategies[t].inst
        => s = t \/ strategies[s].lost # strategies[t].lost

\* The wallet deploy.py records for an instance, and the wallet the instance's
\* runtime trades on, are wallets created for that instance, also when the
\* record was lost and _recover_wallet had to find it again.
WalletBelongs ==
    \A i \in Inst :
        /\ file[i].wallet # None => strategies[file[i].wallet].inst = i
        /\ Registered(i) => strategies[runtimes[i].wallet].inst = i

\* strategy_close is not submitted while a runtime can still re-enter positions
\* on the wallet (close.py, _runtime_gone: fail closed).
StopBeforeClose ==
    [][\A s \in Sid :
         job[s] = "submit" /\ job'[s] \in JobDone
         => \A i \in Inst : runtimes[i].wallet # s]_vars

\* create neither stops a runtime that has run since it looked for existing
\* strategies, nor closes the strategy it trades (deploy.py: "REFUSE to silently
\* flatten it"): whatever else it tears down, and whatever stops and comes back
\* meanwhile.  A read that fails gives up the one runtime it looked for.
CreateSparesRunning ==
    [][\A i \in up :
         pc \in CreatePCs /\ closing' # closing
         => UNCHANGED runtimes[i] /\ UNCHANGED strategies[runtimes[i].wallet]]_vars

\* When verify reports "live", every instance has a running runtime, on a
\* wallet that is still open: the whole deploy, not its last row.
LiveMeansDeployed ==
    [][pc = "v.row" /\ report' = "live" /\ pc' = "idle"
       => \A i \in Inst : Running(i) /\ strategy_open(runtimes[i].wallet)]_vars

\* create resumes: a recorded strategy is forgotten only when it is dead
\* (deploy.py: "re-run `create` to RESUME (never re-creates)").
CreateResumes ==
    [][\A i \in Inst :
         /\ pc = "c.reconcile" /\ pc' = pc
         /\ st[i].sid # None /\ st'[i].sid = None
         => ~strategy_open(st[i].sid)]_vars

\* runtime registers a runtime only on a wallet whose strategy is not closing or
\* dead (deploy.py cmd_runtime: "we never reuse an old wallet").
NeverReusesDeadWallet ==
    [][\A i \in Inst :
         ~Registered(i) /\ Registered(i)'
         => strategies[runtimes'[i].wallet].status \in {"ACTIVE", "PAUSED"}]_vars

(***************************************************************************)
(* Liveness.                                                               *)
(***************************************************************************)

\* An operator who runs the step each report asks for ends up with a live
\* deploy, from any point at which a command was killed.
DeployConverges == <>(report = "live")

\* An operator who re-runs close as long as it reports "closing" gets every
\* strategy of the package closed.
CloseConverges ==
    \A s \in Sid : report = "closing" /\ strategy_open(s) ~> ~strategy_open(s)
=============================================================================
