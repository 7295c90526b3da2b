------------------------------ MODULE CloseOne ------------------------------
(***************************************************************************)
(* close.py: close_one, the teardown of one strategy, which close.py runs  *)
(* on a thread per strategy and deploy.py create runs one after another.   *)
(* Every call to the host or the backend is a step of its own, so threads, *)
(* the platform and the user interleave between any two of them.           *)
(***************************************************************************)
EXTENDS SenpiPlatform

VARIABLES
    rts,    \* the inventory the caller read once, before: name -> wallet
    seen,   \* the status of each target in the strategy_list read ("UNUSED":
            \* not a target); close_one never looks at a fresher one
    job     \* how far close_one is with each target

closing == <<rts, seen, job>>

JobDone == {"closing", "failed"}
Job     == {"none", "start", "check1", "stop2", "check2", "submit"} \cup JobDone

CloseTypeOK ==
    /\ rts \in [Inst -> Sid \cup {None}]
    /\ seen \in [Sid -> Status]
    /\ job \in [Sid -> Job]

NoRts     == [i \in Inst |-> None]
NoTargets == [s \in Sid |-> "UNUSED"]
NoJobs    == [s \in Sid |-> "none"]

ClosingInit == rts = NoRts /\ seen = NoTargets /\ job = NoJobs
ClosingReset == rts' = NoRts /\ seen' = NoTargets /\ job' = NoJobs

Targets == {s \in Sid : seen[s] # "UNUSED"}

\* strategy_list: the open strategies, or {} when the read fails
\* (list_strategies swallows every exception).
ReadOpen(open) ==
    \/ open = {s \in Sid : strategy_open(s)} /\ Smooth
    \/ open = {} /\ Mishap("strategy_list")

\* list_runtimes: name -> wallet, nothing when the read fails.
ReadRuntimes(inventory) ==
    \/ inventory = [i \in Inst |-> runtimes[i].wallet] /\ Smooth
    \/ inventory = NoRts /\ Mishap("inventory")

\* The name under which the shared inventory lists a runtime on wallet s.
RuntimeOf(s)  == CHOOSE i \in Inst : rts[i] = s
HasRuntime(s) == \E i \in Inst : rts[i] = s

\* Mutant: only a strategy whose runtime was found is closed.
AfterStopWithRuntime(s) ==
    IF seen[s] = "ACTIVE" /\ HasRuntime(s) THEN "submit" ELSE "closing"

\* strategy_close is submitted only for a target that was read as ACTIVE.
AfterStop(s) == IF seen[s] = "ACTIVE" THEN "submit" ELSE "closing"

JobGoes(s, where) == job' = [job EXCEPT ![s] = where]

\* runtime delete --id <name> --address <wallet>; its exit code is ignored.
\* The call may fail to take effect.
DeleteOn(s) ==
    LET i == RuntimeOf(s) IN
    \/ /\ IF runtimes[i].wallet = s THEN DeleteRuntime(i) ELSE UNCHANGED runtimes
       /\ Smooth
    \/ UNCHANGED runtimes /\ Mishap("delete")

Stop(s) ==
    /\ job[s] = "start"
    /\ HasRuntime(s)
    /\ DeleteOn(s)
    /\ JobGoes(s, "check1")
    /\ UNCHANGED <<strategies, rts, seen>>

NothingToStop(s) ==
    /\ job[s] = "start"
    /\ ~HasRuntime(s)
    /\ JobGoes(s, AfterStop(s))
    /\ UNCHANGED <<platform, rts, seen>>

StopAgain(s) ==
    /\ job[s] = "stop2"
    /\ DeleteOn(s)
    /\ JobGoes(s, "check2")
    /\ UNCHANGED <<strategies, rts, seen>>

\* Mutant: the delete is taken to have worked, nobody looks.
RuntimeGoneUnchecked(i, gone) == gone = TRUE /\ Smooth

\* An unreadable inventory counts as "not gone".
runtime_gone(i, gone) ==
    \/ gone = ~Registered(i) /\ Smooth
    \/ gone = FALSE /\ Mishap("recheck")

\* The first look only decides on a second delete; the second one decides.
CheckStopped(s) ==
    /\ job[s] \in {"check1", "check2"}
    /\ \E gone \in BOOLEAN :
         /\ runtime_gone(RuntimeOf(s), gone)
         /\ JobGoes(s, IF job[s] = "check1"
                       THEN (IF gone THEN "check2" ELSE "stop2")
                       ELSE (IF gone THEN AfterStop(s) ELSE "failed"))
    /\ UNCHANGED <<strategies, runtimes, rts, seen>>

\* strategy_close(sid): accepted, refused because the strategy is no longer
\* open, or the answer is an error although the close took effect or not.
SubmitClose(s) ==
    /\ job[s] = "submit"
    /\ \/ /\ strategies[s].status \in {"ACTIVE", "PAUSED"}
          /\ SetStatus(s, "CLOSING_POSITIONS")
          /\ \/ JobGoes(s, "closing") /\ Smooth
             \/ JobGoes(s, "failed") /\ Mishap("strategy_close")
       \/ /\ UNCHANGED strategies
          /\ JobGoes(s, "failed")
          /\ IF strategies[s].status \in {"ACTIVE", "PAUSED"}
             THEN Mishap("strategy_close") ELSE Smooth
    /\ UNCHANGED <<runtimes, rts, seen>>

close_one(s) ==
    \/ Stop(s) \/ NothingToStop(s) \/ StopAgain(s)
    \/ CheckStopped(s) \/ SubmitClose(s)

\* The targets' jobs, once the inventory and the targets have been read.
StartJobs(targets) ==
    job' = [s \in Sid |-> IF s \in targets THEN "start" ELSE "none"]

JobsDone == \A s \in Targets : job[s] \in JobDone
=============================================================================
