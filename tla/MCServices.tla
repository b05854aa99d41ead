----------------------------- MODULE MCServices -----------------------------
(* Parts of the system that share no state, side by side: the run loop, the *)
(* dispatch of an action, the delivery of a model turn, the shell's session *)
(* manager, the revision of a task, the model calls of compilers and judge, *)
(* the judgement of a task, and the browser with its adapters.  One of them *)
(* runs in each behaviour, and the others stand still.                      *)
EXTENDS RunLoop, MCActionDispatch, MCTurnDelivery, MCTaskJudgement, MCDomBrowser, ShellManager, TaskRevision, ModelCalls, TLC

VARIABLE service

serviceVars == <<loopVars, dispatchVars, deliveryVars, managerVars, revisionVars, callVars, judgementVars, browserVars, service>>

ServicesInit ==
    /\ service \in {"loop", "dispatch", "delivery", "manager", "revision", "calls", "judgement", "browser"}
    /\ LoopInit /\ ManagerInit /\ RevisionInit
    /\ CallInit /\ (service # "calls" => users = {"judge"})
    /\ DeliveryInit /\ (service # "delivery" => site.name = "form")
    /\ JudgementInit /\ (service # "judgement" => trial.task.criteria = <<>> /\ trial.varies = {})
    /\ BrowserInit /\ (service # "browser" => web = CHOOSE w \in WebTable : w.start = 8)
    /\ DispatchInit /\ (service # "dispatch" => /\ page = {} /\ world.conflicts = {}
                                                /\ goal = CHOOSE g \in MCGoals : TRUE)

LoopService ==
    /\ service = "loop" /\ LoopNext
    /\ UNCHANGED <<dispatchVars, deliveryVars, managerVars, revisionVars, callVars, judgementVars, browserVars, service>>
DispatchService ==
    /\ service = "dispatch" /\ DispatchNext
    /\ UNCHANGED <<loopVars, deliveryVars, managerVars, revisionVars, callVars, judgementVars, browserVars, service>>
DeliveryService ==
    /\ service = "delivery" /\ DeliveryNext
    /\ UNCHANGED <<loopVars, dispatchVars, managerVars, revisionVars, callVars, judgementVars, browserVars, service>>
ManagerService ==
    /\ service = "manager" /\ ManagerNext
    /\ UNCHANGED <<loopVars, dispatchVars, deliveryVars, revisionVars, callVars, judgementVars, browserVars, service>>
RevisionService ==
    /\ service = "revision" /\ RevisionNext
    /\ UNCHANGED <<loopVars, dispatchVars, deliveryVars, managerVars, callVars, judgementVars, browserVars, service>>
CallService ==
    /\ service = "calls" /\ CallNext
    /\ UNCHANGED <<loopVars, dispatchVars, deliveryVars, managerVars, revisionVars, judgementVars, browserVars, service>>
JudgementService ==
    /\ service = "judgement" /\ JudgementNext
    /\ UNCHANGED <<loopVars, dispatchVars, deliveryVars, managerVars, revisionVars, callVars, browserVars, service>>
BrowserService ==
    /\ service = "browser" /\ BrowserNext
    /\ UNCHANGED <<loopVars, dispatchVars, deliveryVars, managerVars, revisionVars, callVars, judgementVars, service>>

ServicesNext ==
    LoopService \/ DispatchService \/ DeliveryService \/ ManagerService \/ RevisionService \/ CallService
    \/ JudgementService \/ BrowserService

ServicesSpec == ServicesInit /\ [][ServicesNext]_serviceVars

\* TLC keeps the value of a definition, not that of a constant that stands for one.
MCWebPages == PageTable
MCDocuments == DocumentTable
MCWebs == WebTable

IdSymmetry == Permutations(Tasks) \cup Permutations(Commands) \cup Permutations(Revises)
=============================================================================
