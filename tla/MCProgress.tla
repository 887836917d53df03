------------------------------- MODULE MCProgress -------------------------------
(***************************************************************************)
(* Components whose progress matters, model-checked one after the other in *)
(* one run: a behaviour is about the component that its initial state      *)
(* names, and every other component, which shares no row with it, stays in *)
(* its initial state.  Fairness is that of the component concerned.  The   *)
(* computation of the usage history comes along: it has no processes.      *)
(***************************************************************************)
EXTENDS Naturals

CONSTANTS MaxBuilds, MaxActivePerOrg, Builder, Caller,            \* TemplateBuilds
          Sandbox, Workspace, Worker, Nobody,                     \* PersistentWorkspaces
          MaxPerOrganization, ScanLimit,
          Request, NoRequest, MaxAttempts,                        \* Routes
          MaxFrames, MaxPending,                                  \* ServiceSessions
          Horizon, Step, MaxWindows,                              \* UsageHistory
          AskedFrom, AvailableFrom, AskedAt

VARIABLES template, build, version, builder, caller,
          workspace, older, box, runtime, createIfMissing, volume, worker, sweep,
          host, route, operation, request, queue,
          principal, ticket, sandbox, pc, failed, client, upstream, session, renewing, watch,
          access, at, held, aborted, watcher, clientSocket, serviceSocket, stopped, pending, sending, sent, received,
          question,
          subject   \* the component this behaviour is about

Template == INSTANCE TemplateBuilds
Storage == INSTANCE PersistentWorkspacesProofs
Route == INSTANCE Routes
Terminal == INSTANCE Terminals
Service == INSTANCE ServiceSessions
History == INSTANCE UsageHistoryProofs

ASSUME Bounds ==
    /\ Template!BuildBounds /\ Storage!NobodyIsNobody /\ Storage!QuotaIsPositive
    /\ Route!RouteAssumption /\ Service!ServiceBounds /\ History!HistoryBounds

templateVars == <<template, build, version, builder, caller>>
workspaceVars == <<workspace, older, box, runtime, createIfMissing, volume, worker, sweep>>
routeVars == <<host, route, operation, request, queue>>
terminalVars == <<principal, ticket, sandbox, pc, failed, client, upstream, session, renewing, watch>>
serviceVars ==
    <<access, at, held, aborted, watcher, clientSocket, serviceSocket, stopped, pending, sending, sent, received>>
connectionVars == <<terminalVars, serviceVars>>
vars == <<templateVars, workspaceVars, routeVars, connectionVars, question, subject>>

Init ==
    /\ subject \in {"template", "workspace", "route", "terminal", "service", "history"}
    /\ Template!Init /\ Storage!Init /\ Route!Init /\ Terminal!Init /\ Service!Init /\ History!Init

OfTemplate(Action) ==
    /\ subject = "template" /\ Action
    /\ UNCHANGED <<workspaceVars, routeVars, connectionVars, question, subject>>
OfWorkspace(Action) ==
    /\ subject = "workspace" /\ Action
    /\ UNCHANGED <<templateVars, routeVars, connectionVars, question, subject>>
OfRoute(Action) ==
    /\ subject = "route" /\ Action
    /\ UNCHANGED <<templateVars, workspaceVars, connectionVars, question, subject>>
OfTerminal(Action) ==
    /\ subject = "terminal" /\ Action
    /\ UNCHANGED <<templateVars, workspaceVars, routeVars, serviceVars, question, subject>>
OfService(Action) ==
    /\ subject = "service" /\ Action
    /\ UNCHANGED <<templateVars, workspaceVars, routeVars, terminalVars, question, subject>>
OfHistory(Action) ==
    /\ subject = "history" /\ Action
    /\ UNCHANGED <<templateVars, workspaceVars, routeVars, connectionVars, subject>>

(* Bounds of this run: one sandbox at most carries secrets; and workers     *)
(* compete over the sandboxes of the first workspace or, once there is a    *)
(* second one, one worker serves both, whose sandboxes carry no secrets and *)
(* which are neither archived nor lost.                                     *)
FirstWorkspace == CHOOSE w \in Workspace : TRUE
FirstWorker == CHOOSE p \in Worker : TRUE
OneOfEach ==
    (\E w \in Workspace \ {FirstWorkspace} : workspace'[w].allocated) =>
        /\ \A p \in Worker \ {FirstWorker} : worker'[p].at = "idle"
        /\ \A w \in Workspace : /\ workspace'[w].allocated /\ ~workspace'[w].archived
                                /\ volume'[w] # "lost"
        /\ \A s \in Sandbox : ~box'[s].secret
OneSecret == \A s, z \in Sandbox : box'[s].secret /\ box'[z].secret => s = z

Next ==
    \/ OfTemplate(Template!Next)
    \/ (OfWorkspace(Storage!Next) /\ OneOfEach /\ OneSecret)
    \/ OfRoute(Route!Next)
    \/ OfTerminal(Terminal!Next)
    \/ OfService(Service!Next)
    \/ OfHistory(History!Next)

(* Of the fairness each component states, what its properties here need. *)
TemplateFairness == \A d \in Builder : WF_templateVars(OfTemplate(Template!BuilderStep(d)))
WorkspaceFairness ==
    /\ WF_workspaceVars(OfWorkspace(Storage!Sweeps))
    /\ \A w \in Workspace : SF_workspaceVars(OfWorkspace(Storage!Answers(w)))
RouteFairness ==
    /\ WF_routeVars(OfRoute(Route!WorkerStep))
    /\ \A r \in Request : WF_routeVars(OfRoute(Route!LockGoesStale(r)))
TerminalFairness ==
    /\ WF_terminalVars(OfTerminal(Terminal!RequestStep))
    /\ WF_terminalVars(OfTerminal(Terminal!StartCheck))
    /\ WF_terminalVars(OfTerminal(Terminal!FinishCheck))
    /\ WF_terminalVars(OfTerminal(Terminal!CheckTimesOut))
ServiceFairness ==
    /\ WF_serviceVars(OfService(Service!Authorize))
    /\ WF_serviceVars(OfService(Service!Upgrade))
    /\ WF_serviceVars(OfService(Service!StartCheck))
    /\ WF_serviceVars(OfService(Service!FinishCheck))
    /\ WF_serviceVars(OfService(Service!CheckTimesOut))
    /\ WF_serviceVars(OfService(Service!StopDeadline))

Spec == Init /\ [][Next]_vars
FairSpec ==
    /\ Spec /\ TemplateFairness /\ WorkspaceFairness /\ RouteFairness
    /\ TerminalFairness /\ ServiceFairness
--------------------------------------------------------------------------------
(* However many builders look at the queue, a build yields one version at   *)
(* most, and the row a version was built from is never deleted.             *)
VersionsHaveOneBuild == Template!VersionsHaveOneBuild

(* What was decided about a build stays: whatever a builder was doing, no  *)
(* version comes of a canceled build and its status is never overwritten;   *)
(* and a build that completes between the archive of its template and the   *)
(* cancellation of its builds does not bring the template back.             *)
DecisionsAreFinal == Template!CancelIsFinal /\ Template!ArchiveIsFinal

(* A build that can be built does not wait for ever behind one whose        *)
(* context was never uploaded.                                              *)
BuildableIsClaimed == Template!BuildableIsClaimed

(* Two runtimes never share a volume, however late the provider acts and    *)
(* whoever the workspace is given to next.                                  *)
ExclusiveMount == Storage!ExclusiveMount

(* Lost storage is never replaced by an empty volume behind the user's back. *)
LostStorageStaysLost == Storage!LostStorageStaysLost

(* The workspace of a terminated sandbox whose runtime was known comes back, *)
(* whatever calls of the scans throw, unless rows that no scan can decide   *)
(* take every place in front of it.                                         *)
ReleasedAfterTermination == Storage!ReleasedAfterTermination

(* An operation reported as succeeded has made its route, whichever of the  *)
(* request and the worker that share it finished first.                     *)
SucceededHasRoute == Route!SucceededHasRoute

(* No exposure is left queued or running for ever, whatever dies.           *)
ExposureSettles == Route!ExposureSettles

(* A principal who was revoked, or whose credential expired, is             *)
(* disconnected from the terminal, however the database does.               *)
RevokedIsDisconnected == Terminal!RevokedIsDisconnected

(* A connection to a protected service whose access was revoked gives its   *)
(* place back, whatever its peers and the database do.                      *)
RevokedGivesPlaceBack == Service!RevokedGivesPlaceBack

(* The service reads what its client sent, every frame once and in order.   *)
FramesInOrder == Service!FramesInOrder

(* Every bucket of the usage history reports the slot time, the peak and    *)
(* the coverage of exactly its observed units, the gaps are the rest, and   *)
(* an operation is in the bucket of its moment or, unobserved, in none.     *)
HistoryIsExact == History!HistoryIsExact
================================================================================
