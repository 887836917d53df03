----------------------------- MODULE MCProgressProofs -----------------------------
(***************************************************************************)
(* What is proved of workspaces and of the usage history holds in the      *)
(* composition that the model checker explores, for every value of the     *)
(* constants; so do what is proved here: the versions and decisions of     *)
(* template builds, the agreement of a route with its operation and the    *)
(* order of the frames of a connection to a protected service.             *)
(***************************************************************************)
EXTENDS MCProgress, Sequences, SequenceTheorems, TLAPS

LEMMA ImplementsStorage == Spec => Storage!Spec
<1>1. Init => Storage!Init
  BY DEF Init
<1>2. [Next]_vars => [Storage!Next]_(Storage!workspaceVars)
  BY DEF Next, OfTemplate, OfWorkspace, OfRoute, OfTerminal, OfService, OfHistory, vars, workspaceVars,
     Storage!workspaceVars
<1> QED
  BY <1>1, <1>2, PTL DEF Spec, Storage!Spec

(* Two runtimes never share a volume, for any number of workspaces,        *)
(* sandboxes and workers.                                                  *)
THEOREM VolumesAreMountedOnce == Spec => []ExclusiveMount
<1>1. Storage!Spec => []Storage!ExclusiveMount
  BY Bounds, Storage!MountsAreExclusive DEF Bounds
<1> QED
  BY <1>1, ImplementsStorage, PTL DEF ExclusiveMount

(* Lost storage is never replaced by an empty volume, whatever the sandboxes *)
(* and workers of its workspace do next.                                     *)
THEOREM LostVolumeIsNotReplaced == Spec => LostStorageStaysLost
<1>1. Storage!Spec => Storage!LostStorageStaysLost
  BY Bounds, Storage!LostIsNotReplaced DEF Bounds
<1> QED
  BY <1>1, ImplementsStorage DEF LostStorageStaysLost

LEMMA ImplementsHistory == Spec => History!Spec
<1>1. Init => History!Init
  BY DEF Init
<1>2. [Next]_vars => [History!Next]_question
  BY DEF Next, OfTemplate, OfWorkspace, OfRoute, OfTerminal, OfService, OfHistory, vars
<1> QED
  BY <1>1, <1>2, PTL DEF Spec, History!Spec

(* What the usage history reports is what was observed, for any number of  *)
(* windows and reservations, any resolution and any length of the window.  *)
THEOREM HistoryReportsWhatWasObserved == Spec => []HistoryIsExact
<1>1. History!Spec => []History!HistoryIsExact
  BY Bounds, History!UsageHistoryIsExact DEF Bounds
<1> QED
  BY <1>1, ImplementsHistory, PTL DEF HistoryIsExact
--------------------------------------------------------------------------------
(* Builds, versions, cancellation and archive. *)

(* A step about another component leaves the rows of a template alone. *)
LEMMA ImplementsTemplate == Spec => Template!Spec
<1>1. Init => Template!Init
  BY DEF Init
<1>2. [Next]_vars => [Template!Next]_(Template!templateVars)
  BY DEF Next, OfTemplate, OfWorkspace, OfRoute, OfTerminal, OfService, OfHistory, vars, templateVars,
     Template!templateVars
<1> QED
  BY <1>1, <1>2, PTL DEF Spec, Template!Spec

BuildRow == [status : {"none", "queued", "building", "success", "failed", "canceled", "deleted"},
             source : {"image", "dockerfile"}, context : BOOLEAN]
VersionRow == [made : Nat, aliases : SUBSET {"latest", "stable"}]

BuilderRow == [at : {"idle", "build", "complete", "fail"}, build : Template!Build \cup {Template!NoBuild}]
CallerRow ==
    [at : {"idle", "enqueue", "cancelBuilds", "alias", "latest"}, build : Template!Build \cup {Template!NoBuild}]

BuildType ==
    /\ build \in [Template!Build -> BuildRow]
    /\ version \in [Template!Build -> VersionRow]
    /\ builder \in [Builder -> BuilderRow]
    /\ caller \in [Caller -> CallerRow]

(* A builder that works on a build is the only one, and until it completes *)
(* the build there is no version of it.                                    *)
OneBuilder ==
    \A d \in Builder : builder[d].at # "idle" =>
        /\ builder[d].build \in Template!Build
        /\ build[builder[d].build].status \notin {"none", "queued"}
        /\ builder[d].at \in {"build", "complete"} => version[builder[d].build].made = 0
        /\ \A e \in Builder \ {d} : builder[e].at # "idle" => builder[e].build # builder[d].build

(* What is about to be promoted has been made. *)
PromotedIsMade ==
    \A c \in Caller : caller[c].at = "alias" => caller[c].build \in Template!Build /\ version[caller[c].build].made > 0

BuildInv == BuildType /\ OneBuilder /\ PromotedIsMade /\ Template!VersionsHaveOneBuild

LEMMA StatusSet ==
    ASSUME BuildType, NEW b \in Template!Build, NEW status \in {"building", "success", "failed", "canceled", "deleted"},
           Template!SetBuild(b, status)
    PROVE  /\ build' \in [Template!Build -> BuildRow]
           /\ \A a \in Template!Build : build'[a].status = IF a = b THEN status ELSE build[a].status
  BY DEF BuildType, BuilderRow, CallerRow, BuildRow, Template!SetBuild

(* What a step may do to a build that one builder works on, and to the rest. *)
LEMMA RowsKeep ==
    ASSUME BuildInv, build' \in [Template!Build -> BuildRow], UNCHANGED <<version, builder, caller>>,
           \A b \in Template!Build :
               \/ build'[b].status = build[b].status
               \/ build[b].status \in {"none", "queued", "building"} /\ build'[b].status = "canceled"
               \/ build[b].status = "none" /\ build'[b].status = "queued"
               \/ version[b].made = 0 /\ build'[b].status = "deleted"
    PROVE  BuildInv'
<1>1. BuildType' /\ PromotedIsMade'
  BY DEF BuildInv, BuildType, BuilderRow, CallerRow, PromotedIsMade
<1>2. OneBuilder'
  BY DEF BuildInv, OneBuilder
<1>3. Template!VersionsHaveOneBuild'
  <2>1. \A b \in Template!Build : version[b].made \in Nat
    BY DEF BuildInv, BuildType, BuilderRow, CallerRow, VersionRow
  <2> QED
    BY <2>1 DEF BuildInv, Template!VersionsHaveOneBuild
<1> QED
  BY <1>1, <1>2, <1>3 DEF BuildInv

LEMMA CallerKeeps ==
    ASSUME BuildInv, NEW c \in Caller,
           \/ Template!ResolveForBuild(c) \/ Template!Enqueue(c)
           \/ Template!ArchiveTemplate(c) \/ Template!CancelBuildsOfTemplate(c)
           \/ \E b \in Template!Build : Template!ResolveForPromotion(c, b)
           \/ Template!PromoteAlias(c) \/ Template!PromoteLatest(c) \/ Template!CallerFails(c)
    PROVE  BuildInv'
<1> USE DEF BuildInv
<1>1. CASE \/ Template!ResolveForBuild(c) \/ Template!ArchiveTemplate(c)
           \/ Template!PromoteLatest(c) \/ Template!CallerFails(c)
  <2>1. /\ UNCHANGED <<build, version, builder>>
        /\ caller' \in [Caller -> CallerRow]
        /\ \A d \in Caller : caller'[d].at = "alias" => caller'[d] = caller[d]
    BY <1>1
       DEF Template!ResolveForBuild, Template!ArchiveTemplate, Template!PromoteLatest, Template!CallerFails,
           Template!IdleCaller, BuildType, BuilderRow, CallerRow
  <2> QED
    BY <2>1 DEF BuildType, BuilderRow, CallerRow, OneBuilder, PromotedIsMade, Template!VersionsHaveOneBuild
<1>2. CASE Template!Enqueue(c) \/ Template!CancelBuildsOfTemplate(c)
  <2>1. /\ UNCHANGED <<version, builder>>
        /\ caller' \in [Caller -> CallerRow]
        /\ \A d \in Caller : caller'[d].at = "alias" => caller'[d] = caller[d]
    BY <1>2, SMTT(30)
       DEF Template!Enqueue, Template!CancelBuildsOfTemplate, Template!IdleCaller, BuildType, BuilderRow,
           CallerRow
  <2> DEFINE Moved == \A b \in Template!Build :
                          \/ build'[b].status = build[b].status
                          \/ build[b].status \in {"queued", "building"} /\ build'[b].status = "canceled"
                          \/ build[b].status = "none" /\ build'[b].status = "queued"
  <2>2. build' \in [Template!Build -> BuildRow] /\ Moved
    <3>1. CASE Template!CancelBuildsOfTemplate(c)
      BY <3>1, SMTT(30)
         DEF Template!CancelBuildsOfTemplate, Template!ActiveBuilds, Template!Active, BuildType, BuilderRow,
             CallerRow, BuildRow
    <3>2. CASE UNCHANGED build
      BY <3>2 DEF BuildType, BuilderRow, CallerRow
    <3>3. ASSUME NEW b \in Template!Build, NEW source \in {"image", "dockerfile"}, build[b].status = "none",
                 build' = [build EXCEPT ![b] = [status |-> "queued", source |-> source, context |-> FALSE]]
          PROVE  build' \in [Template!Build -> BuildRow] /\ Moved
      BY <3>3 DEF BuildType, BuilderRow, CallerRow, BuildRow
    <3> QED
      BY <1>2, <3>1, <3>2, <3>3 DEF Template!Enqueue
  <2>3. BuildType' /\ PromotedIsMade'
    BY <2>1, <2>2 DEF BuildType, BuilderRow, CallerRow, PromotedIsMade
  <2>4. OneBuilder'
    BY <2>1, <2>2 DEF OneBuilder
  <2>5. Template!VersionsHaveOneBuild'
    <3>1. \A b \in Template!Build : version[b].made \in Nat
      BY DEF BuildType, BuilderRow, CallerRow, VersionRow
    <3> QED
      BY <2>1, <2>2, <3>1 DEF Template!VersionsHaveOneBuild
  <2> QED
    BY <2>3, <2>4, <2>5
<1>3. ASSUME NEW b \in Template!Build, Template!ResolveForPromotion(c, b) PROVE BuildInv'
  BY <1>3
     DEF Template!ResolveForPromotion, BuildType, BuilderRow, CallerRow, OneBuilder, PromotedIsMade,
         Template!VersionsHaveOneBuild
<1>4. CASE Template!PromoteAlias(c)
  <2> PICK alias \in {"latest", "stable"} : version' = [version EXCEPT ![caller[c].build].aliases = @ \cup {alias}]
    BY <1>4 DEF Template!PromoteAlias
  <2>1. version' \in [Template!Build -> VersionRow]
    BY ZenonT(60) DEF BuildType, BuilderRow, CallerRow, VersionRow
  <2>2. \A b \in Template!Build : version'[b].made = version[b].made
    BY DEF BuildType, BuilderRow, CallerRow, VersionRow
  <2>3. /\ UNCHANGED <<build, builder>>
        /\ caller' \in [Caller -> CallerRow]
        /\ \A d \in Caller : caller'[d].at = "alias" => caller'[d] = caller[d]
    BY <1>4 DEF Template!PromoteAlias, BuildType, BuilderRow, CallerRow
  <2>4. \A d \in Caller : caller[d].at = "alias" => caller[d].build \in Template!Build
    BY DEF PromotedIsMade
  <2>5. BuildType' /\ PromotedIsMade'
    BY <2>1, <2>2, <2>3, <2>4 DEF BuildType, BuilderRow, CallerRow, PromotedIsMade
  <2>6. OneBuilder' /\ Template!VersionsHaveOneBuild'
    BY <2>2, <2>3 DEF OneBuilder, Template!VersionsHaveOneBuild
  <2> QED
    BY <2>5, <2>6
<1> QED
  BY <1>1, <1>2, <1>3, <1>4

LEMMA RowKeeps ==
    ASSUME BuildInv, NEW b \in Template!Build,
           Template!UploadContext(b) \/ Template!CancelBuild(b) \/ Template!DeleteOldBuild(b)
    PROVE  BuildInv'
<1>1. CASE Template!UploadContext(b)
  BY <1>1, RowsKeep, ZenonT(60) DEF Template!UploadContext, BuildInv, BuildType, BuilderRow, CallerRow, BuildRow
<1>2. CASE Template!CancelBuild(b)
  BY <1>2, StatusSet, RowsKeep DEF Template!CancelBuild, Template!Active, BuildInv
<1>3. CASE Template!DeleteOldBuild(b)
  BY <1>3, StatusSet, RowsKeep DEF Template!DeleteOldBuild, BuildInv
<1> QED
  BY <1>1, <1>2, <1>3

LEMMA BuilderKeeps ==
    ASSUME BuildInv, NEW d \in Builder,
           \/ Template!ClaimBuild(d) \/ Template!BuildImage(d) \/ Template!CompleteBuild(d)
           \/ Template!FailBuild(d) \/ Template!BuilderCrash(d)
    PROVE  BuildInv'
<1> USE DEF BuildInv
<1> DEFINE b == builder[d].build
<1>0. \A a \in Template!Build : version[a].made \in Nat
  BY DEF BuildType, BuilderRow, CallerRow, VersionRow
<1>1. CASE Template!ClaimBuild(d)
  <2> PICK c \in Template!Build :
             /\ builder[d].at = "idle" /\ build[c].status = "queued" /\ Template!SetBuild(c, "building")
             /\ builder' = [builder EXCEPT ![d] = [at |-> "build", build |-> c]]
             /\ UNCHANGED <<version, caller>>
    BY <1>1 DEF Template!ClaimBuild, Template!OldestBuildable, Template!Buildable
  <2>1. /\ build' \in [Template!Build -> BuildRow]
        /\ \A a \in Template!Build : build'[a].status = IF a = c THEN "building" ELSE build[a].status
    BY StatusSet
  <2>2. version[c].made = 0
    BY <1>0 DEF Template!VersionsHaveOneBuild
  <2>3. BuildType' /\ PromotedIsMade' /\ Template!VersionsHaveOneBuild'
    BY <2>1, <2>2 DEF BuildType, BuilderRow, CallerRow, PromotedIsMade, Template!VersionsHaveOneBuild
  <2>4. OneBuilder'
    BY <2>1, <2>2 DEF OneBuilder, BuildType, BuilderRow, CallerRow
  <2> QED
    BY <2>3, <2>4
<1>2. CASE Template!BuildImage(d)
  BY <1>2
     DEF Template!BuildImage, BuildType, BuilderRow, CallerRow, OneBuilder, PromotedIsMade,
         Template!VersionsHaveOneBuild
<1>3. CASE Template!CompleteBuild(d)
  <2>1. /\ builder[d].at = "complete" /\ b \in Template!Build /\ version[b].made = 0
        /\ build[b].status \notin {"none", "queued"}
    BY <1>3 DEF Template!CompleteBuild, OneBuilder
  <2>2. \/ builder' = [builder EXCEPT ![d] = Template!IdleBuilder]
        \/ builder' = [builder EXCEPT ![d].at = "fail"]
    BY <1>3 DEF Template!CompleteBuild
  <2>b. /\ builder' \in [Builder -> BuilderRow]
        /\ \A e \in Builder : builder'[e].at # "idle" =>
              /\ builder[e].at # "idle" /\ builder'[e].build = builder[e].build
              /\ builder'[e].at \in {"build", "complete"} => e # d /\ builder'[e].at = builder[e].at
    BY <2>1, <2>2 DEF BuildType, BuilderRow, CallerRow, Template!IdleBuilder
  <2>3. CASE version' = Template!MadeVersion(b) /\ Template!SetBuild(b, "success") /\ caller' = caller
    <3>1. /\ version' \in [Template!Build -> VersionRow]
          /\ \A a \in Template!Build : version'[a].made = IF a = b THEN 1 ELSE version[a].made
      BY <2>1, <2>3 DEF Template!MadeVersion, BuildType, BuilderRow, CallerRow, VersionRow
    <3>2. /\ build' \in [Template!Build -> BuildRow]
          /\ \A a \in Template!Build : build'[a].status = IF a = b THEN "success" ELSE build[a].status
      BY <2>1, <2>3, StatusSet
    <3>3. BuildType' /\ Template!VersionsHaveOneBuild'
      BY <2>1, <2>b, <2>3, <3>1, <3>2 DEF BuildType, BuilderRow, CallerRow, Template!VersionsHaveOneBuild
    <3>4. PromotedIsMade'
      BY <2>3, <3>1, <1>0 DEF PromotedIsMade, Template!MadeVersion, BuildType, BuilderRow, CallerRow
    <3>5. OneBuilder'
      BY <2>1, <2>b, <3>1, <3>2 DEF OneBuilder
    <3> QED
      BY <3>3, <3>4, <3>5
  <2>4. CASE UNCHANGED <<build, version, caller>>
    BY <2>1, <2>b, <2>4
       DEF BuildType, BuilderRow, CallerRow, OneBuilder, PromotedIsMade, Template!VersionsHaveOneBuild
  <2> QED
    BY <1>3, <2>3, <2>4 DEF Template!CompleteBuild
<1>4. CASE Template!FailBuild(d)
  <2>1. builder[d].at = "fail" /\ b \in Template!Build /\ build[b].status \notin {"none", "queued"}
    BY <1>4 DEF Template!FailBuild, OneBuilder
  <2>2. UNCHANGED <<version, caller>> /\ builder' = [builder EXCEPT ![d] = Template!IdleBuilder]
    BY <1>4 DEF Template!FailBuild
  <2>3. CASE UNCHANGED build
    BY <2>1, <2>2, <2>3
       DEF BuildType, BuilderRow, CallerRow, OneBuilder, PromotedIsMade, Template!VersionsHaveOneBuild,
           Template!IdleBuilder
  <2>4. CASE Template!SetBuild(b, "failed")
    <3>1. /\ build' \in [Template!Build -> BuildRow]
          /\ \A a \in Template!Build : build'[a].status = IF a = b THEN "failed" ELSE build[a].status
      BY <2>1, <2>4, StatusSet
    <3>2. BuildType' /\ PromotedIsMade' /\ Template!VersionsHaveOneBuild'
      BY <2>2, <3>1
         DEF BuildType, BuilderRow, CallerRow, PromotedIsMade, Template!VersionsHaveOneBuild,
             Template!IdleBuilder
    <3>3. OneBuilder'
      BY <2>1, <2>2, <3>1 DEF OneBuilder, BuildType, BuilderRow, CallerRow, Template!IdleBuilder
    <3> QED
      BY <3>2, <3>3
  <2> QED
    BY <1>4, <2>3, <2>4 DEF Template!FailBuild
<1>5. CASE Template!BuilderCrash(d)
  BY <1>5
     DEF Template!BuilderCrash, BuildType, BuilderRow, CallerRow, OneBuilder, PromotedIsMade,
         Template!VersionsHaveOneBuild, Template!IdleBuilder
<1> QED
  BY <1>1, <1>2, <1>3, <1>4, <1>5

LEMMA BuildInvariant == Template!Spec => []BuildInv
<1>1. Template!Init => BuildInv
  BY DEF Template!Init, BuildInv, BuildType, BuilderRow, CallerRow, BuildRow, VersionRow, OneBuilder,
      PromotedIsMade, Template!VersionsHaveOneBuild, Template!IdleBuilder, Template!IdleCaller, Template!NoBuild
<1>2. BuildInv /\ [Template!Next]_(Template!templateVars) => BuildInv'
  <2> SUFFICES ASSUME BuildInv, [Template!Next]_(Template!templateVars) PROVE BuildInv'
    OBVIOUS
  <2>1. CASE UNCHANGED Template!templateVars
    BY <2>1
       DEF Template!templateVars, BuildInv, BuildType, BuilderRow, CallerRow, OneBuilder, PromotedIsMade,
           Template!VersionsHaveOneBuild
  <2> QED
    BY <2>1, CallerKeeps, RowKeeps, BuilderKeeps DEF Template!Next
<1> QED
  BY <1>1, <1>2, PTL DEF Template!Spec

(* A canceled build stays canceled until it is deleted, and no version     *)
(* comes of it: the builder looks at its row again in the transaction that *)
(* completes it, and what is promoted was made by a build that succeeded.  *)
LEMMA CancellationIsFinal == Template!Spec => Template!CancelIsFinal
<1> DEFINE Kept(b) == build[b].status = "canceled" =>
                         build'[b].status \in {"canceled", "deleted"} /\ version'[b] = version[b]
<1>1. BuildInv /\ [Template!Next]_(Template!templateVars) => [\A b \in Template!Build : Kept(b)]_(Template!templateVars)
  <2> SUFFICES ASSUME BuildInv, Template!Next, NEW b \in Template!Build PROVE Kept(b)
    OBVIOUS
  <2> USE DEF BuildInv, BuildType, BuilderRow, CallerRow, Template!SetBuild
  <2>1. ASSUME NEW c \in Caller,
               \/ Template!ResolveForBuild(c) \/ Template!Enqueue(c)
               \/ Template!ArchiveTemplate(c) \/ Template!CancelBuildsOfTemplate(c)
               \/ \E a \in Template!Build : Template!ResolveForPromotion(c, a)
               \/ Template!PromoteLatest(c) \/ Template!CallerFails(c)
        PROVE  Kept(b)
    BY <2>1
       DEF Template!ResolveForBuild, Template!Enqueue, Template!ArchiveTemplate,
           Template!CancelBuildsOfTemplate, Template!ActiveBuilds, Template!Active,
           Template!ResolveForPromotion, Template!PromoteLatest, Template!CallerFails
  <2>2. ASSUME NEW c \in Caller, Template!PromoteAlias(c) PROVE Kept(b)
    BY <2>2 DEF Template!PromoteAlias, PromotedIsMade, Template!VersionsHaveOneBuild, VersionRow
  <2>3. ASSUME NEW a \in Template!Build,
               Template!UploadContext(a) \/ Template!CancelBuild(a) \/ Template!DeleteOldBuild(a)
        PROVE  Kept(b)
    <3>1. CASE Template!UploadContext(a)
      BY <3>1 DEF Template!UploadContext
    <3>2. CASE Template!CancelBuild(a) \/ Template!DeleteOldBuild(a)
      BY <2>3, <3>2, StatusSet DEF Template!CancelBuild, Template!DeleteOldBuild
    <3> QED
      BY <2>3, <3>1, <3>2
  <2>4. ASSUME NEW d \in Builder,
               \/ Template!ClaimBuild(d) \/ Template!BuildImage(d)
               \/ Template!FailBuild(d) \/ Template!BuilderCrash(d)
        PROVE  Kept(b)
    BY <2>4
       DEF Template!ClaimBuild, Template!OldestBuildable, Template!Buildable, Template!BuildImage,
           Template!FailBuild, Template!BuilderCrash
  <2>5. ASSUME NEW d \in Builder, Template!CompleteBuild(d) PROVE Kept(b)
    BY <2>5 DEF Template!CompleteBuild, Template!MadeVersion
  <2> QED
    BY <2>1, <2>2, <2>3, <2>4, <2>5 DEF Template!Next
<1> QED
  BY <1>1, BuildInvariant, PTL DEF Template!Spec, Template!CancelIsFinal

(* No step brings an archived template back, not even the completion of a  *)
(* build that the archive did not cancel in time.                          *)
LEMMA TheArchiveIsFinal == Template!Spec => Template!ArchiveIsFinal
<1>1. [Template!Next]_(Template!templateVars) => [template.status = "archived" => template'.status = "archived"]_(Template!templateVars)
  <2> SUFFICES ASSUME Template!Next, template.status = "archived" PROVE template'.status = "archived"
    OBVIOUS
  <2>1. CASE UNCHANGED template
    BY <2>1
  <2>2. ASSUME NEW c \in Caller, Template!PromoteLatest(c) PROVE template'.status = "archived"
    <3>1. template' = [template EXCEPT !.latest = caller[c].build]
      BY <2>2 DEF Template!PromoteLatest
    <3> QED
      BY <3>1
  <2>3. ASSUME NEW c \in Caller, Template!ArchiveTemplate(c) PROVE template'.status = "archived"
    <3>1. template' = [template EXCEPT !.status = "archived"]
      BY <2>3 DEF Template!ArchiveTemplate
    <3> QED
      BY <3>1
  <2>4. ASSUME NEW d \in Builder, Template!CompleteBuild(d) PROVE template'.status = "archived"
    BY <2>4 DEF Template!CompleteBuild
  <2> QED
    BY <2>1, <2>2, <2>3, <2>4
       DEF Template!Next, Template!ResolveForBuild, Template!Enqueue, Template!CancelBuildsOfTemplate,
           Template!ResolveForPromotion, Template!PromoteAlias, Template!CallerFails, Template!UploadContext,
           Template!CancelBuild, Template!DeleteOldBuild, Template!ClaimBuild, Template!BuildImage,
           Template!FailBuild, Template!BuilderCrash
<1> QED
  BY <1>1, PTL DEF Template!Spec, Template!ArchiveIsFinal

(* However many builders look at the queue, a build yields one version at  *)
(* most, and retention spares the row a version was built from, for any    *)
(* number of builds, builders and requests (template-builder.ts,           *)
(* template-retention.ts).                                                 *)
THEOREM OneVersionPerBuild == Spec => []VersionsHaveOneBuild
<1>1. Template!Spec => []Template!VersionsHaveOneBuild
  BY BuildInvariant, PTL DEF BuildInv
<1> QED
  BY <1>1, ImplementsTemplate, PTL DEF VersionsHaveOneBuild

(* Nothing comes of a build after it was canceled, and no build brings an  *)
(* archived template back, for any number of builders.                     *)
THEOREM BuildDecisionsAreFinal == Spec => DecisionsAreFinal
  BY CancellationIsFinal, TheArchiveIsFinal, ImplementsTemplate DEF DecisionsAreFinal
--------------------------------------------------------------------------------
(* Exposures: whoever reports success has inserted the route or seen it.    *)

LEMMA ImplementsRoute == Spec => Route!Spec
<1>1. Init => Route!Init
  BY DEF Init
<1>2. [Next]_vars => [Route!Next]_(Route!routeVars)
  BY DEF Next, OfTemplate, OfWorkspace, OfRoute, OfTerminal, OfService, OfHistory, vars, routeVars,
     Route!routeVars
<1> QED
  BY <1>1, <1>2, PTL DEF Spec, Route!Spec

OperationType ==
    operation \in [Request -> [state : {"none", "queued", "running", "succeeded", "failed"},
                               attempts : Nat, lock : {"none", "fresh", "stale"}]]

(* Whoever is about to report success has inserted the route or seen it.   *)
InsertedBeforeComplete ==
    /\ \A r \in Request : request[r] = "complete" => route # "none"
    /\ queue.at = "complete" => route # "none"

RouteInv ==
    /\ OperationType
    /\ request \in [Request -> {"idle", "enqueue", "claim", "expose", "insert", "complete", "fail"}]
    /\ queue \in [at : {"sweep", "claim", "read", "expose", "insert", "complete", "fail", "retry"},
                  of : Request \cup {NoRequest}, attempts : Nat]
    /\ InsertedBeforeComplete /\ Route!SucceededHasRoute

LEMMA RequestStepKeeps ==
    ASSUME RouteInv, NEW r \in Request,
           \/ Route!RequestRoute(r) \/ Route!Enqueue(r) \/ Route!ClaimById(r) \/ Route!RequestExpose(r) \/ Route!RequestInsert(r)
           \/ Route!RequestComplete(r) \/ Route!RequestFail(r) \/ Route!RequestDies(r) \/ Route!LockGoesStale(r)
    PROVE  RouteInv'
<1> USE DEF RouteInv, OperationType, InsertedBeforeComplete, Route!SucceededHasRoute
<1>1. CASE Route!RequestRoute(r)
  BY <1>1 DEF Route!RequestRoute, Route!At
<1>2. CASE Route!Enqueue(r)
  BY <1>2 DEF Route!Enqueue, Route!At
<1>3. CASE Route!ClaimById(r)
  BY <1>3 DEF Route!ClaimById, Route!At, Route!Claimable, Route!Locked
<1>4. CASE Route!RequestExpose(r)
  BY <1>4 DEF Route!RequestExpose, Route!At
<1>5. CASE Route!RequestInsert(r)
  BY <1>5 DEF Route!RequestInsert, Route!At, Route!InsertRoute
<1>6. CASE Route!RequestComplete(r)
  BY <1>6 DEF Route!RequestComplete, Route!At, Route!Complete, Route!Ended
<1>7. CASE Route!RequestFail(r)
  BY <1>7 DEF Route!RequestFail, Route!At, Route!Fail, Route!Ended
<1>8. CASE Route!RequestDies(r)
  BY <1>8 DEF Route!RequestDies
<1>9. CASE Route!LockGoesStale(r)
  BY <1>9 DEF Route!LockGoesStale
<1> QED
  BY <1>1, <1>2, <1>3, <1>4, <1>5, <1>6, <1>7, <1>8, <1>9

LEMMA WorkerStepKeeps ==
    ASSUME RouteInv, Route!WorkerStep \/ Route!WorkerDies
    PROVE  RouteInv'
<1> USE DEF RouteInv, OperationType, InsertedBeforeComplete, Route!SucceededHasRoute
<1>1. CASE Route!SweepStale
  BY <1>1 DEF Route!SweepStale, Route!Swept, Route!Ended
<1>2. CASE Route!ClaimNext
  <2>1. CASE operation' = operation /\ queue' = Route!Sweeping
    BY <1>2, <2>1 DEF Route!ClaimNext, Route!Sweeping
  <2>2. ASSUME NEW r \in Request, operation' = [operation EXCEPT ![r] = Route!Locked(@)],
               queue' = [at |-> "read", of |-> r, attempts |-> operation[r].attempts + 1]
        PROVE  RouteInv'
    BY <1>2, <2>2 DEF Route!ClaimNext, Route!Locked
  <2> QED
    BY <1>2, <2>1, <2>2 DEF Route!ClaimNext
<1>3. CASE Route!WorkerReads
  BY <1>3 DEF Route!WorkerReads
<1>4. CASE Route!WorkerExpose
  BY <1>4 DEF Route!WorkerExpose
<1>5. CASE Route!WorkerInsert
  BY <1>5 DEF Route!WorkerInsert, Route!InsertRoute
<1>6. CASE Route!WorkerComplete
  BY <1>6 DEF Route!WorkerComplete, Route!Complete, Route!Ended, Route!Sweeping
<1>7. CASE Route!WorkerFails
  <2>1. UNCHANGED <<route, request>> /\ queue' = [Route!Sweeping EXCEPT !.at = "claim"]
    BY <1>7 DEF Route!WorkerFails
  <2>2. CASE operation' = operation
    BY <2>1, <2>2 DEF Route!Sweeping
  <2>3. ASSUME NEW state \in {"failed", "queued"}, operation' = [operation EXCEPT ![queue.of] = Route!Ended(@, state)]
        PROVE  RouteInv'
    BY <2>1, <2>3 DEF Route!Sweeping, Route!Ended
  <2>4. CASE ~Route!Mine
    <3>1. operation' = [operation EXCEPT ![queue.of] = @]
      BY <1>7, <2>4 DEF Route!WorkerFails
    <3> QED
      BY <2>2, <3>1
  <2>5. CASE Route!Mine /\ (queue.at = "fail" \/ queue.attempts >= MaxAttempts)
    <3>1. operation' = [operation EXCEPT ![queue.of] = Route!Ended(@, "failed")]
      BY <1>7, <2>5 DEF Route!WorkerFails
    <3> QED
      BY <2>3, <3>1
  <2>6. CASE Route!Mine /\ ~(queue.at = "fail" \/ queue.attempts >= MaxAttempts)
    <3>1. operation' = [operation EXCEPT ![queue.of] = Route!Ended(@, "queued")]
      BY <1>7, <2>6 DEF Route!WorkerFails
    <3> QED
      BY <2>3, <3>1
  <2> QED
    BY <2>4, <2>5, <2>6
<1>8. CASE Route!WorkerDies
  BY <1>8 DEF Route!WorkerDies, Route!Sweeping
<1> QED
  BY <1>1, <1>2, <1>3, <1>4, <1>5, <1>6, <1>7, <1>8 DEF Route!WorkerStep

(* The request and the worker that took its operation over both insert the *)
(* route before they report success, and a route never goes back to not    *)
(* having been made (sandbox-runtime.ts, sandbox-operation-worker.ts).     *)
THEOREM SucceededExposureHasRoute == Spec => []SucceededHasRoute
<1>1. Route!Init => RouteInv
  BY Bounds
     DEF Bounds, Route!RouteAssumption, Route!Init, Route!Sweeping, RouteInv, OperationType, InsertedBeforeComplete, Route!SucceededHasRoute
<1>2. RouteInv /\ [Route!Next]_(Route!routeVars) => RouteInv'
  <2> SUFFICES ASSUME RouteInv, [Route!Next]_(Route!routeVars) PROVE RouteInv'
    OBVIOUS
  <2>1. CASE Route!TerminateSandbox \/ Route!DeleteRoute
    BY <2>1 DEF Route!TerminateSandbox, Route!DeleteRoute, RouteInv, OperationType, InsertedBeforeComplete,
       Route!SucceededHasRoute
  <2>2. CASE UNCHANGED Route!routeVars
    BY <2>2 DEF Route!routeVars, RouteInv, OperationType, InsertedBeforeComplete, Route!SucceededHasRoute
  <2> QED
    BY <2>1, <2>2, RequestStepKeeps, WorkerStepKeeps DEF Route!Next
<1> QED
  BY <1>1, <1>2, ImplementsRoute, PTL DEF Route!Spec, RouteInv, SucceededHasRoute

--------------------------------------------------------------------------------
(* The frames of a connection are numbered: a queue that holds the frames  *)
(* which follow number n, and only those.                                  *)
Continues(q, n) ==
  q \in Seq(Nat) /\ \A i \in 1..Len(q) : q[i] = n + i

LEMMA NothingContinues == ASSUME NEW n \in Nat PROVE Continues(<<>>, n)
  BY EmptySeq DEF Continues

LEMMA NextContinues ==
  ASSUME NEW n \in Nat, NEW q, Continues(q, n)
  PROVE  /\ Continues(Append(q, n + Len(q) + 1), n)
         /\ Len(Append(q, n + Len(q) + 1)) = Len(q) + 1
         /\ Len(q) \in Nat
<1>1. q \in Seq(Nat) /\ Len(q) \in Nat
  BY LenProperties DEF Continues
<1> DEFINE f == n + Len(q) + 1
<1>2. f \in Nat
  BY <1>1
<1>3. /\ Append(q, f) \in Seq(Nat) /\ Len(Append(q, f)) = Len(q) + 1
      /\ \A i \in 1..Len(q) : Append(q, f)[i] = q[i]
      /\ Append(q, f)[Len(q) + 1] = f
  BY <1>1, <1>2, AppendProperties
<1>4. \A i \in 1..Len(Append(q, f)) : Append(q, f)[i] = n + i
  <2> TAKE i \in 1..Len(Append(q, f))
  <2>1. CASE i = Len(q) + 1
    BY <2>1, <1>1, <1>3
  <2>2. CASE i \in 1..Len(q)
    BY <2>2, <1>1, <1>3 DEF Continues
  <2> QED
    BY <2>1, <2>2, <1>1, <1>3
<1> QED
  BY <1>1, <1>3, <1>4 DEF Continues

LEMMA RestContinues ==
  ASSUME NEW n \in Nat, NEW q, Continues(q, n), q # <<>>
  PROVE  /\ Head(q) = n + 1 /\ Continues(Tail(q), n + 1)
         /\ Len(Tail(q)) = Len(q) - 1 /\ Len(q) \in Nat \ {0}
<1>1. q \in Seq(Nat) /\ Len(q) \in Nat \ {0}
  BY EmptySeq DEF Continues
<1>2. /\ Tail(q) \in Seq(Nat) /\ Len(Tail(q)) = Len(q) - 1
      /\ \A i \in 1..Len(Tail(q)) : Tail(q)[i] = q[i + 1]
  BY <1>1, HeadTailProperties
<1>3. Head(q) = q[1]
  BY <1>1
<1>4. \A i \in 1..Len(Tail(q)) : Tail(q)[i] = n + 1 + i
  <2> TAKE i \in 1..Len(Tail(q))
  <2>1. i + 1 \in 1..Len(q)
    BY <1>1, <1>2
  <2> QED
    BY <2>1, <1>2 DEF Continues
<1> QED
  BY <1>1, <1>2, <1>3, <1>4 DEF Continues

(* What was read is a prefix of what was sent, and the queue continues it; *)
(* the frame that is with the socket of the service counts as both.        *)
ReadBefore == Len(received) - (IF sending THEN 1 ELSE 0)
QueueInv ==
  /\ sent \in Nat /\ sending \in BOOLEAN /\ stopped \in BOOLEAN
  /\ Continues(received, 0)
  /\ at # "proxy" \/ stopped => pending = <<>>
  /\ ~stopped =>
       /\ ReadBefore \in Nat /\ Continues(pending, ReadBefore)
       /\ sent = ReadBefore + Len(pending)
       /\ sending => pending # <<>>

LEMMA PumpReads ==
  ASSUME NEW q, NEW up, Continues(received, 0), Continues(q, Len(received)), Service!Pump(q, FALSE, up)
  PROVE  /\ Continues(received', 0) /\ sending' \in BOOLEAN /\ ReadBefore' = Len(received)
         /\ Len(received) \in Nat /\ (sending' => q # <<>>)
<1>1. Len(received) \in Nat
  BY LenProperties DEF Continues
<1>2. CASE q # <<>> /\ up = "open"
  <2>1. sending' = TRUE /\ received' = Append(received, Head(q))
    BY <1>2 DEF Service!Pump
  <2>2. Head(q) = 0 + Len(received) + 1
    BY <1>1, <1>2, RestContinues
  <2>3. Continues(received', 0) /\ Len(received') = Len(received) + 1
    BY <2>1, <2>2, NextContinues
  <2> QED
    BY <1>1, <1>2, <2>1, <2>3 DEF ReadBefore
<1>3. CASE ~(q # <<>> /\ up = "open")
  <2>1. sending' = FALSE /\ received' = received
    BY <1>3 DEF Service!Pump
  <2>2. ReadBefore' = Len(received)
    BY <1>1, <2>1 DEF ReadBefore
  <2>3. Continues(received', 0)
    BY <2>1
  <2> QED
    BY <1>1, <2>1, <2>2, <2>3
<1> QED
  BY <1>2, <1>3

LEMMA QueueKept ==
  ASSUME QueueInv, UNCHANGED <<sending, sent, received>>,
         stopped' \in BOOLEAN, stopped => stopped', at = "proxy" => at' = "proxy",
         pending' = <<>> \/ (pending' = pending /\ (stopped' => pending = <<>>)),
         stopped' \/ pending' = pending
  PROVE  QueueInv'
  BY DEF QueueInv, ReadBefore, Continues

(* The actions that move a frame, then those that end a connection, then   *)
(* those that touch neither.                                               *)
LEMMA QueueStep == ASSUME QueueInv, [Service!Next]_(Service!serviceVars) PROVE QueueInv'
<1>1. CASE Service!ClientSends
  <2>1. /\ ~stopped /\ at = "proxy" /\ stopped' = stopped /\ at' = at /\ sent' = sent + 1
        /\ pending' = Append(pending, sent + 1) /\ Service!Pump(pending', sending, serviceSocket)
    BY <1>1 DEF Service!ClientSends, Service!sockets
  <2>2. /\ ReadBefore \in Nat /\ Continues(pending', ReadBefore)
        /\ Len(pending') = Len(pending) + 1 /\ Len(pending) \in Nat
    BY <2>1, NextContinues DEF QueueInv
  <2>3. pending' # <<>>
    BY <2>2, EmptySeq DEF Continues
  <2>4. CASE sending
    <3>1. sending' = sending /\ received' = received
      BY <2>1, <2>4 DEF Service!Pump
    <3> QED
      BY <2>1, <2>2, <2>3, <3>1 DEF QueueInv, ReadBefore
  <2>5. CASE ~sending
    <3>1. sending = FALSE /\ Len(received) \in Nat /\ ReadBefore = Len(received) /\ Continues(received, 0)
      BY <2>2, <2>5, LenProperties DEF QueueInv, ReadBefore, Continues
    <3>2. /\ Continues(received', 0) /\ sending' \in BOOLEAN /\ ReadBefore' = ReadBefore
          /\ (sending' => pending' # <<>>)
      BY <2>1, <2>2, <3>1, PumpReads
    <3> QED
      BY <2>1, <2>2, <3>2 DEF QueueInv
  <2> QED
    BY <2>4, <2>5
<1>2. CASE Service!UpstreamOpens
  <2>1. /\ stopped' = stopped /\ at' = at /\ sent' = sent /\ pending' = pending
        /\ Service!Pump(pending, sending, "open")
    BY <1>2 DEF Service!UpstreamOpens
  <2>2. CASE sending \/ pending = <<>>
    <3>1. sending' = sending /\ received' = received
      BY <2>1, <2>2 DEF Service!Pump
    <3> QED
      BY <2>1, <3>1, QueueKept DEF QueueInv
  <2>3. CASE ~sending /\ pending # <<>>
    <3>1. ~stopped /\ at = "proxy"
      BY <2>3 DEF QueueInv
    <3>2. sending = FALSE /\ ReadBefore = Len(received) /\ Continues(received, 0)
      BY <2>3, <3>1, LenProperties DEF QueueInv, ReadBefore, Continues
    <3>3. /\ Continues(received', 0) /\ sending' \in BOOLEAN /\ ReadBefore' = ReadBefore
          /\ (sending' => pending # <<>>)
      BY <2>1, <3>1, <3>2, PumpReads DEF QueueInv
    <3> QED
      BY <2>1, <3>1, <3>3 DEF QueueInv
  <2> QED
    BY <2>2, <2>3
<1>3. CASE Service!SendDone
  <2>1. sending /\ stopped' = stopped /\ at' = at /\ sent' = sent
    BY <1>3 DEF Service!SendDone, Service!sockets
  <2>2. CASE stopped
    BY <1>3, <2>1, <2>2 DEF Service!SendDone, QueueInv
  <2>3. CASE ~stopped
    <3>1. pending' = Tail(pending) /\ Service!Pump(pending', FALSE, serviceSocket)
      BY <1>3, <2>3 DEF Service!SendDone
    <3>2. /\ ReadBefore \in Nat /\ Continues(pending', ReadBefore + 1)
          /\ Len(pending') = Len(pending) - 1 /\ Len(pending) \in Nat \ {0}
      BY <2>1, <2>3, <3>1, RestContinues DEF QueueInv
    <3>3. Len(received) = ReadBefore + 1 /\ Len(received) \in Nat /\ Continues(received, 0)
      BY <2>1, LenProperties DEF QueueInv, ReadBefore, Continues
    <3>4. /\ Continues(received', 0) /\ sending' \in BOOLEAN /\ ReadBefore' = ReadBefore + 1
          /\ (sending' => pending' # <<>>)
      BY <3>1, <3>2, <3>3, PumpReads
    <3>5. at = "proxy"
      BY <2>1, <2>3 DEF QueueInv
    <3> QED
      BY <2>1, <2>3, <3>2, <3>4, <3>5 DEF QueueInv
  <2> QED
    BY <2>2, <2>3
<1>4. CASE Service!ClientCloses \/ Service!UpstreamEnds \/ Service!Abandon
  BY <1>4, QueueKept DEF Service!ClientCloses, Service!UpstreamEnds, Service!Abandon, Service!Stop, QueueInv
<1>5. ASSUME Service!Abort, UNCHANGED <<at, sending, sent, received>> PROVE QueueInv'
  BY <1>5, QueueKept DEF Service!Abort, Service!Stop, Service!sockets, QueueInv
<1>6. CASE Service!FinishCheck
  <2>1. CASE Service!Abort
    BY <1>5, <1>6, <2>1 DEF Service!FinishCheck
  <2>2. CASE UNCHANGED <<aborted, Service!sockets, pending>>
    BY <1>6, <2>2, QueueKept DEF Service!FinishCheck, Service!sockets, QueueInv
  <2> QED
    BY <1>6, <2>1, <2>2 DEF Service!FinishCheck
<1>7. CASE Service!CheckTimesOut \/ Service!EndSession
  BY <1>5, <1>7 DEF Service!CheckTimesOut, Service!EndSession
<1>8. CASE Service!Revoke \/ Service!StartCheck \/ Service!CheckReads \/ Service!Acquire \/ Service!Authorize
  BY <1>8, QueueKept DEF Service!Revoke, Service!StartCheck, Service!CheckReads, Service!Acquire,
     Service!Authorize, Service!sockets, Service!frames, QueueInv
<1>9. CASE Service!Upgrade
  BY <1>9, QueueKept DEF Service!Upgrade, Service!frames, QueueInv
<1>10. CASE UNCHANGED Service!serviceVars
  BY <1>10, QueueKept DEF Service!serviceVars, QueueInv
<1> QED
  BY <1>1, <1>2, <1>3, <1>4, <1>6, <1>7, <1>8, <1>9, <1>10 DEF Service!Next

LEMMA ImplementsService == Spec => Service!Spec
<1>1. Init => Service!Init
  BY DEF Init
<1>2. [Next]_vars => [Service!Next]_(Service!serviceVars)
  BY DEF Next, OfTemplate, OfWorkspace, OfRoute, OfTerminal, OfService, OfHistory, vars, connectionVars,
     serviceVars, Service!serviceVars
<1> QED
  BY <1>1, <1>2, PTL DEF Spec, Service!Spec

(* The service reads what its client sent, every frame once and in order,  *)
(* whatever the length of the queue and of the conversation.               *)
THEOREM ServiceReadsInOrder == Spec => []FramesInOrder
<1>1. Service!Init => QueueInv
  <2> SUFFICES ASSUME Service!Init PROVE QueueInv
    OBVIOUS
  <2>1. /\ sent = 0 /\ sending = FALSE /\ stopped = FALSE
        /\ pending = <<>> /\ received = <<>>
    BY DEF Service!Init
  <2>2. Continues(<<>>, 0) /\ Len(<<>>) = 0
    BY NothingContinues
  <2>3. ReadBefore = 0
    BY <2>1, <2>2 DEF ReadBefore
  <2>4. ReadBefore \in Nat /\ sent = ReadBefore + Len(pending)
    BY <2>1, <2>2, <2>3
  <2>5. Continues(received, 0) /\ Continues(pending, ReadBefore)
    BY <2>1, <2>2, <2>3
  <2>6. sent \in Nat /\ sending \in BOOLEAN /\ stopped \in BOOLEAN /\ ~sending
    BY <2>1
  <2> QED
    BY <2>1, <2>4, <2>5, <2>6 DEF QueueInv
<1>2. QueueInv => FramesInOrder
  <2> SUFFICES ASSUME QueueInv PROVE \A i \in DOMAIN received : received[i] = i
    BY DEF FramesInOrder, Service!FramesInOrder
  <2>1. received \in Seq(Nat) /\ \A i \in 1..Len(received) : received[i] = 0 + i
    BY DEF QueueInv, Continues
  <2> QED
    BY <2>1, LenProperties
<1>3. Service!Spec => []QueueInv
  BY <1>1, QueueStep, PTL DEF Service!Spec
<1> QED
  BY <1>2, <1>3, ImplementsService, PTL
================================================================================
