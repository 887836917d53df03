----------------------------- MODULE TemplateBuilds -----------------------------
(***************************************************************************)
(* One template, its builds and the versions they yield.  API requests     *)
(* queue, cancel, archive and promote, each in several statements; any     *)
(* number of builder processes claim queued builds and finish them after   *)
(* long work outside every transaction; the scheduler's retention deletes  *)
(* old builds.  It retires no version: each is made with the alias         *)
(* 'latest', which it spares and which nothing takes away.                 *)
(***************************************************************************)
EXTENDS Naturals, FiniteSets

CONSTANTS MaxBuilds,         \* bound: builds queued in one behaviour
          MaxActivePerOrg,   \* config.templateBuildMaxActivePerOrg
          Builder, Caller

BuildBounds == MaxBuilds \in Nat /\ MaxActivePerOrg \in Nat \ {0}

Build == 1..MaxBuilds        \* in the order of created_at
NoBuild == 0

VARIABLES
    template,  \* the row of templates
    build,     \* template_builds, with whether a context was uploaded
    version,   \* template_versions, by the build that made them
    builder,   \* processBuild between two steps
    caller     \* an API request between two statements

templateVars == <<template, build, version, builder, caller>>

Active == {"queued", "building"}
Terminal == {"success", "failed", "canceled"}
IdleBuilder == [at |-> "idle", build |-> NoBuild]
IdleCaller == [at |-> "idle", build |-> NoBuild]

TypeOK ==
    /\ template \in [status : {"building", "ready", "archived"}, latest : Build \cup {NoBuild}]
    /\ build \in [Build -> [status : {"none", "deleted"} \cup Active \cup Terminal,
                            source : {"image", "dockerfile"}, context : BOOLEAN]]
    /\ version \in [Build -> [made : Nat, aliases : SUBSET {"latest", "stable"}]]
    /\ builder \in [Builder -> [at : {"idle", "build", "complete", "fail"}, build : Build \cup {NoBuild}]]
    /\ caller \in [Caller -> [at : {"idle", "enqueue", "cancelBuilds", "alias", "latest"},
                              build : Build \cup {NoBuild}]]

\* createTemplate; templates without versions are still 'building'.
Init ==
    /\ template = [status |-> "building", latest |-> NoBuild]
    /\ build = [b \in Build |-> [status |-> "none", source |-> "image", context |-> FALSE]]
    /\ version = [b \in Build |-> [made |-> 0, aliases |-> {}]]
    /\ builder = [d \in Builder |-> IdleBuilder]
    /\ caller = [c \in Caller |-> IdleCaller]

ActiveBuilds == {b \in Build : build[b].status \in Active}
SetBuild(b, status) == build' = [build EXCEPT ![b].status = status]
--------------------------------------------------------------------------------
(* API requests *)

\* resolveTemplate hides an archived template.
ResolveForBuild(c) ==
    /\ caller[c].at = "idle" /\ template.status # "archived"
    /\ caller' = [caller EXCEPT ![c].at = "enqueue"]
    /\ UNCHANGED <<template, build, version, builder>>

\* The advisory lock makes count and INSERT one step; the template is not read
\* again.
Enqueue(c) ==
    /\ caller[c].at = "enqueue"
    /\ \/ /\ Cardinality(ActiveBuilds) < MaxActivePerOrg
          /\ \E b \in Build, source \in {"image", "dockerfile"} :
                /\ build[b].status = "none"
                /\ \A a \in 1..(b - 1) : build[a].status # "none"
                /\ build' = [build EXCEPT ![b] = [status |-> "queued", source |-> source, context |-> FALSE]]
       \/ Cardinality(ActiveBuilds) >= MaxActivePerOrg /\ UNCHANGED build
    /\ caller' = [caller EXCEPT ![c] = IdleCaller]
    /\ UNCHANGED <<template, version, builder>>

UploadContext(b) ==
    /\ build[b].status = "queued" /\ build[b].source = "dockerfile"
    /\ build' = [build EXCEPT ![b].context = TRUE]
    /\ UNCHANGED <<template, version, builder, caller>>

CancelBuild(b) ==
    /\ build[b].status \in Active
    /\ SetBuild(b, "canceled")
    /\ UNCHANGED <<template, version, builder, caller>>

ArchiveTemplate(c) ==
    /\ caller[c].at = "idle"
    /\ template' = [template EXCEPT !.status = "archived"]
    /\ caller' = [caller EXCEPT ![c].at = "cancelBuilds"]
    /\ UNCHANGED <<build, version, builder>>

CancelBuildsOfTemplate(c) ==
    /\ caller[c].at = "cancelBuilds"
    /\ build' = [b \in Build |-> IF b \in ActiveBuilds THEN [build[b] EXCEPT !.status = "canceled"] ELSE build[b]]
    /\ caller' = [caller EXCEPT ![c] = IdleCaller]
    /\ UNCHANGED <<template, version, builder>>

\* promoteTemplate: three statements, and neither update looks again.
ResolveForPromotion(c, b) ==
    /\ caller[c].at = "idle" /\ template.status # "archived" /\ version[b].made > 0
    /\ caller' = [caller EXCEPT ![c] = [at |-> "alias", build |-> b]]
    /\ UNCHANGED <<template, build, version, builder>>

PromoteAlias(c) ==
    /\ caller[c].at = "alias"
    /\ \E alias \in {"latest", "stable"} :
          version' = [version EXCEPT ![caller[c].build].aliases = @ \cup {alias}]
    /\ caller' = [caller EXCEPT ![c].at = "latest"]
    /\ UNCHANGED <<template, build, builder>>

PromoteLatest(c) ==
    /\ caller[c].at = "latest"
    /\ template' = [template EXCEPT !.latest = caller[c].build]
    /\ caller' = [caller EXCEPT ![c] = IdleCaller]
    /\ UNCHANGED <<build, version, builder>>

CallerFails(c) ==
    /\ caller[c].at # "idle"
    /\ caller' = [caller EXCEPT ![c] = IdleCaller]
    /\ UNCHANGED <<template, build, version, builder>>
--------------------------------------------------------------------------------
(* The builder: claim, build, complete or fail *)

Buildable(b) == build[b].status = "queued" /\ (build[b].source = "image" \/ build[b].context)
OldestBuildable(b, source) ==
    /\ Buildable(b) /\ build[b].source = source
    /\ \A a \in 1..(b - 1) : ~(Buildable(a) /\ build[a].source = source)

\* The oldest row first, and only then whether it can be built.
ClaimHead(d) ==
    \E b \in Build :
        /\ builder[d].at = "idle"
        /\ build[b].status = "queued" /\ \A a \in 1..(b - 1) : build[a].status # "queued"
        /\ Buildable(b)
        /\ SetBuild(b, "building")
        /\ builder' = [builder EXCEPT ![d] = [at |-> "build", build |-> b]]
        /\ UNCHANGED <<template, version, caller>>

\* A claim that leaves the row to whoever looks next.
ClaimUnmarked(d) ==
    \E b \in Build :
        /\ builder[d].at = "idle" /\ Buildable(b)
        /\ builder' = [builder EXCEPT ![d] = [at |-> "build", build |-> b]]
        /\ UNCHANGED <<template, build, version, caller>>

\* Imports are looked for first, Dockerfile builds when there is none.
ClaimBuild(d) ==
    \E b \in Build :
        /\ builder[d].at = "idle"
        /\ \/ OldestBuildable(b, "image")
           \/ OldestBuildable(b, "dockerfile") /\ ~\E a \in Build : OldestBuildable(a, "image")
        /\ SetBuild(b, "building")
        /\ builder' = [builder EXCEPT ![d] = [at |-> "build", build |-> b]]
        /\ UNCHANGED <<template, version, caller>>

\* The image, its pull and pre-pull on the nodes and the scan, or an error of
\* one of them.
BuildImage(d) ==
    /\ builder[d].at = "build"
    /\ \E at \in {"complete", "fail"} : builder' = [builder EXCEPT ![d].at = at]
    /\ UNCHANGED <<template, build, version, caller>>

MadeVersion(b) == [version EXCEPT ![b] = [made |-> version[b].made + 1, aliases |-> {"latest"}]]

\* Without the second look at the build or at the template.
CompleteUnseen(d) ==
    /\ builder[d].at = "complete"
    /\ LET b == builder[d].build IN
       /\ version' = MadeVersion(b)
       /\ template' = [status |-> "ready", latest |-> b]
       /\ SetBuild(b, "success")
    /\ builder' = [builder EXCEPT ![d] = IdleBuilder]
    /\ UNCHANGED caller

\* A deleted build makes the foreign key of the version fail.  The COMMIT may
\* succeed and its answer be lost, which processBuild takes for a failure.
CompleteBuild(d) ==
    /\ builder[d].at = "complete"
    /\ LET b == builder[d].build IN
       \/ /\ build[b].status \notin {"canceled", "deleted"}
          /\ version' = MadeVersion(b)
          /\ template' = IF template.status = "archived" THEN template
                         ELSE [status |-> "ready", latest |-> b]
          /\ SetBuild(b, "success")
          /\ \/ builder' = [builder EXCEPT ![d] = IdleBuilder]
             \/ builder' = [builder EXCEPT ![d].at = "fail"]
       \/ /\ build[b].status = "canceled"
          /\ builder' = [builder EXCEPT ![d] = IdleBuilder]
          /\ UNCHANGED <<template, build, version>>
       \/ /\ builder' = [builder EXCEPT ![d].at = "fail"]
          /\ UNCHANGED <<template, build, version>>
    /\ UNCHANGED caller

FailBuild(d) ==
    /\ builder[d].at = "fail"
    /\ LET b == builder[d].build IN
       IF build[b].status \in {"canceled", "deleted"} THEN UNCHANGED build ELSE SetBuild(b, "failed")
    /\ builder' = [builder EXCEPT ![d] = IdleBuilder]
    /\ UNCHANGED <<template, version, caller>>

\* The build keeps its status: no one else finishes it.
BuilderCrash(d) ==
    /\ builder[d].at # "idle"
    /\ builder' = [builder EXCEPT ![d] = IdleBuilder]
    /\ UNCHANGED <<template, build, version, caller>>
--------------------------------------------------------------------------------
(* Retention; how old a row is, is open *)

DeleteTerminal(b) ==
    /\ build[b].status \in Terminal
    /\ SetBuild(b, "deleted")
    /\ UNCHANGED <<template, version, builder, caller>>

DeleteOldBuild(b) ==
    /\ build[b].status \in Terminal /\ version[b].made = 0
    /\ SetBuild(b, "deleted")
    /\ UNCHANGED <<template, version, builder, caller>>

Next ==
    \/ \E c \in Caller :
          \/ ResolveForBuild(c) \/ Enqueue(c) \/ ArchiveTemplate(c) \/ CancelBuildsOfTemplate(c)
          \/ \E b \in Build : ResolveForPromotion(c, b)
          \/ PromoteAlias(c) \/ PromoteLatest(c) \/ CallerFails(c)
    \/ \E b \in Build : UploadContext(b) \/ CancelBuild(b) \/ DeleteOldBuild(b)
    \/ \E d \in Builder : ClaimBuild(d) \/ BuildImage(d) \/ CompleteBuild(d) \/ FailBuild(d) \/ BuilderCrash(d)

\* The loop of runTemplateBuilder; every wait in it has a deadline.
BuilderStep(d) == ClaimBuild(d) \/ BuildImage(d) \/ CompleteBuild(d) \/ FailBuild(d)

Spec == Init /\ [][Next]_templateVars
FairSpec == Spec /\ \A d \in Builder : WF_templateVars(BuilderStep(d))
--------------------------------------------------------------------------------
(* Properties *)

\* However many builders look at the queue, a build yields one version at most;
\* the row a version was built from is never deleted, not even when the
\* builder took a committed completion for a failure.
VersionsHaveOneBuild ==
    \A b \in Build :
        /\ version[b].made <= 1
        /\ version[b].made = 1 => build[b].status \in {"success", "failed"}

\* A cancellation is final: whatever a builder was doing, no version comes of
\* the build afterwards and its status is never overwritten.
CancelIsFinal ==
    [][\A b \in Build : build[b].status = "canceled" =>
          build'[b].status \in {"canceled", "deleted"} /\ version'[b] = version[b]]_templateVars

\* A build that completes between the archive and the cancellation of its
\* builds does not bring the template back.
ArchiveIsFinal == [][template.status = "archived" => template'.status = "archived"]_templateVars

\* A build that can be built does not wait for ever, in particular not behind
\* one whose context was never uploaded.
BuildableIsClaimed == \A b \in Build : Buildable(b) ~> ~Buildable(b)
================================================================================
