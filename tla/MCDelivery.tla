------------------------------- MODULE MCDelivery -------------------------------
(***************************************************************************)
(* Credentials and commands: what a caller asked for must arrive in the    *)
(* runtime, or come back from it, over lost calls and broken connections.  *)
(* The two share no row and are model-checked one after the other, as in   *)
(* MCProgress.                                                             *)
(***************************************************************************)
EXTENDS Naturals

CONSTANTS Requester, MaxRows, MaxFaults,  \* CredentialVault
          MaxOutput, MaxReconnects        \* Commands

VARIABLES active, source, attachment, vault, process, faults,
          command, program, creator, killer, reader, stream, viewer,
          subject   \* the component this behaviour is about

Credential == INSTANCE CredentialVault
Execution == INSTANCE Commands

ASSUME Bounds == Credential!VaultBounds /\ Execution!CommandBounds

vaultVars == <<active, source, attachment, vault, process, faults>>
commandVars == <<command, program, creator, killer, reader, stream, viewer>>
vars == <<vaultVars, commandVars, subject>>

Init ==
    /\ subject \in {"credential", "command"}
    /\ Credential!Init /\ Execution!Init
    /\ subject = "command" => source.kind = "stored"

OfCredential(Action) == subject = "credential" /\ Action /\ UNCHANGED <<commandVars, subject>>
OfCommand(Action) == subject = "command" /\ Action /\ UNCHANGED <<vaultVars, subject>>

Next == OfCredential(Credential!Next) \/ OfCommand(Execution!Next)

(* The fairness each component states of itself. *)
CredentialFairness ==
    /\ \A p \in Credential!Process : WF_vaultVars(OfCredential(Credential!Continue(p)))
    /\ \A r \in Requester : WF_vaultVars(OfCredential(Credential!RequestStep(r)))
    /\ WF_vaultVars(OfCredential(Credential!SkipInspection))
    /\ WF_vaultVars(OfCredential(Credential!EndTick))
    /\ SF_vaultVars(OfCredential(Credential!ListForInspection(Credential!Scheduler)))
    /\ SF_vaultVars(OfCredential(Credential!ClaimWork))
    /\ \A a \in Credential!Attachment : WF_vaultVars(OfCredential(Credential!Expire(a)))
CommandFairness ==
    /\ WF_commandVars(OfCommand(Execution!StreamStep))
    /\ WF_commandVars(OfCommand(Execution!ViewerStep))

Spec == Init /\ [][Next]_vars
FairSpec == Spec /\ CredentialFairness /\ CommandFairness
--------------------------------------------------------------------------------
(* A credential attached to a running sandbox comes to work, whatever was   *)
(* lost, expired, failed or was overwritten by a late answer.               *)
AttachedBecomesUsable == Credential!AttachedBecomesUsable

(* Every piece of output reaches the viewer once and in order, over any     *)
(* number of connections that rotate or break.                              *)
OutputOnce == Execution!OutputOnce

(* A viewer told that the command succeeded has received all it wrote.      *)
SucceededMeansAll == Execution!SucceededMeansAll

(* Once the program has ended its viewer comes to an end, whichever status  *)
(* was written last.                                                        *)
ViewerEnds == Execution!ViewerEnds
================================================================================
