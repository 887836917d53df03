--------------------------------- MODULE Members --------------------------------
(***************************************************************************)
(* The members of one organization.  Its admins invite a colleague, send   *)
(* and cancel invitations and remove members; the colleague's logins turn  *)
(* open invitations into a membership.  Every request is a sequence of     *)
(* statements without a transaction, with calls to Keycloak in between.    *)
(* Removed admins do not come back: the API gives nobody that role.        *)
(***************************************************************************)
EXTENDS Naturals, FiniteSets, FiniteSetsExt

CONSTANTS Admin, Invitee,
          Login,           \* requests the invitee authenticates with a token
          MaxInvitations,  \* bound on the rows of organization_invitations
          MaxMemberships   \* bound on the rows a user has had in memberships

MemberBounds == Invitee \notin Admin /\ MaxInvitations \in Nat /\ MaxMemberships \in Nat \ {0}

User == Admin \cup {Invitee}
Invitation == 1..MaxInvitations

VARIABLES
    membership,  \* memberships, with the number of its row: a row that is made again is another row
    invitation,  \* organization_invitations of the invitee's address
    account,     \* whether Keycloak knows the address
    joined,      \* the invitations that have made a membership, or found one
    actor,       \* the request of each admin
    login        \* acceptPendingOrganizationInvitations of each login

memberVars == <<membership, invitation, account, joined, actor, login>>

Idle == [at |-> "idle", of |-> 0, row |-> 0]
Open(i) == invitation[i] \in {"pending", "sent", "send_failed"}
IsMember(u) == membership[u].role # "none"

TypeOK ==
    /\ membership \in [User -> [role : {"none", "member", "admin"}, row : 0..MaxMemberships]]
    /\ invitation \in [Invitation -> {"none", "pending", "sent", "send_failed", "accepted", "canceled"}]
    /\ account \in BOOLEAN /\ joined \subseteq Invitation
    /\ \A a \in Admin :
           /\ actor[a].of \in User \cup Invitation \cup {0} /\ actor[a].row \in 0..MaxMemberships
           /\ actor[a].at \in {"idle", "member", "count", "delete", "find", "lookup", "open", "insert",
                               "row", "send", "sent", "failed", "cancel"}
    /\ login \in [Login -> [at : {"idle", "join", "accept"}, todo : SUBSET Invitation]]

Init ==
    /\ membership = [u \in User |-> IF u = Invitee THEN [role |-> "none", row |-> 0] ELSE [role |-> "admin", row |-> 1]]
    /\ invitation = [i \in Invitation |-> "none"]
    /\ account = FALSE /\ joined = {}
    /\ actor = [a \in Admin |-> Idle]
    /\ login = [g \in Login |-> [at |-> "idle", todo |-> {}]]
--------------------------------------------------------------------------------
(* An admin's request; adminCheck is its first statement. *)

Goto(a, at) == actor' = [actor EXCEPT ![a].at = at]
End(a) == actor' = [actor EXCEPT ![a] = Idle]
Request(a, at, of) ==
    /\ actor[a] = Idle /\ membership[a].role = "admin"
    /\ actor' = [actor EXCEPT ![a] = [at |-> at, of |-> of, row |-> 0]]
    /\ UNCHANGED <<membership, invitation, account, joined, login>>

\* ON CONFLICT (user_id, organization_id) DO NOTHING.
UpsertMember ==
    /\ membership[Invitee].row < MaxMemberships \/ IsMember(Invitee)
    /\ membership' = IF IsMember(Invitee) THEN membership
                     ELSE [membership EXCEPT ![Invitee] = [role |-> "member", row |-> @.row + 1]]

RemoveMember(a, u) == Request(a, "member", u)
ReadMember(a) ==
    /\ actor[a].at = "member"
    /\ LET m == membership[actor[a].of]
       IN IF m.role = "none" \/ actor[a].of = a THEN End(a)
          ELSE actor' = [actor EXCEPT ![a].row = m.row, ![a].at = IF m.role = "admin" THEN "count" ELSE "delete"]
    /\ UNCHANGED <<membership, invitation, account, joined, login>>
CountAdmins(a) ==
    /\ actor[a].at = "count"
    /\ IF Cardinality({u \in User : membership[u].role = "admin"}) <= 1 THEN End(a) ELSE Goto(a, "delete")
    /\ UNCHANGED <<membership, invitation, account, joined, login>>
DeleteMember(a) ==
    /\ actor[a].at = "delete" /\ End(a)
    /\ membership' = [u \in User |-> IF u = actor[a].of /\ membership[u].row = actor[a].row
                                     THEN [membership[u] EXCEPT !.role = "none"] ELSE membership[u]]
    /\ UNCHANGED <<invitation, account, joined, login>>

\* A colleague Keycloak knows becomes a member at once; a lookup that fails is no match.
Invite(a) == Request(a, "find", 0)
FindMember(a) ==
    /\ actor[a].at = "find"
    /\ IF IsMember(Invitee) THEN End(a) ELSE Goto(a, "lookup")
    /\ UNCHANGED <<membership, invitation, account, joined, login>>
LookUpAccount(a) ==
    /\ actor[a].at = "lookup"
    /\ \/ account /\ UpsertMember /\ End(a)
       \/ Goto(a, "open") /\ UNCHANGED membership
    /\ UNCHANGED <<invitation, account, joined, login>>
FindOpen(a) ==
    /\ actor[a].at = "open"
    /\ IF \E i \in Invitation : Open(i) THEN End(a) ELSE Goto(a, "insert")
    /\ UNCHANGED <<membership, invitation, account, joined, login>>

\* The unique index holds for open invitations: an insert, or an update that
\* opens one again, fails while there is another.
InsertInvitation(a) ==
    /\ actor[a].at = "insert"
    /\ IF \E i \in Invitation : Open(i) THEN End(a) /\ UNCHANGED invitation
       ELSE \E i \in Invitation :
               /\ invitation[i] = "none" /\ \A j \in 1..(i - 1) : invitation[j] # "none"
               /\ invitation' = [invitation EXCEPT ![i] = "pending"]
               /\ actor' = [actor EXCEPT ![a].at = "send", ![a].of = i]
    /\ UNCHANGED <<membership, account, joined, login>>

\* sendInvitationActions: find or create the user, then send the message.
Send(a) ==
    /\ actor[a].at = "send"
    /\ \/ account' = TRUE /\ \E q \in {"sent", "failed"} : Goto(a, q)
       \/ UNCHANGED account /\ Goto(a, "failed")
    /\ UNCHANGED <<membership, invitation, joined, login>>
OtherIsOpen(a) == \E j \in Invitation \ {actor[a].of} : Open(j)
WriteSent(a) ==
    /\ actor[a].at = "sent"
    /\ IF OtherIsOpen(a) THEN Goto(a, "failed") /\ UNCHANGED invitation
       ELSE /\ invitation' = [invitation EXCEPT ![actor[a].of] = "sent"]
            /\ End(a) \/ Goto(a, "failed")  \* the audit record after it may fail
    /\ UNCHANGED <<membership, account, joined, login>>
WriteFailed(a) ==
    /\ actor[a].at = "failed" /\ End(a)
    /\ invitation' = IF OtherIsOpen(a) THEN invitation ELSE [invitation EXCEPT ![actor[a].of] = "send_failed"]
    /\ UNCHANGED <<membership, account, joined, login>>

Resend(a, i) == Request(a, "row", i)
ReadInvitation(a) ==
    /\ actor[a].at = "row"
    /\ IF Open(actor[a].of) THEN Goto(a, "send") ELSE End(a)
    /\ UNCHANGED <<membership, invitation, account, joined, login>>

Cancel(a, i) == Request(a, "cancel", i)
CancelInvitation(a) ==
    /\ actor[a].at = "cancel" /\ End(a)
    /\ invitation' = IF Open(actor[a].of) THEN [invitation EXCEPT ![actor[a].of] = "canceled"] ELSE invitation
    /\ UNCHANGED <<membership, account, joined, login>>

StopRequest(a) == actor[a] # Idle /\ End(a) /\ UNCHANGED <<membership, invitation, account, joined, login>>
--------------------------------------------------------------------------------
(* A login of the invitee, whose address is verified *)

Remaining(todo) == [at |-> IF todo = {} THEN "idle" ELSE "join", todo |-> todo]
\* The open ones that have not expired, which may be any.
ListAcceptingOnly(g) ==  \* mutant
    /\ login[g].at = "idle" /\ account
    /\ \E todo \in SUBSET {i \in Invitation : Open(i)} \ {{}} :
           login' = [login EXCEPT ![g] = [at |-> "accept", todo |-> todo]]
    /\ UNCHANGED <<membership, invitation, account, joined, actor>>
ListInvitations(g) ==
    /\ login[g].at = "idle" /\ account
    /\ \E todo \in SUBSET {i \in Invitation : Open(i)} : login' = [login EXCEPT ![g] = Remaining(todo)]
    /\ UNCHANGED <<membership, invitation, account, joined, actor>>
Join(g) ==
    /\ login[g].at = "join" /\ UpsertMember
    /\ joined' = joined \cup {Min(login[g].todo)}
    /\ login' = [login EXCEPT ![g].at = "accept"]
    /\ UNCHANGED <<invitation, account, actor>>
Accept(g) ==
    /\ login[g].at = "accept"
    /\ invitation' = [invitation EXCEPT ![Min(login[g].todo)] = "accepted"]
    /\ login' = [login EXCEPT ![g] = Remaining(@.todo \ {Min(@.todo)})]
    /\ UNCHANGED <<membership, account, joined, actor>>
\* The invitee may have, or make, an account without an invitation.
Register == ~account /\ account' = TRUE /\ UNCHANGED <<membership, invitation, joined, actor, login>>
StopLogin(g) ==
    /\ login[g].at # "idle" /\ login' = [login EXCEPT ![g] = Remaining({})]
    /\ UNCHANGED <<membership, invitation, account, joined, actor>>
--------------------------------------------------------------------------------
Next ==
    \/ \E a \in Admin :
          \/ \E u \in User : RemoveMember(a, u)
          \/ \E i \in Invitation : invitation[i] # "none" /\ (Resend(a, i) \/ Cancel(a, i))
          \/ Invite(a) \/ ReadMember(a) \/ CountAdmins(a) \/ DeleteMember(a) \/ FindMember(a) \/ LookUpAccount(a)
          \/ FindOpen(a) \/ InsertInvitation(a) \/ Send(a) \/ WriteSent(a) \/ WriteFailed(a)
          \/ ReadInvitation(a) \/ CancelInvitation(a) \/ StopRequest(a)
    \/ \E g \in Login : ListInvitations(g) \/ Join(g) \/ Accept(g) \/ StopLogin(g)
    \/ Register

Spec == Init /\ [][Next]_memberVars
--------------------------------------------------------------------------------
(* An invitation is marked accepted only after it has made its membership:  *)
(* a login that stops between the two statements uses nothing up, however   *)
(* it is resent and canceled meanwhile (docs/members.md, status accepted).  *)
AcceptedHasJoined == \A i \in Invitation : invitation[i] = "accepted" => i \in joined

(* docs/members.md: the API prevents removing the last remaining admin.     *)
OrganizationKeepsAnAdmin == \E u \in User : membership[u].role = "admin"
================================================================================
