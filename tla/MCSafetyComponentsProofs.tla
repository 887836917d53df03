------------------------- MODULE MCSafetyComponentsProofs ------------------------
(***************************************************************************)
(* The components of MCSafety, each on its own: its inductive invariant,   *)
(* kept by every step of it, for every value of the constants.             *)
(***************************************************************************)
EXTENDS MCSafetyComponents, WellFoundedInduction, TLAPS

--------------------------------------------------------------------------------
(* Invitations: accepted by nobody who has not joined.                      *)

(* A login that is about to accept has made its membership just before.    *)
LoginHasJoined ==
    \A g \in Login : login[g].at = "accept" => Membership!Min(login[g].todo) \in joined

AcceptanceType ==
    /\ invitation \in [Membership!Invitation -> {"none", "pending", "sent", "send_failed", "accepted", "canceled"}]
    /\ login \in [Login -> [at : {"idle", "join", "accept"}, todo : SUBSET Membership!Invitation]]

AcceptanceInv == AcceptanceType /\ LoginHasJoined /\ Membership!AcceptedHasJoined

(* A request of an admin writes an invitation, but never as accepted, and  *)
(* touches neither the logins nor what they have made.                     *)
LEMMA RequestKeeps ==
    ASSUME AcceptanceInv, UNCHANGED <<joined, login>>, invitation' \in [Membership!Invitation -> {"none", "pending", "sent", "send_failed", "accepted", "canceled"}],
           \A i \in Membership!Invitation : invitation'[i] = "accepted" => invitation[i] = "accepted"
    PROVE  AcceptanceInv'
  BY DEF AcceptanceInv, AcceptanceType, LoginHasJoined, Membership!AcceptedHasJoined

LEMMA AdminKeeps ==
    ASSUME AcceptanceInv, NEW a \in Admin,
           \/ \E u \in Membership!User : Membership!RemoveMember(a, u)
           \/ \E i \in Membership!Invitation : Membership!Resend(a, i) \/ Membership!Cancel(a, i)
           \/ Membership!Invite(a) \/ Membership!ReadMember(a) \/ Membership!CountAdmins(a) \/ Membership!DeleteMember(a) \/ Membership!FindMember(a) \/ Membership!LookUpAccount(a)
           \/ Membership!FindOpen(a) \/ Membership!InsertInvitation(a) \/ Membership!Send(a) \/ Membership!WriteSent(a) \/ Membership!WriteFailed(a)
           \/ Membership!ReadInvitation(a) \/ Membership!CancelInvitation(a) \/ Membership!StopRequest(a)
    PROVE  AcceptanceInv'
<1>1. UNCHANGED <<joined, login>>
  BY DEF Membership!RemoveMember, Membership!Resend, Membership!Cancel, Membership!Invite, Membership!Request,
     Membership!ReadMember, Membership!CountAdmins, Membership!DeleteMember, Membership!FindMember,
         Membership!LookUpAccount, Membership!FindOpen, Membership!InsertInvitation, Membership!Send, Membership!WriteSent, Membership!WriteFailed, Membership!ReadInvitation,
         Membership!CancelInvitation, Membership!StopRequest
<1>2. CASE Membership!InsertInvitation(a)
  BY <1>1, <1>2, RequestKeeps DEF Membership!InsertInvitation, AcceptanceInv, AcceptanceType
<1>3. CASE Membership!WriteSent(a)
  BY <1>1, <1>3, RequestKeeps DEF Membership!WriteSent, AcceptanceInv, AcceptanceType
<1>4. CASE Membership!WriteFailed(a)
  BY <1>1, <1>4, RequestKeeps DEF Membership!WriteFailed, AcceptanceInv, AcceptanceType
<1>5. CASE Membership!CancelInvitation(a)
  BY <1>1, <1>5, RequestKeeps DEF Membership!CancelInvitation, AcceptanceInv, AcceptanceType
<1>6. CASE UNCHANGED invitation
  BY <1>1, <1>6, RequestKeeps DEF AcceptanceInv, AcceptanceType
<1> QED
  BY <1>2, <1>3, <1>4, <1>5, <1>6
     DEF Membership!RemoveMember, Membership!Resend, Membership!Cancel, Membership!Invite, Membership!Request, Membership!ReadMember, Membership!CountAdmins, Membership!DeleteMember, Membership!FindMember,
         Membership!LookUpAccount, Membership!FindOpen, Membership!Send, Membership!ReadInvitation, Membership!StopRequest

LEMMA LoginKeeps ==
    ASSUME AcceptanceInv, NEW g \in Login, Membership!ListInvitations(g) \/ Membership!Join(g) \/ Membership!Accept(g) \/ Membership!StopLogin(g)
    PROVE  AcceptanceInv'
<1> USE DEF AcceptanceInv
<1>1. CASE Membership!ListInvitations(g)
  BY <1>1 DEF Membership!ListInvitations, Membership!Remaining, AcceptanceType, LoginHasJoined,
     Membership!AcceptedHasJoined
<1>2. CASE Membership!Join(g)
  BY <1>2 DEF Membership!Join, AcceptanceType, LoginHasJoined, Membership!AcceptedHasJoined
<1>3. CASE Membership!Accept(g)
  <2>1. AcceptanceType'
    BY <1>3 DEF Membership!Accept, Membership!Remaining, AcceptanceType
  <2>2. LoginHasJoined'
    BY <1>3 DEF Membership!Accept, Membership!Remaining, AcceptanceType, LoginHasJoined
  <2>3. Membership!AcceptedHasJoined'
    BY <1>3 DEF Membership!Accept, AcceptanceType, LoginHasJoined, Membership!AcceptedHasJoined
  <2> QED
    BY <2>1, <2>2, <2>3
<1>4. CASE Membership!StopLogin(g)
  BY <1>4 DEF Membership!StopLogin, Membership!Remaining, AcceptanceType, LoginHasJoined, Membership!AcceptedHasJoined
<1> QED
  BY <1>1, <1>2, <1>3, <1>4

LEMMA AcceptanceInvariant == Membership!Spec => []AcceptanceInv
<1>1. Membership!Init => AcceptanceInv
  BY DEF Membership!Init, AcceptanceInv, AcceptanceType, LoginHasJoined, Membership!AcceptedHasJoined
<1>2. AcceptanceInv /\ [Membership!Next]_(Membership!memberVars) => AcceptanceInv'
  <2> SUFFICES ASSUME AcceptanceInv, [Membership!Next]_(Membership!memberVars) PROVE AcceptanceInv'
    OBVIOUS
  <2>1. CASE Membership!Register
    BY <2>1, RequestKeeps DEF Membership!Register, AcceptanceInv, AcceptanceType
  <2>2. CASE UNCHANGED Membership!memberVars
    BY <2>2, RequestKeeps DEF Membership!memberVars, AcceptanceInv, AcceptanceType
  <2> QED
    BY <2>1, <2>2, AdminKeeps, LoginKeeps DEF Membership!Next
<1> QED
  BY <1>1, <1>2, PTL DEF Membership!Spec

(* What an admin's request has read: it is about a member when it looks one *)
(* up.                                                                      *)
RequestRow ==
    [at : {"idle", "member", "count", "delete", "find", "lookup", "open", "insert",
           "row", "send", "sent", "failed", "cancel"},
     of : Membership!User \cup Membership!Invitation \cup {0}, row : 0..MaxMemberships]
MemberType == Membership!TypeOK /\ actor \in [Admin -> RequestRow]
LooksUp == \A a \in Admin : actor[a].at = "member" => actor[a].of \in Membership!User
HasTodo == \A g \in Login : login[g].at # "idle" => login[g].todo # {}
MemberInv == MemberType /\ LooksUp /\ HasTodo

(* Numbered rows have a first one. *)
LEMMA FirstOf == ASSUME NEW S \in SUBSET Nat, S # {} PROVE Membership!Min(S) \in S
<1>1. \E x \in S : \A y \in S : ~ (<<y, x>> \in OpToRel(<, Nat))
  BY WFMin, NatLessThanWellFounded, ZenonT(60)
<1>2. PICK x \in S : \A y \in S : ~ (y < x)
  BY <1>1, ZenonT(60) DEF OpToRel
<1>3. \A y \in S : x <= y
  BY <1>2
<1> QED
  BY <1>3, ZenonT(60) DEF Membership!Min

(* What a step leaves alone of the tables keeps its type. *)
LEMMA ActorGoes ==
    ASSUME MemberInv, NEW a \in Admin, NEW next \in RequestRow, next.at # "member" \/ next.of \in Membership!User,
           actor' = [actor EXCEPT ![a] = next]
    PROVE  actor' \in [Admin -> RequestRow] /\ LooksUp'
<1>1. actor \in [Admin -> RequestRow]
  BY DEF MemberInv, MemberType
<1>2. actor' \in [Admin -> RequestRow]
  BY <1>1, ZenonT(60)
<1>3. ASSUME NEW b \in Admin, actor'[b].at = "member" PROVE actor'[b].of \in Membership!User
  <2>1. CASE b = a
    <3>1. actor'[b] = next
      BY <1>1, <2>1, ZenonT(60)
    <3> QED
      BY <1>3, <3>1
  <2>2. CASE b # a
    <3>1. actor'[b] = actor[b]
      BY <1>1, <2>2, ZenonT(60)
    <3> QED
      BY <1>3, <3>1 DEF MemberInv, LooksUp
  <2> QED
    BY <2>1, <2>2
<1> QED
  BY <1>2, <1>3 DEF LooksUp

LEMMA IdleTyped == ASSUME Membership!MemberBounds PROVE Membership!Idle \in RequestRow /\ Membership!Idle.at # "member"
<1>1. 0 \in 0..MaxMemberships /\ 0 \in Membership!User \cup Membership!Invitation \cup {0}
  BY DEF Membership!MemberBounds
<1>2. Membership!Idle \in RequestRow
  BY <1>1, ZenonT(60) DEF Membership!Idle, RequestRow
<1> QED
  BY <1>2 DEF Membership!Idle

LEMMA EndTyped ==
    ASSUME Membership!MemberBounds, MemberInv, NEW a \in Admin, Membership!End(a)
    PROVE  actor' \in [Admin -> RequestRow] /\ LooksUp'
  BY IdleTyped, ActorGoes DEF Membership!End

LEMMA GotoTyped ==
    ASSUME MemberInv, NEW a \in Admin,
           NEW step \in {"count", "delete", "lookup", "open", "insert", "send", "sent", "failed"}, Membership!Goto(a, step)
    PROVE  actor' \in [Admin -> RequestRow] /\ LooksUp'
<1>1. actor[a] \in RequestRow
  BY DEF MemberInv, MemberType
<1>2. [actor[a] EXCEPT !.at = step] \in RequestRow
  BY <1>1, ZenonT(60) DEF RequestRow
<1>3. [actor[a] EXCEPT !.at = step].at = step
  BY <1>1 DEF RequestRow
<1>4. actor' = [actor EXCEPT ![a] = [actor[a] EXCEPT !.at = step]]
  BY DEF Membership!Goto
<1> QED
  BY <1>2, <1>3, <1>4, ActorGoes

LEMMA RequestTyped ==
    ASSUME Membership!MemberBounds, MemberInv, NEW a \in Admin, NEW step \in {"member", "find", "row", "cancel"},
           NEW of \in Membership!User \cup Membership!Invitation \cup {0}, step = "member" => of \in Membership!User,
           actor' = [actor EXCEPT ![a] = [at |-> step, of |-> of, row |-> 0]]
    PROVE  actor' \in [Admin -> RequestRow] /\ LooksUp'
<1>1. 0 \in 0..MaxMemberships
  BY DEF Membership!MemberBounds
<1>2. [at |-> step, of |-> of, row |-> 0] \in RequestRow
  BY <1>1, ZenonT(60) DEF RequestRow
<1> QED
  BY <1>2, ActorGoes

LEMMA UpsertTyped ==
    ASSUME Membership!MemberBounds, MemberInv, Membership!UpsertMember
    PROVE  membership' \in [Membership!User -> [role : {"none", "member", "admin"}, row : 0..MaxMemberships]]
<1>1. /\ membership \in [Membership!User -> [role : {"none", "member", "admin"}, row : 0..MaxMemberships]]
      /\ Invitee \in Membership!User
  BY DEF MemberInv, MemberType, Membership!TypeOK, Membership!User
<1>2. membership' = membership
         \/ membership' = [membership EXCEPT ![Invitee] = [role |-> "member", row |-> membership[Invitee].row + 1]]
  BY DEF Membership!UpsertMember
<1>3. ~Membership!IsMember(Invitee) => membership[Invitee].row + 1 \in 0..MaxMemberships
  BY <1>1 DEF Membership!UpsertMember, Membership!MemberBounds
<1>4. CASE Membership!IsMember(Invitee)
  BY <1>1, <1>4 DEF Membership!UpsertMember
<1>5. CASE ~Membership!IsMember(Invitee)
  <2>1. membership' = [membership EXCEPT ![Invitee] = [role |-> "member", row |-> membership[Invitee].row + 1]]
    BY <1>5 DEF Membership!UpsertMember
  <2>2. [role |-> "member", row |-> membership[Invitee].row + 1]
           \in [role : {"none", "member", "admin"}, row : 0..MaxMemberships]
    BY <1>3, <1>5, ZenonT(60)
  <2> QED
    BY <1>1, <2>1, <2>2, ZenonT(60)
<1> QED
  BY <1>4, <1>5

LEMMA TablesTyped ==
    ASSUME MemberInv, actor' \in [Admin -> RequestRow], LooksUp',
           membership' \in [Membership!User -> [role : {"none", "member", "admin"}, row : 0..MaxMemberships]],
           invitation' \in [Membership!Invitation -> {"none", "pending", "sent", "send_failed", "accepted", "canceled"}],
           account' \in BOOLEAN, joined' \subseteq Membership!Invitation,
           login' \in [Login -> [at : {"idle", "join", "accept"}, todo : SUBSET Membership!Invitation]], HasTodo'
    PROVE  MemberInv'
<1>1. ASSUME NEW a \in Admin
      PROVE  /\ actor'[a].of \in Membership!User \cup Membership!Invitation \cup {0} /\ actor'[a].row \in 0..MaxMemberships
             /\ actor'[a].at \in {"idle", "member", "count", "delete", "find", "lookup", "open", "insert",
                                  "row", "send", "sent", "failed", "cancel"}
  <2>1. actor'[a] \in RequestRow
    BY ZenonT(60)
  <2> QED
    BY <2>1, ZenonT(60) DEF RequestRow
<1> QED
  BY <1>1 DEF MemberInv, MemberType, Membership!TypeOK

LEMMA AdminTyped ==
    ASSUME Membership!MemberBounds, MemberInv, NEW a \in Admin,
           \/ \E u \in Membership!User : Membership!RemoveMember(a, u)
           \/ \E i \in Membership!Invitation : Membership!Resend(a, i) \/ Membership!Cancel(a, i)
           \/ Membership!Invite(a) \/ Membership!ReadMember(a) \/ Membership!CountAdmins(a) \/ Membership!DeleteMember(a) \/ Membership!FindMember(a) \/ Membership!LookUpAccount(a)
           \/ Membership!FindOpen(a) \/ Membership!InsertInvitation(a) \/ Membership!Send(a) \/ Membership!WriteSent(a) \/ Membership!WriteFailed(a)
           \/ Membership!ReadInvitation(a) \/ Membership!CancelInvitation(a) \/ Membership!StopRequest(a)
    PROVE  MemberInv'
<1> DEFINE Memberships == [Membership!User -> [role : {"none", "member", "admin"}, row : 0..MaxMemberships]]
           Invitations == [Membership!Invitation -> {"none", "pending", "sent", "send_failed", "accepted", "canceled"}]
           Logins == [Login -> [at : {"idle", "join", "accept"}, todo : SUBSET Membership!Invitation]]
<1>1. /\ membership \in Memberships /\ invitation \in Invitations /\ account \in BOOLEAN
      /\ joined \subseteq Membership!Invitation /\ login \in Logins /\ actor \in [Admin -> RequestRow] /\ LooksUp
  BY DEF MemberInv, MemberType, Membership!TypeOK
<1>2. UNCHANGED <<joined, login>>
  BY DEF Membership!RemoveMember, Membership!Resend, Membership!Cancel, Membership!Invite, Membership!Request,
     Membership!ReadMember, Membership!CountAdmins, Membership!DeleteMember, Membership!FindMember,
         Membership!LookUpAccount, Membership!FindOpen, Membership!InsertInvitation, Membership!Send, Membership!WriteSent, Membership!WriteFailed, Membership!ReadInvitation,
         Membership!CancelInvitation, Membership!StopRequest
<1>3. actor' \in [Admin -> RequestRow] /\ LooksUp'
  <2>1. ASSUME NEW u \in Membership!User, Membership!RemoveMember(a, u) PROVE actor' \in [Admin -> RequestRow] /\ LooksUp'
    <3>1. actor' = [actor EXCEPT ![a] = [at |-> "member", of |-> u, row |-> 0]]
      BY <2>1 DEF Membership!RemoveMember, Membership!Request
    <3> QED
      BY <3>1, RequestTyped
  <2>2. ASSUME NEW i \in Membership!Invitation, Membership!Resend(a, i) \/ Membership!Cancel(a, i) PROVE actor' \in [Admin -> RequestRow] /\ LooksUp'
    <3>1. \/ actor' = [actor EXCEPT ![a] = [at |-> "row", of |-> i, row |-> 0]]
          \/ actor' = [actor EXCEPT ![a] = [at |-> "cancel", of |-> i, row |-> 0]]
      BY <2>2 DEF Membership!Resend, Membership!Cancel, Membership!Request
    <3> QED
      BY <3>1, RequestTyped
  <2>3. CASE Membership!Invite(a)
    <3>1. actor' = [actor EXCEPT ![a] = [at |-> "find", of |-> 0, row |-> 0]]
      BY <2>3 DEF Membership!Invite, Membership!Request
    <3> QED
      BY <3>1, RequestTyped
  <2>4. CASE Membership!ReadMember(a)
    <3> DEFINE m == membership[actor[a].of]
               next == [actor[a] EXCEPT !.row = m.row, !.at = IF m.role = "admin" THEN "count" ELSE "delete"]
    <3>1. actor[a].of \in Membership!User
      BY <2>4 DEF Membership!ReadMember, MemberInv, LooksUp
    <3>2. m.row \in 0..MaxMemberships
      BY <1>1, <3>1
    <3>3. (IF m.role = "admin" THEN "count" ELSE "delete") \in {"count", "delete"}
      OBVIOUS
    <3>4. actor[a] \in RequestRow
      BY <1>1
    <3>5. next \in RequestRow /\ next.at # "member"
      <4> DEFINE step == IF m.role = "admin" THEN "count" ELSE "delete"
      <4>1. step \in {"count", "delete"}
        OBVIOUS
      <4> HIDE DEF m, step
      <4>2. [actor[a] EXCEPT !.row = m.row, !.at = step] \in RequestRow
        BY <3>2, <3>4, <4>1, ZenonT(60) DEF RequestRow
      <4>3. [actor[a] EXCEPT !.row = m.row, !.at = step].at = step
        BY <3>4 DEF RequestRow
      <4> QED
        BY <4>1, <4>2, <4>3 DEF step
    <3>6. Membership!End(a) \/ actor' = [actor EXCEPT ![a] = next]
      BY <2>4 DEF Membership!ReadMember
    <3> HIDE DEF next
    <3> QED
      BY <3>5, <3>6, EndTyped, ActorGoes
  <2>5. CASE Membership!CountAdmins(a) \/ Membership!FindMember(a) \/ Membership!LookUpAccount(a) \/ Membership!FindOpen(a) \/ Membership!Send(a)
    BY <2>5, EndTyped, GotoTyped
       DEF Membership!CountAdmins, Membership!FindMember, Membership!LookUpAccount, Membership!FindOpen,
       Membership!Send
  <2>6. CASE Membership!DeleteMember(a) \/ Membership!WriteFailed(a) \/ Membership!CancelInvitation(a) \/ Membership!StopRequest(a)
    BY <2>6, EndTyped
       DEF Membership!DeleteMember, Membership!WriteFailed, Membership!CancelInvitation, Membership!StopRequest
  <2>7. CASE Membership!InsertInvitation(a)
    <3>1. CASE Membership!End(a)
      BY <3>1, EndTyped
    <3>2. ASSUME NEW i \in Membership!Invitation, actor' = [actor EXCEPT ![a].at = "send", ![a].of = i]
          PROVE  actor' \in [Admin -> RequestRow] /\ LooksUp'
      <4>1. actor' = [actor EXCEPT ![a] = [actor[a] EXCEPT !.at = "send", !.of = i]]
        BY <1>1, <3>2
      <4>2. actor[a] \in RequestRow /\ i \in Membership!User \cup Membership!Invitation \cup {0}
        BY <1>1
      <4>3. [actor[a] EXCEPT !.at = "send", !.of = i] \in RequestRow
        BY <4>2, ZenonT(60) DEF RequestRow
      <4>4. [actor[a] EXCEPT !.at = "send", !.of = i].at = "send"
        BY <4>2 DEF RequestRow
      <4> QED
        BY <4>1, <4>3, <4>4, ActorGoes
    <3> QED
      BY <2>7, <3>1, <3>2 DEF Membership!InsertInvitation
  <2>8. CASE Membership!WriteSent(a) \/ Membership!ReadInvitation(a)
    BY <2>8, EndTyped, GotoTyped DEF Membership!WriteSent, Membership!ReadInvitation
  <2> QED
    BY <2>1, <2>2, <2>3, <2>4, <2>5, <2>6, <2>7, <2>8
<1>4. membership' \in Memberships
  <2>1. CASE Membership!LookUpAccount(a)
    BY <1>1, <2>1, UpsertTyped DEF Membership!LookUpAccount
  <2>2. CASE Membership!DeleteMember(a)
    <3> DEFINE gone(u) == IF u = actor[a].of /\ membership[u].row = actor[a].row
                          THEN [membership[u] EXCEPT !.role = "none"] ELSE membership[u]
    <3>1. membership' = [u \in Membership!User |-> gone(u)]
      BY <2>2 DEF Membership!DeleteMember
    <3>2. ASSUME NEW u \in Membership!User PROVE gone(u) \in [role : {"none", "member", "admin"}, row : 0..MaxMemberships]
      <4>1. membership[u] \in [role : {"none", "member", "admin"}, row : 0..MaxMemberships]
        BY <1>1
      <4>2. [membership[u] EXCEPT !.role = "none"] \in [role : {"none", "member", "admin"}, row : 0..MaxMemberships]
        BY <4>1, ZenonT(60)
      <4> QED
        BY <4>1, <4>2
    <3> HIDE DEF gone
    <3> QED
      BY <3>1, <3>2, ZenonT(60)
  <2>3. CASE UNCHANGED membership
    BY <1>1, <2>3
  <2> QED
    BY <2>1, <2>2, <2>3
       DEF Membership!RemoveMember, Membership!Resend, Membership!Cancel, Membership!Invite, Membership!Request, Membership!ReadMember, Membership!CountAdmins, Membership!FindMember, Membership!FindOpen,
           Membership!InsertInvitation, Membership!Send, Membership!WriteSent, Membership!WriteFailed, Membership!ReadInvitation, Membership!CancelInvitation, Membership!StopRequest
<1>7. HasTodo'
  BY <1>2 DEF MemberInv, HasTodo
<1>5. invitation' \in Invitations
  BY <1>1 DEF Membership!RemoveMember, Membership!Resend, Membership!Cancel, Membership!Invite, Membership!Request,
     Membership!ReadMember, Membership!CountAdmins, Membership!DeleteMember, Membership!FindMember,
         Membership!LookUpAccount, Membership!FindOpen, Membership!InsertInvitation, Membership!Send, Membership!WriteSent, Membership!WriteFailed, Membership!ReadInvitation,
         Membership!CancelInvitation, Membership!StopRequest
<1>6. account' \in BOOLEAN
  BY <1>1 DEF Membership!RemoveMember, Membership!Resend, Membership!Cancel, Membership!Invite, Membership!Request,
     Membership!ReadMember, Membership!CountAdmins, Membership!DeleteMember, Membership!FindMember,
         Membership!LookUpAccount, Membership!FindOpen, Membership!InsertInvitation, Membership!Send, Membership!WriteSent, Membership!WriteFailed, Membership!ReadInvitation,
         Membership!CancelInvitation, Membership!StopRequest
<1> QED
  BY <1>1, <1>2, <1>3, <1>4, <1>5, <1>6, <1>7, TablesTyped

LEMMA LoginTyped ==
    ASSUME Membership!MemberBounds, MemberInv, AcceptanceInv', NEW g \in Login,
           Membership!ListInvitations(g) \/ Membership!Join(g) \/ Membership!Accept(g) \/ Membership!StopLogin(g)
    PROVE  MemberInv'
<1>0. ASSUME NEW S \in SUBSET Membership!Invitation, S # {} PROVE Membership!Min(S) \in Membership!Invitation
  <2>1. S \in SUBSET Nat
    BY DEF Membership!Invitation
  <2>2. Membership!Min(S) \in S
    BY <1>0, <2>1, FirstOf
  <2> QED
    BY <2>2
<1>1. UNCHANGED <<account, actor>>
  BY DEF Membership!ListInvitations, Membership!Join, Membership!Accept, Membership!StopLogin
<1>2. /\ invitation' \in [Membership!Invitation -> {"none", "pending", "sent", "send_failed", "accepted", "canceled"}]
      /\ login' \in [Login -> [at : {"idle", "join", "accept"}, todo : SUBSET Membership!Invitation]]
  BY DEF AcceptanceInv, AcceptanceType
<1>3. membership' \in [Membership!User -> [role : {"none", "member", "admin"}, row : 0..MaxMemberships]]
  BY UpsertTyped DEF Membership!ListInvitations, Membership!Join, Membership!Accept, Membership!StopLogin, MemberInv,
     MemberType, Membership!TypeOK
<1>4. joined' \subseteq Membership!Invitation
  <2>1. joined \subseteq Membership!Invitation /\ login[g].todo \in SUBSET Membership!Invitation
    BY DEF MemberInv, MemberType, Membership!TypeOK
  <2>2. CASE login[g].at = "join" /\ joined' = joined \cup {Membership!Min(login[g].todo)}
    <3>1. login[g].todo # {}
      BY <2>2 DEF MemberInv, HasTodo
    <3>2. Membership!Min(login[g].todo) \in Membership!Invitation
      BY <1>0, <2>1, <3>1
    <3> QED
      BY <2>1, <2>2, <3>2
  <2>3. CASE UNCHANGED joined
    BY <2>1, <2>3
  <2> QED
    BY <2>2, <2>3 DEF Membership!ListInvitations, Membership!Join, Membership!Accept, Membership!StopLogin
<1>5. actor' \in [Admin -> RequestRow] /\ LooksUp' /\ account' \in BOOLEAN
  BY <1>1 DEF MemberInv, MemberType, Membership!TypeOK, LooksUp
<1>6. HasTodo'
  <2>1. login \in [Login -> [at : {"idle", "join", "accept"}, todo : SUBSET Membership!Invitation]] /\ HasTodo
    BY DEF MemberInv, MemberType, Membership!TypeOK
  <2>2. \A todo : Membership!Remaining(todo).at # "idle" => Membership!Remaining(todo).todo # {}
    BY DEF Membership!Remaining
  <2>3. ASSUME NEW todo, login' = [login EXCEPT ![g] = Membership!Remaining(todo)] PROVE HasTodo'
    BY <2>1, <2>2, <2>3, ZenonT(60) DEF HasTodo
  <2>4. ASSUME login[g].at = "join", login' = [login EXCEPT ![g].at = "accept"] PROVE HasTodo'
    BY <2>1, <2>4 DEF HasTodo
  <2>5. \/ \E todo : login' = [login EXCEPT ![g] = Membership!Remaining(todo)]
        \/ login[g].at = "join" /\ login' = [login EXCEPT ![g].at = "accept"]
    BY DEF Membership!ListInvitations, Membership!Join, Membership!Accept, Membership!StopLogin
  <2> QED
    BY <2>3, <2>4, <2>5
<1> QED
  BY <1>2, <1>3, <1>4, <1>5, <1>6, TablesTyped

(* Every table, request and login keeps its type, and no row number runs    *)
(* past its bound: a request that removes a member looks a member up, and a *)
(* login that joins has an invitation to join by.                           *)
LEMMA MemberTypeInvariant == ASSUME Membership!MemberBounds PROVE Membership!Spec => []Membership!TypeOK
<1>1. Membership!Init => MemberInv
  <2> SUFFICES ASSUME Membership!Init PROVE MemberInv
    OBVIOUS
  <2>1. actor \in [Admin -> RequestRow] /\ LooksUp
    BY IdleTyped DEF Membership!Init, LooksUp
  <2>2. membership \in [Membership!User -> [role : {"none", "member", "admin"}, row : 0..MaxMemberships]]
    BY DEF Membership!Init, Membership!MemberBounds
  <2>3. HasTodo
    BY DEF Membership!Init, HasTodo
  <2>4. \A a \in Admin : actor[a] = Membership!Idle
    BY DEF Membership!Init
  <2>5. Membership!TypeOK
    BY <2>2, <2>4, IdleTyped DEF Membership!Init, Membership!TypeOK, RequestRow
  <2> QED
    BY <2>1, <2>3, <2>5 DEF MemberInv, MemberType
<1>2. MemberInv /\ AcceptanceInv' /\ [Membership!Next]_(Membership!memberVars) => MemberInv'
  <2> SUFFICES ASSUME MemberInv, AcceptanceInv', [Membership!Next]_(Membership!memberVars) PROVE MemberInv'
    OBVIOUS
  <2>1. CASE Membership!Register
    BY <2>1, TablesTyped DEF Membership!Register, MemberInv, MemberType, Membership!TypeOK, LooksUp, HasTodo
  <2>2. CASE UNCHANGED Membership!memberVars
    BY <2>2 DEF Membership!memberVars, MemberInv, MemberType, Membership!TypeOK, LooksUp, HasTodo, Membership!IsMember
  <2> QED
    BY <2>1, <2>2, AdminTyped, LoginTyped DEF Membership!Next
<1>3. Membership!Spec => []AcceptanceInv
  BY AcceptanceInvariant
<1>4. MemberInv => Membership!TypeOK
  BY DEF MemberInv, MemberType
<1> QED
  BY <1>1, <1>2, <1>3, <1>4, PTL DEF Membership!Spec

--------------------------------------------------------------------------------
(* The lease: why an expiration that ends a sandbox is due.                 *)

LEMMA LeaseBounded ==
  Ttl \in Nat \ {0} /\ MinLease \in Nat /\ MaxTime \in Nat /\ MaxEffects \in Nat
  BY Bounds DEF Bounds, Lease!LeaseBounds

(* Until a renewal performed late has lowered the native deadline, the      *)
(* deadlines are ordered: what was promised, what the row says, and what    *)
(* the provider keeps.                                                      *)
Deadlines == ~undercut => promised <= lease.expires /\ lease.expires <= native.deadline

LeaseShape ==
    /\ now \in Nat /\ promised \in Nat /\ undercut \in BOOLEAN
    /\ lease \in [status : {"running", "terminated"}, expires : Nat, provider : Nat]
    /\ effect \in [kind : {"none", "renew", "delete"}, id : Nat,
                   at : {"settled", "intent", "dispatched", "acknowledged", "uncertain"}, target : Nat]
    /\ native \in [alive : BOOLEAN, deadline : Nat, renewals : SUBSET [effect : Nat, target : Nat]]
    /\ client \in [Client -> [at : {"idle", "get", "dispatch", "answer", "finish", "wait", "fail"},
                              effect : Nat, seen : Nat]]
    /\ watch \in [at : {"idle", "lease", "apply", "recover"}, version : Nat,
                  alive : BOOLEAN, seen : Nat]

(* A request in flight belongs to an effect that has begun; while that one  *)
(* is not settled, it asks for its target.                                  *)
InFlight ==
    \A r \in native.renewals :
        /\ r.effect <= effect.id
        /\ ~Lease!Late(r) => effect.at # "intent" /\ r.target = effect.target

(* A renewal is driven by the request that was admitted, and nobody else;   *)
(* what the provider has performed for it stays.                            *)
Drives(c) == client[c].at \in {"get", "dispatch", "answer", "finish", "fail"} /\ Lease!Owns(c)
Driven(c) ==
    Drives(c) =>
      /\ client[c].at = "get" => effect.at = "intent"
      /\ client[c].at \in {"dispatch", "answer", "finish"} => effect.target = client[c].seen
      /\ client[c].at = "dispatch" /\ ~undercut => lease.expires <= client[c].seen
      /\ client[c].at \in {"answer", "finish"} => effect.at # "intent"
      /\ client[c].at = "answer" /\ ~undercut =>
           Lease!Sent(c) \in native.renewals \/ client[c].seen <= native.deadline
      /\ client[c].at = "finish" /\ ~undercut => client[c].seen <= native.deadline
Renewals ==
    /\ \A c \in Client : client[c].effect <= effect.id /\ Driven(c)
    /\ \A c, d \in Client : Drives(c) /\ Drives(d) => c = d
    /\ effect.kind = "renew" =>
         lease.status = "running" /\ (effect.at # "intent" /\ ~undercut => lease.expires <= effect.target)

(* What the scheduler saw is still so, or an effect has begun since.        *)
Watched ==
    /\ watch.at # "idle" => watch.version <= effect.id
    /\ watch.at \in {"lease", "apply"} /\ watch.version = effect.id => ~Lease!Busy
    /\ watch.at = "apply" /\ watch.version = effect.id /\ ~undercut =>
         lease.expires <= watch.seen /\ watch.seen <= native.deadline
    /\ watch.at = "recover" /\ watch.version = effect.id /\ Lease!Busy =>
         /\ effect.kind = "renew" /\ effect.at # "intent"
         /\ effect.target <= watch.seen /\ ~undercut => effect.target <= native.deadline

LeaseInv == LeaseShape /\ Deadlines /\ InFlight /\ Renewals /\ Watched

LEMMA LeaseInitially == Lease!Init => LeaseInv
<1> SUFFICES ASSUME Lease!Init PROVE LeaseInv
  OBVIOUS
<1> USE LeaseBounded DEF Lease!Init, Lease!NoEffect, Lease!IdleClient, Lease!IdleWatch, Lease!None, Lease!LeaseMax
<1>1. now \in Nat /\ promised \in Nat /\ watch \in [at : {"idle", "lease", "apply", "recover"}, version : Nat, alive : BOOLEAN, seen : Nat]
  OBVIOUS
<1>2. /\ lease \in [status : {"running", "terminated"}, expires : Nat, provider : Nat]
      /\ native \in [alive : BOOLEAN, deadline : Nat, renewals : SUBSET [effect : Nat, target : Nat]]
  OBVIOUS
<1>3. undercut \in BOOLEAN
  BY Zenon
<1>4. LeaseShape
  BY <1>1, <1>2, <1>3 DEF LeaseShape
<1>5. Deadlines /\ InFlight /\ Watched
  BY DEF Deadlines, InFlight, Watched
<1>6. Renewals
  BY DEF Renewals, Driven, Drives, Lease!Owns
<1> QED
  BY <1>4, <1>5, <1>6 DEF LeaseInv

LEMMA LeaseStep == ASSUME LeaseInv, [Lease!Next]_(Lease!leaseVars) PROVE LeaseInv'
<1> USE LeaseBounded DEF Lease!None
<1>0. LeaseShape /\ Deadlines /\ InFlight /\ Renewals /\ Watched
  BY DEF LeaseInv
<1> USE <1>0 DEF LeaseInv, LeaseShape, Deadlines, InFlight, Renewals, Driven, Drives, Lease!Owns, Watched, Lease!Busy,
                 Lease!Late, Lease!Sent, Lease!history
<1>1. ASSUME NEW c \in Client, Lease!AdmitRenewal(c) PROVE LeaseInv'
  <2>1. /\ effect' = [kind |-> "renew", id |-> effect.id + 1, at |-> "intent", target |-> 0]
        /\ client' = [client EXCEPT ![c] = [at |-> "get", effect |-> effect.id + 1, seen |-> 0]]
        /\ UNCHANGED <<now, lease, native, watch, promised, undercut>>
        /\ client[c].at = "idle" /\ lease.status = "running"
    BY <1>1 DEF Lease!AdmitRenewal, Lease!Begin
  <2>2. /\ effect'.kind = "renew" /\ effect'.id = effect.id + 1 /\ effect'.at = "intent"
        /\ client'[c].at = "get" /\ client'[c].effect = effect.id + 1
        /\ \A d \in Client : d # c => client'[d] = client[d]
    BY <2>1
  <2>3. LeaseShape'
    BY <2>1
  <2>4. Deadlines' /\ InFlight' /\ Watched'
    BY <2>1, <2>2
  <2>5. ASSUME NEW d \in Client, d # c PROVE client'[d].effect <= effect.id /\ ~Drives(d)'
    <3> HIDE DEF Driven, InFlight, Deadlines, Watched
    <3>1. client'[d] = client[d] /\ client[d].effect \in Nat /\ effect.id \in Nat
      BY <2>2, <2>5
    <3>2. client[d].effect <= effect.id
      OBVIOUS
    <3>3. client'[d].effect # effect'.id
      BY <2>2, <3>1, <3>2
    <3> QED
      BY <3>1, <3>2, <3>3
  <2>6. \A d \in Client : client'[d].effect <= effect'.id /\ Driven(d)'
    <3>1. Driven(c)' /\ client'[c].effect <= effect'.id
      BY <2>2
    <3> QED
      BY <2>2, <2>5, <3>1
  <2> QED
    BY <2>1, <2>2, <2>3, <2>4, <2>5, <2>6
<1>2. ASSUME NEW c \in Client, Lease!Coalesce(c) PROVE LeaseInv'
  BY <1>2 DEF Lease!Coalesce
<1>3. ASSUME NEW c \in Client, Lease!ReadRuntime(c) PROVE LeaseInv'
  <2> DEFINE asking == Lease!LeaseMax(now + Ttl, Lease!effectiveDeadline(native.deadline))
  <2>1. asking \in Nat /\ (~undercut => lease.expires <= asking)
    BY DEF Lease!effectiveDeadline, Lease!LeaseMin, Lease!LeaseMax
  <2>2. ASSUME NEW wanted \in Nat, ~undercut => lease.expires <= wanted,
               effect' = IF Lease!Owns(c) THEN [effect EXCEPT !.target = wanted] ELSE effect,
               client' = [client EXCEPT ![c].at = "dispatch", ![c].seen = wanted]
        PROVE  LeaseInv'
    <3>1. /\ effect'.kind = effect.kind /\ effect'.id = effect.id /\ effect'.at = effect.at
          /\ effect'.target = IF Lease!Owns(c) THEN wanted ELSE effect.target
          /\ UNCHANGED <<now, lease, native, watch, promised, undercut>> /\ client[c].at = "get"
      BY <1>3, <2>2 DEF Lease!ReadRuntime
    <3>2. LeaseShape'
      <4>1. [effect EXCEPT !.target = wanted] \in [kind : {"none", "renew", "delete"}, id : Nat,
                  at : {"settled", "intent", "dispatched", "acknowledged", "uncertain"}, target : Nat]
        BY <2>2
      <4>2. effect' \in [kind : {"none", "renew", "delete"}, id : Nat,
                  at : {"settled", "intent", "dispatched", "acknowledged", "uncertain"}, target : Nat]
        BY <2>2, <4>1
      <4> HIDE DEF Deadlines, InFlight, Renewals, Driven, Drives, Watched, Lease!Owns, Lease!Busy
      <4>3. client' \in [Client -> [at : {"idle", "get", "dispatch", "answer", "finish", "wait", "fail"},
                                    effect : Nat, seen : Nat]]
        BY <2>2
      <4>4. UNCHANGED <<now, lease, native, watch, promised, undercut>>
        BY <3>1
      <4> QED
        BY <4>2, <4>3, <4>4
    <3>3. Lease!Owns(c) => effect.at = "intent"
      BY <3>1
    <3>5. Deadlines' /\ InFlight' /\ Watched'
      BY <3>1, <3>3
    <3>4. Renewals'
      BY <2>2, <3>1, <3>2
    <3> QED
      BY <3>2, <3>4, <3>5
  <2>3. ASSUME client' = [client EXCEPT ![c].at = "fail"], UNCHANGED effect PROVE LeaseInv'
    BY <1>3, <2>3 DEF Lease!ReadRuntime
  <2> HIDE DEF asking
  <2> QED
    BY <1>3, <2>1, <2>2, <2>3 DEF Lease!ReadRuntime, asking
<1>4. ASSUME NEW c \in Client, Lease!Dispatch(c) PROVE LeaseInv'
  <2>1. CASE Lease!Owns(c) /\ effect.at = "intent"
    <3>1. /\ effect' = [effect EXCEPT !.at = "dispatched"] /\ native' = [native EXCEPT !.renewals = @ \cup {Lease!Sent(c)}]
          /\ client' = [client EXCEPT ![c].at = "answer"] /\ client[c].at = "dispatch"
          /\ UNCHANGED <<now, lease, watch, promised, undercut>>
      BY <1>4, <2>1 DEF Lease!Dispatch
    <3>2. /\ Lease!Sent(c) \in [effect : Nat, target : Nat]
          /\ Lease!Sent(c).effect = effect.id /\ Lease!Sent(c).target = effect.target
      BY <2>1, <3>1
    <3>3. /\ native'.renewals = native.renewals \cup {Lease!Sent(c)} /\ native'.deadline = native.deadline
          /\ effect'.kind = effect.kind /\ effect'.id = effect.id /\ effect'.target = effect.target
          /\ effect'.at = "dispatched" /\ client'[c].at = "answer"
          /\ client'[c].effect = client[c].effect /\ client'[c].seen = client[c].seen
          /\ \A d \in Client : d # c => client'[d] = client[d]
      BY <3>1
    <3>4. LeaseShape'
      BY <3>1, <3>2
    <3>5. InFlight'
      BY <2>1, <3>2, <3>3
    <3>6. Deadlines' /\ Watched'
      BY <3>1, <3>3
    <3>7. \A d \in Client : Drives(d)' <=> Drives(d)
      BY <3>1, <3>3
    <3>8. Lease!Sent(c)' = Lease!Sent(c) /\ \A d \in Client : d # c => Lease!Sent(d)' = Lease!Sent(d)
      BY <3>3
    <3>9. \A d \in Client : Driven(d)'
      BY <2>1, <3>1, <3>3, <3>7, <3>8
    <3> QED
      BY <2>1, <3>1, <3>3, <3>4, <3>5, <3>6, <3>7, <3>9
  <2>2. CASE ~(Lease!Owns(c) /\ effect.at = "intent")
    BY <1>4, <2>2 DEF Lease!Dispatch
  <2> QED
    BY <2>1, <2>2
<1>5. ASSUME NEW c \in Client, Lease!Answer(c) PROVE LeaseInv'
  BY <1>5 DEF Lease!Answer, Lease!IdleClient
<1>6. ASSUME NEW c \in Client, Lease!FinishRenewal(c) PROVE LeaseInv'
  <2>1. CASE Lease!Owns(c) /\ lease' = [lease EXCEPT !.expires = effect.target, !.provider = effect.target]
             /\ promised' = Lease!LeaseMax(promised, effect.target) /\ effect' = Lease!NoEffect(effect.id)
             /\ client' = [client EXCEPT ![c] = Lease!IdleClient]
    <3>1. /\ lease'.expires = effect.target /\ lease'.provider = effect.target
          /\ lease'.status = lease.status
          /\ ~undercut => lease.expires <= effect.target /\ effect.target <= native.deadline
          /\ UNCHANGED <<native, watch, undercut>> /\ effect'.kind = "none" /\ effect'.id = effect.id
      BY <1>6, <2>1 DEF Lease!FinishRenewal, Lease!NoEffect
    <3>2. LeaseShape'
      BY <1>6, <2>1 DEF Lease!FinishRenewal, Lease!NoEffect, Lease!IdleClient, Lease!LeaseMax
    <3>3. Deadlines'
      BY <1>6, <2>1, <3>1 DEF Lease!FinishRenewal, Lease!LeaseMax
    <3>7. \A d \in Client : ~Drives(d)' /\ Driven(d)'
      BY <3>1
    <3> HIDE DEF Driven, Drives
    <3>8. \A d \in Client : client'[d].effect <= effect'.id
      BY <2>1, <3>1 DEF Lease!IdleClient
    <3>4. Renewals'
      BY <3>1, <3>7, <3>8
    <3>5. Watched'
      BY <1>6, <2>1, <3>1 DEF Lease!FinishRenewal, Lease!NoEffect
    <3>6. InFlight'
      BY <3>1
    <3> QED
      BY <3>2, <3>3, <3>4, <3>5, <3>6
  <2>2. CASE /\ UNCHANGED <<lease, promised>>
             /\ effect' = IF Lease!Owns(c) THEN [effect EXCEPT !.at = "uncertain"] ELSE effect
    <3>1. LeaseShape'
      <4>1. effect' \in [kind : {"none", "renew", "delete"}, id : Nat,
                        at : {"settled", "intent", "dispatched", "acknowledged", "uncertain"}, target : Nat]
        BY <2>2
      <4>2. client' \in [Client -> [at : {"idle", "get", "dispatch", "answer", "finish", "wait", "fail"}, effect : Nat, seen : Nat]]
        BY <1>6 DEF Lease!FinishRenewal, Lease!IdleClient
      <4> QED
        BY <1>6, <2>2, <4>1, <4>2 DEF Lease!FinishRenewal
    <3>2. /\ effect'.kind = effect.kind /\ effect'.id = effect.id /\ effect'.target = effect.target
          /\ effect' = effect \/ (Drives(c) /\ effect'.at = "uncertain")
      BY <1>6, <2>2 DEF Lease!FinishRenewal
    <3>3. client' = [client EXCEPT ![c] = Lease!IdleClient] /\ UNCHANGED <<now, native, watch, undercut>>
      BY <1>6 DEF Lease!FinishRenewal
    <3>4. client'[c].at = "idle" /\ client'[c].effect = 0 /\ \A d \in Client : d # c => client'[d] = client[d]
      BY <3>3 DEF Lease!IdleClient
    <3>5. Deadlines' /\ InFlight' /\ Watched'
      BY <1>6, <2>2, <3>2, <3>3 DEF Lease!FinishRenewal
    <3>6. \A d \in Client : client'[d].effect <= effect'.id /\ Driven(d)' /\ (Drives(d)' => Drives(d))
      <4>1. ASSUME NEW d \in Client, d # c PROVE Drives(d) => effect' = effect
        BY <3>2, <4>1
      <4>2. ASSUME NEW d \in Client, d # c PROVE client'[d].effect <= effect'.id /\ Driven(d)' /\ (Drives(d)' => Drives(d))
        BY <2>2, <3>2, <3>3, <3>4, <4>1, <4>2
      <4>3. client'[c].effect <= effect'.id /\ ~Drives(c)'
        BY <3>2, <3>4
      <4> QED
        BY <4>2, <4>3
    <3>7. effect.at # "intent" \/ effect' = effect
      BY <1>6, <3>2 DEF Lease!FinishRenewal
    <3>8. effect'.at # "intent" => effect.at # "intent"
      BY <3>7
    <3> HIDE DEF Driven, Drives
    <3>9. Renewals'
      BY <2>2, <3>2, <3>3, <3>6, <3>8
    <3> QED
      BY <3>1, <3>5, <3>9
  <2> QED
    BY <1>6, <2>1, <2>2 DEF Lease!FinishRenewal, Lease!PersistDeadline
<1>7. ASSUME NEW c \in Client, Lease!FailRenewal(c) PROVE LeaseInv'
  BY <1>7 DEF Lease!FailRenewal, Lease!NoEffect, Lease!IdleClient
<1>8. ASSUME NEW c \in Client, Lease!CoalescedAnswer(c) PROVE LeaseInv'
  BY <1>8 DEF Lease!CoalescedAnswer, Lease!IdleClient, Lease!LeaseMax
<1>9. ASSUME NEW c \in Client, Lease!Crash(c) PROVE LeaseInv'
  BY <1>9 DEF Lease!Crash, Lease!IdleClient
<1>10. CASE Lease!ReadLease
  <2>1. /\ watch'.at = "lease" /\ watch'.version = effect.id
        /\ UNCHANGED <<now, lease, effect, native, client, promised, undercut>> /\ ~Lease!Busy
    BY <1>10 DEF Lease!ReadLease, Lease!IdleWatch
  <2>2. LeaseShape'
    BY <1>10 DEF Lease!ReadLease, Lease!IdleWatch
  <2> QED
    BY <2>1, <2>2
<1>11. CASE Lease!Look
  <2>1. /\ watch'.at = "apply" /\ watch'.version = watch.version /\ watch'.seen = native.deadline
        /\ UNCHANGED <<now, lease, effect, native, client, promised, undercut>>
    BY <1>11 DEF Lease!Look
  <2>2. LeaseShape'
    BY <1>11 DEF Lease!Look
  <2> QED
    BY <1>11, <2>1, <2>2 DEF Lease!Look
<1>12. CASE Lease!ApplyLease
  <2>0. watch'.at = "idle" /\ UNCHANGED <<now, native, client, promised, undercut>>
    BY <1>12 DEF Lease!ApplyLease, Lease!IdleWatch
  <2>1. CASE UNCHANGED <<lease, effect>>
    BY <1>12, <2>0, <2>1 DEF Lease!ApplyLease, Lease!IdleWatch
  <2>2. CASE watch.at = "apply" /\ ~Lease!Busy /\ effect.id = watch.version /\ Lease!Apply
    <3>1. CASE ~watch.alive
      <4>1. lease'.expires = lease.expires /\ lease'.provider = lease.provider /\ effect' = effect
        BY <2>2, <3>1 DEF Lease!Apply
      <4>2. LeaseShape'
        BY <1>12, <2>2, <3>1 DEF Lease!ApplyLease, Lease!Apply, Lease!IdleWatch
      <4> QED
        BY <2>0, <2>2, <4>1, <4>2
    <3>2. CASE watch.alive
      <4> DEFINE deadline == Lease!effectiveDeadline(watch.seen)
      <4>1. deadline \in Nat /\ deadline <= watch.seen /\ (~undercut => lease.expires <= deadline)
        BY <2>2 DEF Lease!effectiveDeadline, Lease!LeaseMin
      <4>2. lease' = [lease EXCEPT !.expires = deadline, !.provider = watch.seen]
        BY <2>2, <3>2 DEF Lease!Apply
      <4>3. effect' = effect \/ (effect'.kind = "delete" /\ effect'.id = effect.id + 1)
        BY <2>2, <3>2 DEF Lease!Apply, Lease!Begin
      <4> HIDE DEF deadline
      <4>4. LeaseShape'
        <5>1. lease' \in [status : {"running", "terminated"}, expires : Nat, provider : Nat]
          BY <4>1, <4>2
        <5>2. effect' \in [kind : {"none", "renew", "delete"}, id : Nat,
                at : {"settled", "intent", "dispatched", "acknowledged", "uncertain"}, target : Nat]
          BY <2>2, <3>2 DEF Lease!Apply, Lease!Begin
        <5>3. watch' = Lease!IdleWatch
          BY <1>12 DEF Lease!ApplyLease
        <5> QED
          BY <2>0, <5>1, <5>2, <5>3 DEF Lease!IdleWatch
      <4>5. lease'.expires = deadline /\ lease'.status = lease.status
        BY <4>2
      <4>6. Deadlines'
        BY <2>0, <2>2, <4>1, <4>5
      <4>7. InFlight'
        BY <2>0, <2>2, <4>3
      <4>8. Renewals' /\ Watched'
        BY <2>0, <2>2, <4>3, <4>4
      <4> QED
        BY <4>4, <4>6, <4>7, <4>8
    <3> QED
      BY <3>1, <3>2
  <2> QED
    BY <1>12, <2>1, <2>2 DEF Lease!ApplyLease
<1>13. CASE Lease!CancelUndispatched
  BY <1>13 DEF Lease!CancelUndispatched, Lease!NoEffect
<1>14. CASE Lease!ReadRenewal
  BY <1>14 DEF Lease!ReadRenewal
<1>15. CASE Lease!FinishObservedRenewal
  <2>0. watch'.at = "idle" /\ UNCHANGED <<now, native, client, promised, undercut>>
    BY <1>15 DEF Lease!FinishObservedRenewal, Lease!IdleWatch
  <2>1. CASE UNCHANGED <<lease, effect>>
    BY <1>15, <2>0, <2>1 DEF Lease!FinishObservedRenewal, Lease!IdleWatch
  <2>2. CASE /\ watch.at = "recover" /\ Lease!Busy /\ effect.id = watch.version /\ watch.seen >= effect.target
             /\ Lease!PersistDeadline(effect.target) /\ effect' = Lease!NoEffect(effect.id)
    <3>1. /\ lease'.expires = effect.target /\ lease'.provider = effect.target
          /\ ~undercut => lease.expires <= effect.target /\ effect.target <= native.deadline
      BY <2>2 DEF Lease!PersistDeadline
    <3>2. LeaseShape'
      BY <1>15, <2>2 DEF Lease!FinishObservedRenewal, Lease!PersistDeadline, Lease!NoEffect, Lease!IdleWatch
    <3>3. effect'.kind = "none" /\ effect'.id = effect.id
      BY <2>2 DEF Lease!NoEffect
    <3>4. Deadlines' /\ InFlight'
      BY <2>0, <2>2, <3>1, <3>3
    <3>5. Renewals' /\ Watched'
      BY <2>0, <2>2, <3>1, <3>3
    <3> QED
      BY <3>2, <3>4, <3>5
  <2> QED
    BY <1>15, <2>1, <2>2 DEF Lease!FinishObservedRenewal
<1>16. CASE Lease!WatchFails
  BY <1>16 DEF Lease!WatchFails, Lease!IdleWatch
<1>17. CASE Lease!DeleteRuntime
  BY <1>17 DEF Lease!DeleteRuntime, Lease!NoEffect
<1>18. ASSUME NEW r \in native.renewals, Lease!PerformRenewal(r) PROVE LeaseInv'
  <2>1. /\ native'.renewals = native.renewals \ {r} /\ native'.deadline = r.target /\ native'.alive = native.alive
        /\ undercut' = (undercut \/ (Lease!Late(r) /\ r.target < native.deadline))
        /\ UNCHANGED <<now, lease, effect, client, watch, promised>>
    BY <1>18 DEF Lease!PerformRenewal
  <2>2. LeaseShape'
    BY <1>18 DEF Lease!PerformRenewal
  <2>3. InFlight'
    BY <2>1
  <2>4. ~undercut' => ~undercut /\ (native.deadline <= native'.deadline \/ (~Lease!Late(r) /\ native'.deadline = effect.target))
    <3> SUFFICES ASSUME ~undercut'
                 PROVE  ~undercut /\ (native.deadline <= native'.deadline \/ (~Lease!Late(r) /\ native'.deadline = effect.target))
      OBVIOUS
    <3>1. ~undercut /\ ~(Lease!Late(r) /\ r.target < native.deadline)
      BY <2>1, Zenon
    <3>2. ~(r.target < native.deadline) => native.deadline <= r.target
      BY DEF LeaseShape
    <3>3. ~Lease!Late(r) => r.target = effect.target
      BY DEF InFlight
    <3>4. native'.deadline = r.target
      BY <2>1
    <3> HIDE <1>0 DEF Lease!Late
    <3>5. CASE Lease!Late(r)
      <4>1. native.deadline <= r.target
        BY <3>1, <3>2, <3>5
      <4> QED
        BY <3>1, <3>4, <4>1
    <3>6. CASE ~Lease!Late(r)
      BY <3>1, <3>3, <3>4, <3>6, Zenon
    <3> QED
      BY <3>5, <3>6
  <2>5. Deadlines'
    BY <2>1, <2>4
  <2>6. Watched'
    BY <2>1, <2>4
  <2>7. ASSUME NEW c \in Client PROVE Driven(c)' /\ (Drives(c)' <=> Drives(c))
    BY <2>1, <2>4
  <2> QED
    BY <2>1, <2>2, <2>3, <2>4, <2>5, <2>6, <2>7
<1>20. CASE Lease!NativeExpiry
  <2>1. /\ native'.renewals = native.renewals /\ native'.deadline = native.deadline
        /\ UNCHANGED <<now, lease, effect, client, watch, promised, undercut>>
    BY <1>20 DEF Lease!NativeExpiry
  <2>2. LeaseShape'
    BY <1>20 DEF Lease!NativeExpiry
  <2> QED
    BY <2>1, <2>2
<1>21. CASE Lease!Tick
  BY <1>21 DEF Lease!Tick
<1>22. CASE UNCHANGED Lease!leaseVars
  BY <1>22 DEF Lease!leaseVars
<1> QED
  BY <1>1, <1>2, <1>3, <1>4, <1>5, <1>6, <1>7, <1>8, <1>9, <1>10, <1>11, <1>12, <1>13, <1>14, <1>15,
     <1>16, <1>17, <1>18, <1>20, <1>21, <1>22 DEF Lease!Next

LEMMA ExpiryIsDue ==
  ASSUME LeaseInv, Lease!Next
  PROVE  /\ effect.kind = "none" /\ effect'.kind = "delete" => now >= promised \/ undercut
         /\ lease.status = "terminated" => lease'.status = "terminated" /\ promised' = promised
<1> USE LeaseBounded DEF LeaseInv, LeaseShape, Deadlines, Lease!history
<1>1. ASSUME NEW c \in Client,
             \/ Lease!AdmitRenewal(c) \/ Lease!Coalesce(c) \/ Lease!ReadRuntime(c) \/ Lease!Dispatch(c) \/ Lease!Answer(c)
             \/ Lease!FailRenewal(c) \/ Lease!CoalescedAnswer(c) \/ Lease!Crash(c)
      PROVE  /\ ~(effect.kind = "none" /\ effect'.kind = "delete")
             /\ lease' = lease /\ (lease.status = "terminated" => promised' = promised)
  BY <1>1 DEF Lease!AdmitRenewal, Lease!Begin, Lease!Coalesce, Lease!ReadRuntime, Lease!Dispatch, Lease!Answer, Lease!FailRenewal, Lease!CoalescedAnswer,
     Lease!Crash, Lease!NoEffect, Lease!Owns
<1>2. ASSUME NEW c \in Client, Lease!FinishRenewal(c)
      PROVE  /\ ~(effect.kind = "none" /\ effect'.kind = "delete")
             /\ lease'.status = lease.status /\ (lease.status = "terminated" => promised' = promised)
  BY <1>2 DEF Lease!FinishRenewal, Lease!PersistDeadline, Lease!NoEffect, Lease!Owns, Renewals
<1>3. CASE Lease!ApplyLease
  <2>1. promised' = promised
    BY <1>3 DEF Lease!ApplyLease
  <2>2. CASE UNCHANGED <<lease, effect>>
    BY <2>1, <2>2
  <2>3. CASE watch.at = "apply" /\ ~Lease!Busy /\ effect.id = watch.version /\ Lease!Apply
    <3>1. ~undercut => promised <= Lease!effectiveDeadline(watch.seen)
      BY <2>3 DEF Lease!effectiveDeadline, Lease!LeaseMin, Watched
    <3>2. effect'.kind = "delete" => Lease!effectiveDeadline(watch.seen) <= now
      BY <2>3, <3>1 DEF Lease!Apply, Lease!Busy
    <3>3. lease.status = "terminated" => lease'.status = "terminated"
      BY <2>3 DEF Lease!Apply
    <3>4. effect'.kind = "delete" /\ ~undercut => now >= promised
      <4>1. Lease!effectiveDeadline(watch.seen) \in Nat
        BY DEF Lease!effectiveDeadline, Lease!LeaseMin
      <4> QED
        BY <3>1, <3>2, <4>1
    <3> QED
      BY <2>1, <3>3, <3>4
  <2> QED
    BY <1>3, <2>2, <2>3 DEF Lease!ApplyLease
<1>4. CASE \/ Lease!ReadLease \/ Lease!Look \/ Lease!CancelUndispatched \/ Lease!ReadRenewal \/ Lease!FinishObservedRenewal
           \/ Lease!WatchFails \/ Lease!DeleteRuntime \/ Lease!NativeExpiry \/ Lease!Tick
           \/ \E r \in native.renewals : Lease!PerformRenewal(r)
  BY <1>4 DEF Lease!ReadLease, Lease!Look, Lease!CancelUndispatched, Lease!ReadRenewal, Lease!FinishObservedRenewal, Lease!WatchFails,
     Lease!DeleteRuntime, Lease!PerformRenewal, Lease!NativeExpiry, Lease!Tick, Lease!PersistDeadline, Lease!NoEffect, Lease!Busy
<1> QED
  BY <1>1, <1>2, <1>3, <1>4 DEF Lease!Next

--------------------------------------------------------------------------------
(* The cutover: what a slot says of its sandbox while both versions run.   *)

(* What a slot of the new version and a request of the old one say of a    *)
(* sandbox while both run.                                                 *)
Counted(s) ==
    /\ record[s].hold \in {"held", "released"} => ~writers
    /\ executor[s] = "requested" => writers
    /\ record[s].busy # "no" => ~writers
    /\ record[s].busy = "resume" => record[s].hold = "held"
    /\ record[s].hold = "released" => executor[s] \in {"none", "paused", "gone"}

(* The limit is enforced only over rows that have been classified.         *)
Enforcing ==
    /\ capacity = "old" => writers
    /\ capacity = "enforced" => ~writers /\ \A s \in Inventory!Rows : record[s].hold \in {"held", "released"}

(* The tool applies what it saw of a row only while the row is unchanged:  *)
(* an unchanged row has begun nothing since, so what was seen is still so. *)
Fenced == record[tool.of].version = tool.version
Sighted ==
    /\ tool.at # "idle" => ~writers
    /\ tool.at \in {"get", "apply"} =>
         /\ tool.of \in Legacy /\ tool.version \leq record[tool.of].version
         /\ tool.action # "unresolved" /\ Fenced => record[tool.of].busy = "no"
    /\ tool.at = "apply" =>
         /\ tool.action # "none"
         /\ tool.action = "absent" => executor[tool.of] \in {"none", "gone"}
         /\ tool.action = "suspended" /\ Fenced => executor[tool.of] \in {"paused", "gone"}

CutoverInv == Inventory!TypeOK /\ (\A s \in Legacy : Counted(s)) /\ Enforcing /\ Sighted

LEMMA RecordFields ==
  ASSUME Inventory!TypeOK
  PROVE  /\ \A s \in Legacy : /\ record[s].exists \in BOOLEAN /\ record[s].version \in Nat
                              /\ record[s].hold \in {"none", "legacy", "held", "released"}
                              /\ executor[s] \in {"none", "requested", "live", "paused", "gone"}
         /\ writers \in BOOLEAN /\ tool.version \in Nat
         /\ tool.action \in {"none", "hold", "absent", "suspended", "unresolved"}
  BY DEF Inventory!TypeOK, Inventory!Record, Inventory!Tool

LEMMA InventoryTypeKept == ASSUME Inventory!InventoryBound, Inventory!TypeOK, [Inventory!Next]_(Inventory!inventoryVars) PROVE Inventory!TypeOK'
<1>1. capacity \in {"old", "reconciling", "quarantined", "enforced"}
  BY DEF Inventory!TypeOK
<1>2. writers \in BOOLEAN
  BY DEF Inventory!TypeOK
<1>3. record \in [Legacy -> Inventory!Record]
  BY DEF Inventory!TypeOK
<1>4. executor \in [Legacy -> {"none", "requested", "live", "paused", "gone"}]
  BY DEF Inventory!TypeOK
<1>5. tool \in Inventory!Tool
  BY DEF Inventory!TypeOK
<1>6. ASSUME NEW s \in Legacy, Inventory!OldInsert(s) PROVE Inventory!TypeOK'
  <2>1. record' \in [Legacy -> Inventory!Record]
    <3>1. record' = [record EXCEPT ![s] = [Inventory!NoRecord EXCEPT !.exists = TRUE]]
      BY <1>6 DEF Inventory!OldInsert
    <3>2. 0 \in 0..MaxVersions
      BY DEF Inventory!InventoryBound
    <3>3. [Inventory!NoRecord EXCEPT !.exists = TRUE] \in Inventory!Record
      BY <3>2, ZenonT(60) DEF Inventory!NoRecord, Inventory!Record
    <3> QED
      BY <3>1, <3>3, <1>3, ZenonT(60)
  <2>2. UNCHANGED <<capacity, writers, executor, tool>>
    BY <1>6 DEF Inventory!OldInsert
  <2> QED
    BY <1>1, <1>2, <1>3, <1>4, <1>5, <2>1, <2>2 DEF Inventory!TypeOK
<1>7. ASSUME NEW s \in Legacy, Inventory!OldRequest(s) PROVE Inventory!TypeOK'
  <2>1. executor' \in [Legacy -> {"none", "requested", "live", "paused", "gone"}]
    BY <1>7, <1>4, ZenonT(60) DEF Inventory!OldRequest
  <2>2. UNCHANGED <<capacity, writers, record, tool>>
    BY <1>7 DEF Inventory!OldRequest
  <2> QED
    BY <1>1, <1>2, <1>3, <1>4, <1>5, <2>1, <2>2 DEF Inventory!TypeOK
<1>8. ASSUME NEW s \in Legacy, Inventory!OldRecord(s) PROVE Inventory!TypeOK'
  <2>1. record' \in [Legacy -> Inventory!Record]
    BY <1>8, <1>3, ZenonT(60) DEF Inventory!OldRecord, Inventory!Record
  <2>2. UNCHANGED <<capacity, writers, executor, tool>>
    BY <1>8 DEF Inventory!OldRecord
  <2> QED
    BY <1>1, <1>2, <1>3, <1>4, <1>5, <2>1, <2>2 DEF Inventory!TypeOK
<1>9. ASSUME NEW s \in Legacy, Inventory!OldPause(s) PROVE Inventory!TypeOK'
  <2>1. record' \in [Legacy -> Inventory!Record]
    <3>1. PICK said \in {"paused", record[s].status} : record' = [record EXCEPT ![s].status = said]
      BY <1>9 DEF Inventory!OldPause
    <3>2. record[s].status \in {"pending", "running", "paused", "terminated"}
      BY <1>3, ZenonT(60) DEF Inventory!Record
    <3>3. said \in {"pending", "running", "paused", "terminated"}
      BY <3>2
    <3> QED
      BY <3>1, <3>3, <1>3, ZenonT(60) DEF Inventory!Record
  <2>2. executor' \in [Legacy -> {"none", "requested", "live", "paused", "gone"}]
    BY <1>9, <1>4, ZenonT(60) DEF Inventory!OldPause
  <2>3. UNCHANGED <<capacity, writers, tool>>
    BY <1>9 DEF Inventory!OldPause
  <2> QED
    BY <1>1, <1>2, <1>3, <1>4, <1>5, <2>1, <2>2, <2>3 DEF Inventory!TypeOK
<1>10. ASSUME Inventory!Migrate PROVE Inventory!TypeOK'
  <2>1. capacity' \in {"old", "reconciling", "quarantined", "enforced"}
    BY <1>10, <1>1, ZenonT(60) DEF Inventory!Migrate
  <2>2. record' \in [Legacy -> Inventory!Record]
    BY <1>10, <1>3, ZenonT(60) DEF Inventory!Migrate, Inventory!Record
  <2>3. UNCHANGED <<writers, executor, tool>>
    BY <1>10 DEF Inventory!Migrate
  <2> QED
    BY <1>1, <1>2, <1>3, <1>4, <1>5, <2>1, <2>2, <2>3 DEF Inventory!TypeOK
<1>11. ASSUME Inventory!StopWriters PROVE Inventory!TypeOK'
  <2>1. writers' \in BOOLEAN
    BY <1>11, <1>2, ZenonT(60) DEF Inventory!StopWriters
  <2>2. UNCHANGED <<capacity, record, executor, tool>>
    BY <1>11 DEF Inventory!StopWriters
  <2> QED
    BY <1>1, <1>2, <1>3, <1>4, <1>5, <2>1, <2>2 DEF Inventory!TypeOK
<1>12. ASSUME NEW s \in Legacy, Inventory!NewBegin(s) PROVE Inventory!TypeOK'
  <2>1. record' \in [Legacy -> Inventory!Record]
    <3>1. /\ record[s].version \in 0..MaxVersions /\ record[s].version < MaxVersions
          /\ record[s] \in Inventory!Record
      BY <1>12, <1>3 DEF Inventory!NewBegin, Inventory!Record
    <3>2. record[s].version + 1 \in 0..MaxVersions
      BY <3>1 DEF Inventory!InventoryBound
    <3>3. \A busy \in {"resume", "pause", "delete"} : Inventory!Effect(s, busy) \in Inventory!Record
      BY <3>1, <3>2, ZenonT(60) DEF Inventory!Effect, Inventory!Record
    <3>4. PICK b \in {"resume", "pause", "delete"} :
             \/ record' = [record EXCEPT ![s] = Inventory!Effect(s, b)]
             \/ record' = [record EXCEPT ![s] = [Inventory!Effect(s, b) EXCEPT !.hold = "held"]]
      BY <1>12 DEF Inventory!NewBegin
    <3>5. Inventory!Effect(s, b) \in Inventory!Record /\ [Inventory!Effect(s, b) EXCEPT !.hold = "held"] \in Inventory!Record
      BY <3>3, ZenonT(60) DEF Inventory!Record
    <3> QED
      BY <3>4, <3>5, <1>3, ZenonT(60)
  <2>2. UNCHANGED <<capacity, writers, executor, tool>>
    BY <1>12 DEF Inventory!NewBegin
  <2> QED
    BY <1>1, <1>2, <1>3, <1>4, <1>5, <2>1, <2>2 DEF Inventory!TypeOK
<1>13. ASSUME NEW s \in Legacy, Inventory!NewPerform(s) PROVE Inventory!TypeOK'
  <2>1. executor' \in [Legacy -> {"none", "requested", "live", "paused", "gone"}]
    BY <1>13, <1>4, ZenonT(60) DEF Inventory!NewPerform
  <2>2. UNCHANGED <<capacity, writers, record, tool>>
    BY <1>13 DEF Inventory!NewPerform
  <2> QED
    BY <1>1, <1>2, <1>3, <1>4, <1>5, <2>1, <2>2 DEF Inventory!TypeOK
<1>14. ASSUME NEW s \in Legacy, Inventory!NewFinish(s) PROVE Inventory!TypeOK'
  <2>1. record' \in [Legacy -> Inventory!Record]
    <3>1. \/ record' = [record EXCEPT ![s] = [@ EXCEPT !.busy = "no", !.status = "paused", !.hold = "released"]]
          \/ record' = [record EXCEPT ![s] = [@ EXCEPT !.busy = "no", !.status = "running"]]
          \/ record' = [record EXCEPT ![s] = [@ EXCEPT !.busy = "no", !.status = "terminated", !.hold = "released"]]
      BY <1>14 DEF Inventory!NewFinish
    <3>2. CASE record' = [record EXCEPT ![s] = [@ EXCEPT !.busy = "no", !.status = "paused", !.hold = "released"]]
      BY <3>2, <1>3, ZenonT(60) DEF Inventory!Record
    <3>3. CASE record' = [record EXCEPT ![s] = [@ EXCEPT !.busy = "no", !.status = "running"]]
      BY <3>3, <1>3, ZenonT(60) DEF Inventory!Record
    <3>4. CASE record' = [record EXCEPT ![s] = [@ EXCEPT !.busy = "no", !.status = "terminated", !.hold = "released"]]
      BY <3>4, <1>3, ZenonT(60) DEF Inventory!Record
    <3> QED
      BY <3>1, <3>2, <3>3, <3>4
  <2>2. UNCHANGED <<capacity, writers, executor, tool>>
    BY <1>14 DEF Inventory!NewFinish
  <2> QED
    BY <1>1, <1>2, <1>3, <1>4, <1>5, <2>1, <2>2 DEF Inventory!TypeOK
<1>15. ASSUME NEW s \in Legacy, Inventory!OldCreatePerformed(s) PROVE Inventory!TypeOK'
  <2>1. executor' \in [Legacy -> {"none", "requested", "live", "paused", "gone"}]
    BY <1>15, <1>4, ZenonT(60) DEF Inventory!OldCreatePerformed
  <2>2. UNCHANGED <<capacity, writers, record, tool>>
    BY <1>15 DEF Inventory!OldCreatePerformed
  <2> QED
    BY <1>1, <1>2, <1>3, <1>4, <1>5, <2>1, <2>2 DEF Inventory!TypeOK
<1>16. ASSUME NEW s \in Legacy, Inventory!RuntimeGone(s) PROVE Inventory!TypeOK'
  <2>1. executor' \in [Legacy -> {"none", "requested", "live", "paused", "gone"}]
    BY <1>16, <1>4, ZenonT(60) DEF Inventory!RuntimeGone
  <2>2. UNCHANGED <<capacity, writers, record, tool>>
    BY <1>16 DEF Inventory!RuntimeGone
  <2> QED
    BY <1>1, <1>2, <1>3, <1>4, <1>5, <2>1, <2>2 DEF Inventory!TypeOK
<1>17. ASSUME Inventory!StartInventory PROVE Inventory!TypeOK'
  <2>1. capacity' \in {"old", "reconciling", "quarantined", "enforced"}
    BY <1>17, <1>1, ZenonT(60) DEF Inventory!StartInventory
  <2>2. record' \in [Legacy -> Inventory!Record]
    BY <1>17, <1>3, ZenonT(60) DEF Inventory!StartInventory, Inventory!Record
  <2>3. tool' \in Inventory!Tool
    <3>1. tool' = [Inventory!IdleTool EXCEPT !.at = "list", !.todo = Inventory!Rows]
      BY <1>17 DEF Inventory!StartInventory
    <3>2. 0 \in 0..MaxVersions /\ Inventory!Rows \in SUBSET Legacy /\ {} \in SUBSET Legacy
      BY DEF Inventory!InventoryBound, Inventory!Rows
    <3> QED
      BY <3>1, <3>2, ZenonT(60) DEF Inventory!IdleTool, Inventory!Tool
  <2>4. UNCHANGED <<writers, executor>>
    BY <1>17 DEF Inventory!StartInventory
  <2> QED
    BY <1>1, <1>2, <1>3, <1>4, <1>5, <2>1, <2>2, <2>3, <2>4 DEF Inventory!TypeOK
<1>18. ASSUME Inventory!ListRuntimes PROVE Inventory!TypeOK'
  <2>1. tool' \in Inventory!Tool
    BY <1>18, <1>5, ZenonT(60) DEF Inventory!ListRuntimes, Inventory!Tool
  <2>2. UNCHANGED <<capacity, writers, record, executor>>
    BY <1>18 DEF Inventory!ListRuntimes
  <2> QED
    BY <1>1, <1>2, <1>3, <1>4, <1>5, <2>1, <2>2 DEF Inventory!TypeOK
<1>19. ASSUME Inventory!ReadFence PROVE Inventory!TypeOK'
  <2>1. tool' \in Inventory!Tool
    <3>1. CASE tool' = [tool EXCEPT !.at = "finish"]
      BY <3>1, <1>5, ZenonT(60) DEF Inventory!Tool
    <3>2. CASE tool' # [tool EXCEPT !.at = "finish"]
      <4>1. PICK s \in tool.todo :
              tool' = [tool EXCEPT !.at = "get", !.of = s, !.todo = @ \ {s},
                                   !.known = record[s].known, !.version = record[s].version,
                                   !.action = IF record[s].busy = "no" THEN "none" ELSE "unresolved"]
        BY <1>19, <3>2 DEF Inventory!ReadFence
      <4>2. tool.todo \in SUBSET Legacy
        BY <1>5, ZenonT(60) DEF Inventory!Tool
      <4>3. s \in Legacy /\ tool.todo \ {s} \in SUBSET Legacy
        BY <4>2
      <4>4. record[s].known \in BOOLEAN /\ record[s].version \in 0..MaxVersions
        BY <4>3, <1>3, ZenonT(60) DEF Inventory!Record
      <4>5. (IF record[s].busy = "no" THEN "none" ELSE "unresolved") \in {"none", "hold", "absent", "suspended", "unresolved"}
        OBVIOUS
      <4> QED
        BY <4>1, <4>3, <4>4, <4>5, <1>5, ZenonT(60) DEF Inventory!Tool
    <3> QED
      BY <3>1, <3>2
  <2>2. UNCHANGED <<capacity, writers, record, executor>>
    BY <1>19 DEF Inventory!ReadFence
  <2> QED
    BY <1>1, <1>2, <1>3, <1>4, <1>5, <2>1, <2>2 DEF Inventory!TypeOK
<1>20. ASSUME Inventory!GetRuntime PROVE Inventory!TypeOK'
  <2>1. tool' \in Inventory!Tool
    <3>1. CASE tool' = [tool EXCEPT !.at = "apply"]
      BY <3>1, <1>5, ZenonT(60) DEF Inventory!Tool
    <3>2. CASE tool' # [tool EXCEPT !.at = "apply"]
      <4>1. PICK action \in Inventory!Classify(tool.of) : tool' = [tool EXCEPT !.at = "apply", !.action = action]
        BY <1>20, <3>2 DEF Inventory!GetRuntime
      <4>2. action \in {"none", "hold", "absent", "suspended", "unresolved"}
        BY <4>1 DEF Inventory!Classify
      <4> QED
        BY <4>1, <4>2, <1>5, ZenonT(60) DEF Inventory!Tool
    <3> QED
      BY <3>1, <3>2
  <2>2. UNCHANGED <<capacity, writers, record, executor>>
    BY <1>20 DEF Inventory!GetRuntime
  <2> QED
    BY <1>1, <1>2, <1>3, <1>4, <1>5, <2>1, <2>2 DEF Inventory!TypeOK
<1>21. ASSUME Inventory!ApplyClassification PROVE Inventory!TypeOK'
  <2>1. record' \in [Legacy -> Inventory!Record]
    <3>1. CASE record' = record
      BY <3>1, <1>3
    <3>2. CASE record' # record
      <4>1. record' = [record EXCEPT ![tool.of] = Inventory!Applied(tool.of, tool.action)]
        BY <1>21, <3>2 DEF Inventory!ApplyClassification
      <4>2. CASE tool.of \in Legacy
        <5>1. record[tool.of] \in Inventory!Record
          BY <4>2, <1>3
        <5>2. Inventory!Applied(tool.of, tool.action) \in Inventory!Record
          BY <5>1, ZenonT(60) DEF Inventory!Applied, Inventory!Record
        <5> QED
          BY <4>1, <5>2, <1>3, ZenonT(60)
      <4>3. CASE tool.of \notin Legacy
        BY <4>1, <4>3, <1>3
      <4> QED
        BY <4>2, <4>3
    <3> QED
      BY <3>1, <3>2
  <2>2. tool' \in Inventory!Tool
    BY <1>21, <1>5, ZenonT(60) DEF Inventory!ApplyClassification, Inventory!Tool
  <2>3. UNCHANGED <<capacity, writers, executor>>
    BY <1>21 DEF Inventory!ApplyClassification
  <2> QED
    BY <1>1, <1>2, <1>3, <1>4, <1>5, <2>1, <2>2, <2>3 DEF Inventory!TypeOK
<1>22. ASSUME Inventory!FinishInventory PROVE Inventory!TypeOK'
  <2>1. capacity' \in {"old", "reconciling", "quarantined", "enforced"}
    BY <1>22, <1>1, ZenonT(60) DEF Inventory!FinishInventory
  <2>2. tool' \in Inventory!Tool
    <3>1. tool' = Inventory!IdleTool
      BY <1>22 DEF Inventory!FinishInventory
    <3>2. 0 \in 0..MaxVersions /\ {} \in SUBSET Legacy
      BY DEF Inventory!InventoryBound
    <3> QED
      BY <3>1, <3>2, ZenonT(60) DEF Inventory!IdleTool, Inventory!Tool
  <2>3. UNCHANGED <<writers, record, executor>>
    BY <1>22 DEF Inventory!FinishInventory
  <2> QED
    BY <1>1, <1>2, <1>3, <1>4, <1>5, <2>1, <2>2, <2>3 DEF Inventory!TypeOK
<1>23. ASSUME Inventory!StopTool PROVE Inventory!TypeOK'
  <2>1. tool' \in Inventory!Tool
    <3>1. tool' = Inventory!IdleTool
      BY <1>23 DEF Inventory!StopTool
    <3>2. 0 \in 0..MaxVersions /\ {} \in SUBSET Legacy
      BY DEF Inventory!InventoryBound
    <3> QED
      BY <3>1, <3>2, ZenonT(60) DEF Inventory!IdleTool, Inventory!Tool
  <2>2. UNCHANGED <<capacity, writers, record, executor>>
    BY <1>23 DEF Inventory!StopTool
  <2> QED
    BY <1>1, <1>2, <1>3, <1>4, <1>5, <2>1, <2>2 DEF Inventory!TypeOK
<1>24. CASE UNCHANGED Inventory!inventoryVars
  BY <1>24 DEF Inventory!inventoryVars, Inventory!TypeOK
<1> QED
  BY <1>6, <1>7, <1>8, <1>9, <1>10, <1>11, <1>12, <1>13, <1>14, <1>15, <1>16, <1>17, <1>18, <1>19, <1>20, <1>21,
     <1>22, <1>23, <1>24 DEF Inventory!Next

LEMMA CutoverKept == ASSUME Inventory!InventoryBound, CutoverInv, [Inventory!Next]_(Inventory!inventoryVars) PROVE CutoverInv'
<1>1. /\ capacity \in {"old", "reconciling", "quarantined", "enforced"}
      /\ writers \in BOOLEAN
      /\ record \in [Legacy -> Inventory!Record]
      /\ executor \in [Legacy -> {"none", "requested", "live", "paused", "gone"}]
      /\ tool \in Inventory!Tool
  BY DEF CutoverInv, Inventory!TypeOK
<1>2. /\ Inventory!TypeOK /\ \A s \in Legacy : Counted(s)
      /\ Enforcing /\ Sighted
  BY DEF CutoverInv
<1>3. Inventory!TypeOK'
  BY InventoryTypeKept DEF CutoverInv
<1>4. ASSUME NEW s \in Legacy, Inventory!OldInsert(s) PROVE CutoverInv'
  <2>1. /\ writers
        /\ ~record[s].exists
    BY <1>4 DEF Inventory!OldInsert
  <2>2. record' = [record EXCEPT ![s] = [Inventory!NoRecord EXCEPT !.exists = TRUE]]
    BY <1>4 DEF Inventory!OldInsert
  <2>3. /\ record'[s].exists = TRUE
        /\ record'[s].known = FALSE
        /\ record'[s].status = "pending"
        /\ record'[s].hold = "none"
        /\ record'[s].version = 0
        /\ record'[s].busy = "no"
        /\ \A z \in Legacy : z # s => record'[z] = record[z]
    BY <1>1, <2>1, <2>2 DEF Inventory!Record, Inventory!NoRecord
  <2>4. UNCHANGED <<capacity, writers, executor, tool>>
    BY <1>4 DEF Inventory!OldInsert
  <2>5. ASSUME NEW x \in Legacy PROVE Counted(x)'
    BY <1>2, RecordFields, <2>1, <2>3, <2>4, SMTT(20) DEF Counted
  <2>6. Enforcing'
    BY <1>2, RecordFields, <2>1, <2>3, <2>4, SMTT(20) DEF Enforcing, Inventory!Rows
  <2>7. Sighted'
    BY <1>2, RecordFields, <2>1, <2>3, <2>4, SMTT(20) DEF Sighted, Fenced
  <2> QED
    BY <1>3, <2>5, <2>6, <2>7 DEF CutoverInv
<1>5. ASSUME NEW s \in Legacy, Inventory!OldRequest(s) PROVE CutoverInv'
  <2>1. /\ writers
        /\ executor[s] = "none"
    BY <1>5 DEF Inventory!OldRequest
  <2>2. executor' = [executor EXCEPT ![s] = "requested"]
    BY <1>5 DEF Inventory!OldRequest
  <2>3. /\ executor'[s] = "requested"
        /\ \A z \in Legacy : z # s => executor'[z] = executor[z]
    BY <1>1, <2>1, <2>2
  <2>4. UNCHANGED <<capacity, writers, record, tool>>
    BY <1>5 DEF Inventory!OldRequest
  <2>5. ASSUME NEW x \in Legacy PROVE Counted(x)'
    BY <1>2, RecordFields, <2>1, <2>3, <2>4, SMTT(20) DEF Counted
  <2>6. Enforcing'
    BY <1>2, <2>4 DEF Enforcing, Inventory!Rows
  <2>7. Sighted'
    BY <1>2, RecordFields, <2>1, <2>3, <2>4, SMTT(20) DEF Sighted, Fenced
  <2> QED
    BY <1>3, <2>5, <2>6, <2>7 DEF CutoverInv
<1>6. ASSUME NEW s \in Legacy, Inventory!OldRecord(s) PROVE CutoverInv'
  <2>1. writers
    BY <1>6 DEF Inventory!OldRecord
  <2>2. record' = [record EXCEPT ![s] = [@ EXCEPT !.known = TRUE, !.status = "running"]]
    BY <1>6 DEF Inventory!OldRecord
  <2>3. /\ record'[s].exists = record[s].exists
        /\ record'[s].known = TRUE
        /\ record'[s].status = "running"
        /\ record'[s].hold = record[s].hold
        /\ record'[s].version = record[s].version
        /\ record'[s].busy = record[s].busy
        /\ \A z \in Legacy : z # s => record'[z] = record[z]
    BY <1>1, <2>1, <2>2 DEF Inventory!Record
  <2>4. UNCHANGED <<capacity, writers, executor, tool>>
    BY <1>6 DEF Inventory!OldRecord
  <2>5. ASSUME NEW x \in Legacy PROVE Counted(x)'
    BY <1>2, RecordFields, <2>1, <2>3, <2>4, SMTT(20) DEF Counted
  <2>6. Enforcing'
    BY <1>2, RecordFields, <2>1, <2>3, <2>4, SMTT(20) DEF Enforcing, Inventory!Rows
  <2>7. Sighted'
    BY <1>2, RecordFields, <2>1, <2>3, <2>4, SMTT(20) DEF Sighted, Fenced
  <2> QED
    BY <1>3, <2>5, <2>6, <2>7 DEF CutoverInv
<1>7. ASSUME NEW s \in Legacy, Inventory!OldPause(s) PROVE CutoverInv'
  <2>1. /\ writers
        /\ executor[s] = "live"
    BY <1>7 DEF Inventory!OldPause
  <2>2. executor' = [executor EXCEPT ![s] = "paused"]
    BY <1>7 DEF Inventory!OldPause
  <2>3. /\ executor'[s] = "paused"
        /\ \A z \in Legacy : z # s => executor'[z] = executor[z]
    BY <1>1, <2>1, <2>2
  <2>4. /\ \A z \in Legacy : record'[z].exists = record[z].exists
        /\ \A z \in Legacy : record'[z].version = record[z].version
        /\ \A z \in Legacy : record'[z].busy = record[z].busy
        /\ \A z \in Legacy : record'[z].hold = record[z].hold
    BY <1>7, <1>1, <2>1 DEF Inventory!OldPause, Inventory!Record
  <2>5. UNCHANGED <<capacity, writers, tool>>
    BY <1>7 DEF Inventory!OldPause
  <2>6. ASSUME NEW x \in Legacy PROVE Counted(x)'
    BY <1>2, RecordFields, <2>1, <2>3, <2>4, <2>5, SMTT(20) DEF Counted
  <2>7. Enforcing'
    BY <1>2, RecordFields, <2>1, <2>3, <2>4, <2>5, SMTT(20) DEF Enforcing, Inventory!Rows
  <2>8. Sighted'
    BY <1>2, RecordFields, <2>1, <2>3, <2>4, <2>5, SMTT(20) DEF Sighted, Fenced
  <2> QED
    BY <1>3, <2>6, <2>7, <2>8 DEF CutoverInv
<1>8. ASSUME Inventory!Migrate PROVE CutoverInv'
  <2>1. capacity = "old"
    BY <1>8 DEF Inventory!Migrate
  <2>2. capacity' = "reconciling"
    BY <1>8, <1>1, <2>1 DEF Inventory!Migrate
  <2>3. /\ \A z \in Legacy : record'[z].exists = record[z].exists
        /\ \A z \in Legacy : record'[z].version = record[z].version
        /\ \A z \in Legacy : record'[z].busy = record[z].busy
        /\ \A z \in Legacy : record'[z].hold = record[z].hold \/ (TRUE /\ record'[z].hold = "legacy")
    BY <1>8, <1>1, <2>1 DEF Inventory!Migrate, Inventory!Record
  <2>4. UNCHANGED <<writers, executor, tool>>
    BY <1>8 DEF Inventory!Migrate
  <2>5. ASSUME NEW x \in Legacy PROVE Counted(x)'
    BY <1>2, RecordFields, <2>1, <2>2, <2>3, <2>4, SMTT(20) DEF Counted, Enforcing, Inventory!Rows
  <2>6. Enforcing'
    BY <1>2, RecordFields, <2>1, <2>2, <2>3, <2>4, SMTT(20) DEF Enforcing, Inventory!Rows
  <2>7. Sighted'
    BY <1>2, RecordFields, <2>1, <2>2, <2>3, <2>4, SMTT(20) DEF Sighted, Fenced
  <2> QED
    BY <1>3, <2>5, <2>6, <2>7 DEF CutoverInv
<1>9. ASSUME Inventory!StopWriters PROVE CutoverInv'
  <2>1. /\ capacity # "old"
        /\ \A z \in Legacy : executor[z] # "requested"
    BY <1>9 DEF Inventory!StopWriters
  <2>2. writers' = FALSE
    BY <1>9, <1>1, <2>1 DEF Inventory!StopWriters
  <2>3. UNCHANGED <<capacity, record, executor, tool>>
    BY <1>9 DEF Inventory!StopWriters
  <2>4. ASSUME NEW x \in Legacy PROVE Counted(x)'
    BY <1>2, RecordFields, <2>1, <2>2, <2>3, SMTT(20) DEF Counted
  <2>5. Enforcing'
    BY <1>2, RecordFields, <2>1, <2>2, <2>3, SMTT(20) DEF Enforcing, Inventory!Rows
  <2>6. Sighted'
    BY <1>2, RecordFields, <2>1, <2>2, <2>3, SMTT(20) DEF Sighted, Fenced
  <2> QED
    BY <1>3, <2>4, <2>5, <2>6 DEF CutoverInv
<1>10. ASSUME NEW s \in Legacy, Inventory!NewBegin(s) PROVE CutoverInv'
  <2>1. CASE record' = [record EXCEPT ![s] = Inventory!Effect(s, "pause")]
    <3>1. /\ ~writers
          /\ record[s].busy = "no"
          /\ record[s].version < MaxVersions
      BY <1>10, <2>1 DEF Inventory!NewBegin
    <3>2. record' = [record EXCEPT ![s] = Inventory!Effect(s, "pause")]
      BY <1>10, <2>1 DEF Inventory!NewBegin
    <3>3. /\ record'[s].exists = record[s].exists
          /\ record'[s].known = record[s].known
          /\ record'[s].status = record[s].status
          /\ record'[s].hold = record[s].hold
          /\ record'[s].version = record[s].version + 1
          /\ record'[s].busy = "pause"
          /\ \A z \in Legacy : z # s => record'[z] = record[z]
      BY <1>1, <3>1, <3>2 DEF Inventory!Record, Inventory!Effect
    <3>4. UNCHANGED <<capacity, writers, executor, tool>>
      BY <1>10, <2>1 DEF Inventory!NewBegin
    <3>5. ASSUME NEW x \in Legacy PROVE Counted(x)'
      BY <1>2, RecordFields, <3>1, <3>3, <3>4, SMTT(20) DEF Counted
    <3>6. Enforcing'
      BY <1>2, RecordFields, <3>1, <3>3, <3>4, SMTT(20) DEF Enforcing, Inventory!Rows
    <3>7. Sighted'
      <4>1. CASE tool.at \in {"get", "apply"} /\ tool.of = s
        <5>1. tool.version \leq record[s].version /\ record[s].version \in Nat /\ tool.version \in Nat
          BY <4>1, <1>2, RecordFields DEF Sighted
        <5>2. record'[tool'.of].version # tool'.version /\ tool'.version \leq record'[tool'.of].version
          BY <4>1, <5>1, <3>3, <3>4
        <5> QED
          BY <1>2, <4>1, <5>2, <3>1, <3>4 DEF Sighted, Fenced
      <4>2. CASE ~(tool.at \in {"get", "apply"} /\ tool.of = s)
        <5>1. tool.at \in {"get", "apply"} => record'[tool.of] = record[tool.of]
          BY <4>2, <1>2, <3>3 DEF Sighted
        <5> QED
          BY <1>2, <5>1, <3>4 DEF Sighted, Fenced
      <4> QED
        BY <4>1, <4>2
    <3> QED
      BY <1>3, <3>5, <3>6, <3>7 DEF CutoverInv
  <2>2. CASE record' = [record EXCEPT ![s] = [Inventory!Effect(s, "resume") EXCEPT !.hold = "held"]]
    <3>1. /\ ~writers
          /\ record[s].busy = "no"
          /\ record[s].version < MaxVersions
      BY <1>10, <2>2 DEF Inventory!NewBegin
    <3>2. record' = [record EXCEPT ![s] = [Inventory!Effect(s, "resume") EXCEPT !.hold = "held"]]
      BY <1>10, <2>2 DEF Inventory!NewBegin
    <3>3. /\ record'[s].exists = record[s].exists
          /\ record'[s].known = record[s].known
          /\ record'[s].status = record[s].status
          /\ record'[s].hold = "held"
          /\ record'[s].version = record[s].version + 1
          /\ record'[s].busy = "resume"
          /\ \A z \in Legacy : z # s => record'[z] = record[z]
      BY <1>1, <3>1, <3>2 DEF Inventory!Record, Inventory!Effect
    <3>4. UNCHANGED <<capacity, writers, executor, tool>>
      BY <1>10, <2>2 DEF Inventory!NewBegin
    <3>5. ASSUME NEW x \in Legacy PROVE Counted(x)'
      BY <1>2, RecordFields, <3>1, <3>3, <3>4, SMTT(20) DEF Counted
    <3>6. Enforcing'
      BY <1>2, RecordFields, <3>1, <3>3, <3>4, SMTT(20) DEF Enforcing, Inventory!Rows
    <3>7. Sighted'
      <4>1. CASE tool.at \in {"get", "apply"} /\ tool.of = s
        <5>1. tool.version \leq record[s].version /\ record[s].version \in Nat /\ tool.version \in Nat
          BY <4>1, <1>2, RecordFields DEF Sighted
        <5>2. record'[tool'.of].version # tool'.version /\ tool'.version \leq record'[tool'.of].version
          BY <4>1, <5>1, <3>3, <3>4
        <5> QED
          BY <1>2, <4>1, <5>2, <3>1, <3>4 DEF Sighted, Fenced
      <4>2. CASE ~(tool.at \in {"get", "apply"} /\ tool.of = s)
        <5>1. tool.at \in {"get", "apply"} => record'[tool.of] = record[tool.of]
          BY <4>2, <1>2, <3>3 DEF Sighted
        <5> QED
          BY <1>2, <5>1, <3>4 DEF Sighted, Fenced
      <4> QED
        BY <4>1, <4>2
    <3> QED
      BY <1>3, <3>5, <3>6, <3>7 DEF CutoverInv
  <2>3. CASE record' = [record EXCEPT ![s] = Inventory!Effect(s, "delete")]
    <3>1. /\ ~writers
          /\ record[s].busy = "no"
          /\ record[s].version < MaxVersions
          /\ record[s].hold # "none"
      BY <1>10, <2>3, <1>2, RecordFields
         DEF Inventory!NewBegin, Counted, Sighted, Fenced, Counted, Enforcing, Inventory!Rows, Sighted, Fenced
    <3>2. record' = [record EXCEPT ![s] = Inventory!Effect(s, "delete")]
      BY <1>10, <2>3 DEF Inventory!NewBegin
    <3>3. /\ record'[s].exists = record[s].exists
          /\ record'[s].known = record[s].known
          /\ record'[s].status = record[s].status
          /\ record'[s].hold = record[s].hold
          /\ record'[s].version = record[s].version + 1
          /\ record'[s].busy = "delete"
          /\ \A z \in Legacy : z # s => record'[z] = record[z]
      BY <1>1, <3>1, <3>2 DEF Inventory!Record, Inventory!Effect
    <3>4. UNCHANGED <<capacity, writers, executor, tool>>
      BY <1>10, <2>3 DEF Inventory!NewBegin
    <3>5. ASSUME NEW x \in Legacy PROVE Counted(x)'
      BY <1>2, RecordFields, <3>1, <3>3, <3>4, SMTT(20) DEF Counted
    <3>6. Enforcing'
      BY <1>2, RecordFields, <3>1, <3>3, <3>4, SMTT(20) DEF Enforcing, Inventory!Rows
    <3>7. Sighted'
      <4>1. CASE tool.at \in {"get", "apply"} /\ tool.of = s
        <5>1. tool.version \leq record[s].version /\ record[s].version \in Nat /\ tool.version \in Nat
          BY <4>1, <1>2, RecordFields DEF Sighted
        <5>2. record'[tool'.of].version # tool'.version /\ tool'.version \leq record'[tool'.of].version
          BY <4>1, <5>1, <3>3, <3>4
        <5> QED
          BY <1>2, <4>1, <5>2, <3>1, <3>4 DEF Sighted, Fenced
      <4>2. CASE ~(tool.at \in {"get", "apply"} /\ tool.of = s)
        <5>1. tool.at \in {"get", "apply"} => record'[tool.of] = record[tool.of]
          BY <4>2, <1>2, <3>3 DEF Sighted
        <5> QED
          BY <1>2, <5>1, <3>4 DEF Sighted, Fenced
      <4> QED
        BY <4>1, <4>2
    <3> QED
      BY <1>3, <3>5, <3>6, <3>7 DEF CutoverInv
  <2> QED
    BY <2>1, <2>2, <2>3, <1>10 DEF Inventory!NewBegin
<1>11. ASSUME NEW s \in Legacy, Inventory!NewPerform(s) PROVE CutoverInv'
  <2>1. /\ record[s].busy # "no"
        /\ ~writers
        /\ record[s].busy = "resume" => record[s].hold = "held"
    BY <1>11, <1>2, RecordFields DEF Inventory!NewPerform, Counted, Sighted, Fenced
  <2>2. /\ executor'[s] = executor[s] \/ (executor[s] \in {"live", "paused"} /\ executor'[s] = "live" /\ record[s].busy = "resume") \/ (executor[s] \in {"live", "paused"} /\ executor'[s] \in {"paused", "gone"})
        /\ \A z \in Legacy : z # s => executor'[z] = executor[z]
    BY <1>11, <1>1, <2>1 DEF Inventory!NewPerform
  <2>3. UNCHANGED <<capacity, writers, record, tool>>
    BY <1>11 DEF Inventory!NewPerform
  <2>4. ASSUME NEW x \in Legacy PROVE Counted(x)'
    BY <1>2, RecordFields, <2>1, <2>2, <2>3, SMTT(20) DEF Counted
  <2>5. Enforcing'
    BY <1>2, <2>3 DEF Enforcing, Inventory!Rows
  <2>6. Sighted'
    <3>1. CASE tool.at = "apply" /\ tool.of = s
      <4>1. tool.action = "suspended" => ~Fenced
        BY <1>2, <2>1, <3>1 DEF Sighted
      <4> QED
        BY <1>2, <2>1, <2>2, <2>3, <3>1, <4>1 DEF Sighted, Fenced
    <3>2. CASE tool.at # "apply"
      BY <1>2, <2>3, <3>2 DEF Sighted, Fenced
    <3>3. CASE tool.at = "apply" /\ tool.of # s
      <4>1. executor'[tool.of] = executor[tool.of]
        BY <1>2, <2>2, <3>3 DEF Sighted
      <4> QED
        BY <1>2, <2>3, <4>1 DEF Sighted, Fenced
    <3> QED
      BY <3>1, <3>2, <3>3
  <2> QED
    BY <1>3, <2>4, <2>5, <2>6 DEF CutoverInv
<1>12. ASSUME NEW s \in Legacy, Inventory!NewFinish(s) PROVE CutoverInv'
  <2>1. CASE record[s].busy = "pause"
    <3>1. /\ record[s].busy = "pause"
          /\ executor[s] = "paused"
      BY <1>12, <2>1 DEF Inventory!NewFinish
    <3>2. record' = [record EXCEPT ![s] = [@ EXCEPT !.busy = "no", !.status = "paused", !.hold = "released"]]
      BY <1>12, <2>1 DEF Inventory!NewFinish
    <3>3. /\ record'[s].exists = record[s].exists
          /\ record'[s].known = record[s].known
          /\ record'[s].status = "paused"
          /\ record'[s].hold = "released"
          /\ record'[s].version = record[s].version
          /\ record'[s].busy = "no"
          /\ \A z \in Legacy : z # s => record'[z] = record[z]
      BY <1>1, <3>1, <3>2 DEF Inventory!Record
    <3>4. UNCHANGED <<capacity, writers, executor, tool>>
      BY <1>12, <2>1 DEF Inventory!NewFinish
    <3>5. ASSUME NEW x \in Legacy PROVE Counted(x)'
      BY <2>1, <1>2, RecordFields, <3>1, <3>3, <3>4, SMTT(20) DEF Counted
    <3>6. Enforcing'
      BY <2>1, <1>2, RecordFields, <3>1, <3>3, <3>4, SMTT(20) DEF Enforcing, Inventory!Rows
    <3>7. Sighted'
      BY <2>1, <1>2, RecordFields, <3>1, <3>3, <3>4, SMTT(20) DEF Sighted, Fenced
    <3> QED
      BY <1>3, <3>5, <3>6, <3>7 DEF CutoverInv
  <2>2. CASE record[s].busy = "resume"
    <3>1. /\ record[s].busy = "resume"
          /\ executor[s] = "live"
      BY <1>12, <2>2 DEF Inventory!NewFinish
    <3>2. record' = [record EXCEPT ![s] = [@ EXCEPT !.busy = "no", !.status = "running"]]
      BY <1>12, <2>2 DEF Inventory!NewFinish
    <3>3. /\ record'[s].exists = record[s].exists
          /\ record'[s].known = record[s].known
          /\ record'[s].status = "running"
          /\ record'[s].hold = record[s].hold
          /\ record'[s].version = record[s].version
          /\ record'[s].busy = "no"
          /\ \A z \in Legacy : z # s => record'[z] = record[z]
      BY <1>1, <3>1, <3>2 DEF Inventory!Record
    <3>4. UNCHANGED <<capacity, writers, executor, tool>>
      BY <1>12, <2>2 DEF Inventory!NewFinish
    <3>5. ASSUME NEW x \in Legacy PROVE Counted(x)'
      BY <2>2, <1>2, RecordFields, <3>1, <3>3, <3>4, SMTT(20) DEF Counted
    <3>6. Enforcing'
      BY <2>2, <1>2, RecordFields, <3>1, <3>3, <3>4, SMTT(20) DEF Enforcing, Inventory!Rows
    <3>7. Sighted'
      BY <2>2, <1>2, RecordFields, <3>1, <3>3, <3>4, SMTT(20) DEF Sighted, Fenced
    <3> QED
      BY <1>3, <3>5, <3>6, <3>7 DEF CutoverInv
  <2>3. CASE record[s].busy = "delete"
    <3>1. /\ record[s].busy = "delete"
          /\ executor[s] = "gone"
      BY <1>12, <2>3 DEF Inventory!NewFinish
    <3>2. record' = [record EXCEPT ![s] = [@ EXCEPT !.busy = "no", !.status = "terminated", !.hold = "released"]]
      BY <1>12, <2>3 DEF Inventory!NewFinish
    <3>3. /\ record'[s].exists = record[s].exists
          /\ record'[s].known = record[s].known
          /\ record'[s].status = "terminated"
          /\ record'[s].hold = "released"
          /\ record'[s].version = record[s].version
          /\ record'[s].busy = "no"
          /\ \A z \in Legacy : z # s => record'[z] = record[z]
      BY <1>1, <3>1, <3>2 DEF Inventory!Record
    <3>4. UNCHANGED <<capacity, writers, executor, tool>>
      BY <1>12, <2>3 DEF Inventory!NewFinish
    <3>5. ASSUME NEW x \in Legacy PROVE Counted(x)'
      BY <2>3, <1>2, RecordFields, <3>1, <3>3, <3>4, SMTT(20) DEF Counted
    <3>6. Enforcing'
      BY <2>3, <1>2, RecordFields, <3>1, <3>3, <3>4, SMTT(20) DEF Enforcing, Inventory!Rows
    <3>7. Sighted'
      BY <2>3, <1>2, RecordFields, <3>1, <3>3, <3>4, SMTT(20) DEF Sighted, Fenced
    <3> QED
      BY <1>3, <3>5, <3>6, <3>7 DEF CutoverInv
  <2> QED
    BY <2>1, <2>2, <2>3, <1>12 DEF Inventory!NewFinish
<1>13. ASSUME NEW s \in Legacy, Inventory!OldCreatePerformed(s) PROVE CutoverInv'
  <2>1. /\ executor[s] = "requested"
        /\ writers
    BY <1>13, <1>2, RecordFields DEF Inventory!OldCreatePerformed, Counted, Sighted, Fenced
  <2>2. executor' = [executor EXCEPT ![s] = "live"]
    BY <1>13 DEF Inventory!OldCreatePerformed
  <2>3. /\ executor'[s] = "live"
        /\ \A z \in Legacy : z # s => executor'[z] = executor[z]
    BY <1>1, <2>1, <2>2
  <2>4. UNCHANGED <<capacity, writers, record, tool>>
    BY <1>13 DEF Inventory!OldCreatePerformed
  <2>5. ASSUME NEW x \in Legacy PROVE Counted(x)'
    BY <1>2, RecordFields, <2>1, <2>3, <2>4, SMTT(20) DEF Counted
  <2>6. Enforcing'
    BY <1>2, <2>4 DEF Enforcing, Inventory!Rows
  <2>7. Sighted'
    BY <1>2, RecordFields, <2>1, <2>3, <2>4, SMTT(20) DEF Sighted, Fenced
  <2> QED
    BY <1>3, <2>5, <2>6, <2>7 DEF CutoverInv
<1>14. ASSUME NEW s \in Legacy, Inventory!RuntimeGone(s) PROVE CutoverInv'
  <2>1. executor[s] \in {"live", "paused"}
    BY <1>14 DEF Inventory!RuntimeGone
  <2>2. executor' = [executor EXCEPT ![s] = "gone"]
    BY <1>14 DEF Inventory!RuntimeGone
  <2>3. /\ executor'[s] = "gone"
        /\ \A z \in Legacy : z # s => executor'[z] = executor[z]
    BY <1>1, <2>1, <2>2
  <2>4. UNCHANGED <<capacity, writers, record, tool>>
    BY <1>14 DEF Inventory!RuntimeGone
  <2>5. ASSUME NEW x \in Legacy PROVE Counted(x)'
    BY <1>2, RecordFields, <2>1, <2>3, <2>4, SMTT(20) DEF Counted
  <2>6. Enforcing'
    BY <1>2, <2>4 DEF Enforcing, Inventory!Rows
  <2>7. Sighted'
    BY <1>2, RecordFields, <2>1, <2>3, <2>4, SMTT(20) DEF Sighted, Fenced
  <2> QED
    BY <1>3, <2>5, <2>6, <2>7 DEF CutoverInv
<1>15. ASSUME Inventory!StartInventory PROVE CutoverInv'
  <2>1. /\ ~writers
        /\ tool.at = "idle"
    BY <1>15 DEF Inventory!StartInventory
  <2>2. capacity' = "reconciling"
    BY <1>15, <1>1, <2>1 DEF Inventory!StartInventory
  <2>3. /\ \A z \in Legacy : record'[z].exists = record[z].exists
        /\ \A z \in Legacy : record'[z].version = record[z].version
        /\ \A z \in Legacy : record'[z].busy = record[z].busy
        /\ \A z \in Legacy : record'[z].hold = record[z].hold \/ (record[z].hold = "none" /\ record'[z].hold = "legacy")
    BY <1>15, <1>1, <2>1 DEF Inventory!StartInventory, Inventory!Record
  <2>4. tool' = [Inventory!IdleTool EXCEPT !.at = "list", !.todo = Inventory!Rows]
    BY <1>15 DEF Inventory!StartInventory
  <2>5. /\ tool'.at = "list"
        /\ tool'.todo = Inventory!Rows
        /\ tool'.listed = {}
        /\ tool'.of = "none"
        /\ tool'.known = FALSE
        /\ tool'.version = 0
        /\ tool'.action = "none"
        /\ tool'.unresolved = FALSE
        /\ tool'.foreign = FALSE
    BY <1>1, <2>1, <2>4 DEF Inventory!Tool, Inventory!IdleTool
  <2>6. UNCHANGED <<writers, executor>>
    BY <1>15 DEF Inventory!StartInventory
  <2>7. ASSUME NEW x \in Legacy PROVE Counted(x)'
    BY <1>2, RecordFields, <2>1, <2>2, <2>3, <2>5, <2>6, SMTT(20) DEF Counted
  <2>8. Enforcing'
    BY <1>2, RecordFields, <2>1, <2>2, <2>3, <2>5, <2>6, SMTT(20) DEF Enforcing, Inventory!Rows
  <2>9. Sighted'
    BY <1>2, RecordFields, <2>1, <2>2, <2>3, <2>5, <2>6, SMTT(20) DEF Sighted, Fenced
  <2> QED
    BY <1>3, <2>7, <2>8, <2>9 DEF CutoverInv
<1>16. ASSUME Inventory!ListRuntimes PROVE CutoverInv'
  <2>1. tool.at = "list"
    BY <1>16 DEF Inventory!ListRuntimes
  <2>2. tool'.at = "fence"
    BY <1>16, <1>1, <2>1 DEF Inventory!ListRuntimes, Inventory!Tool
  <2>3. UNCHANGED <<capacity, writers, record, executor>>
    BY <1>16 DEF Inventory!ListRuntimes
  <2>4. ASSUME NEW x \in Legacy PROVE Counted(x)'
    BY <1>2, <2>3 DEF Counted
  <2>5. Enforcing'
    BY <1>2, <2>3 DEF Enforcing, Inventory!Rows
  <2>6. Sighted'
    BY <1>2, RecordFields, <2>1, <2>2, <2>3, SMTT(20) DEF Sighted, Fenced
  <2> QED
    BY <1>3, <2>4, <2>5, <2>6 DEF CutoverInv
<1>17. ASSUME Inventory!ReadFence PROVE CutoverInv'
  <2>1. CASE tool.todo = {} /\ tool' = [tool EXCEPT !.at = "finish"]
    <3>1. tool.at = "fence"
      BY <1>17, <2>1 DEF Inventory!ReadFence
    <3>2. tool' = [tool EXCEPT !.at = "finish"]
      BY <1>17, <2>1 DEF Inventory!ReadFence
    <3>3. /\ tool'.at = "finish"
          /\ tool'.todo = tool.todo
          /\ tool'.listed = tool.listed
          /\ tool'.of = tool.of
          /\ tool'.known = tool.known
          /\ tool'.version = tool.version
          /\ tool'.action = tool.action
          /\ tool'.unresolved = tool.unresolved
          /\ tool'.foreign = tool.foreign
      BY <1>1, <3>1, <3>2 DEF Inventory!Tool
    <3>4. UNCHANGED <<capacity, writers, record, executor>>
      BY <1>17, <2>1 DEF Inventory!ReadFence
    <3>5. ASSUME NEW x \in Legacy PROVE Counted(x)'
      BY <1>2, <3>4 DEF Counted
    <3>6. Enforcing'
      BY <1>2, <3>4 DEF Enforcing, Inventory!Rows
    <3>7. Sighted'
      BY <1>2, RecordFields, <3>1, <3>3, <3>4, SMTT(20) DEF Sighted, Fenced
    <3> QED
      BY <1>3, <3>5, <3>6, <3>7 DEF CutoverInv
  <2>2. CASE ~(tool.todo = {} /\ tool' = [tool EXCEPT !.at = "finish"])
    <3>1. tool.at = "fence"
      BY <1>17, <2>2 DEF Inventory!ReadFence
    <3>2. /\ tool'.at = "get"
          /\ tool'.of \in Legacy
          /\ tool'.version = record[tool'.of].version
          /\ tool'.action # "unresolved" => record[tool'.of].busy = "no"
    <4>1. PICK s \in tool.todo :
            tool' = [tool EXCEPT !.at = "get", !.of = s, !.todo = @ \ {s},
                                 !.known = record[s].known, !.version = record[s].version,
                                 !.action = IF record[s].busy = "no" THEN "none" ELSE "unresolved"]
      BY <1>17, <2>2 DEF Inventory!ReadFence
    <4>2. s \in Legacy
      BY <1>1 DEF Inventory!Tool
    <4> QED
      BY <1>1, <4>1, <4>2 DEF Inventory!Tool
    <3>3. UNCHANGED <<capacity, writers, record, executor>>
      BY <1>17, <2>2 DEF Inventory!ReadFence
    <3>4. ASSUME NEW x \in Legacy PROVE Counted(x)'
      BY <1>2, <3>3 DEF Counted
    <3>5. Enforcing'
      BY <1>2, <3>3 DEF Enforcing, Inventory!Rows
    <3>6. Sighted'
      <4>1. record[tool'.of].version \in Nat
        BY <1>2, <3>2, RecordFields
      <4>2. ~writers
        BY <1>2, <3>1 DEF Sighted
      <4> QED
        BY <4>1, <4>2, <3>2, <3>3 DEF Sighted, Fenced
    <3> QED
      BY <1>3, <3>4, <3>5, <3>6 DEF CutoverInv
  <2> QED
    BY <2>1, <2>2, <1>17 DEF Inventory!ReadFence
<1>18. ASSUME Inventory!GetRuntime PROVE CutoverInv'
  <2>1. CASE tool.action = "unresolved"
    <3>1. /\ tool.at = "get"
          /\ tool.action = "unresolved"
      BY <1>18, <2>1 DEF Inventory!GetRuntime
    <3>2. tool' = [tool EXCEPT !.at = "apply"]
      BY <1>18, <2>1 DEF Inventory!GetRuntime
    <3>3. /\ tool'.at = "apply"
          /\ tool'.todo = tool.todo
          /\ tool'.listed = tool.listed
          /\ tool'.of = tool.of
          /\ tool'.known = tool.known
          /\ tool'.version = tool.version
          /\ tool'.action = tool.action
          /\ tool'.unresolved = tool.unresolved
          /\ tool'.foreign = tool.foreign
      BY <1>1, <3>1, <3>2 DEF Inventory!Tool
    <3>4. UNCHANGED <<capacity, writers, record, executor>>
      BY <1>18, <2>1 DEF Inventory!GetRuntime
    <3>5. ASSUME NEW x \in Legacy PROVE Counted(x)'
      BY <1>2, <3>4 DEF Counted
    <3>6. Enforcing'
      BY <1>2, <3>4 DEF Enforcing, Inventory!Rows
    <3>7. Sighted'
      BY <2>1, <1>2, RecordFields, <3>1, <3>3, <3>4, SMTT(20) DEF Sighted, Fenced
    <3> QED
      BY <1>3, <3>5, <3>6, <3>7 DEF CutoverInv
  <2>2. CASE tool.action # "unresolved"
    <3>1. /\ tool.at = "get"
          /\ tool.action # "unresolved"
          /\ tool.of \in Legacy
      BY <1>18, <2>2, <1>2, RecordFields DEF Inventory!GetRuntime, Counted, Sighted, Fenced
    <3>2. /\ tool'.at = "apply"
          /\ tool'.of = tool.of
          /\ tool'.version = tool.version
          /\ tool'.action \in {"hold", "absent", "suspended", "unresolved"}
          /\ tool'.action = "absent" => executor[tool.of] \in {"none", "gone"}
          /\ tool'.action = "suspended" => executor[tool.of] = "paused"
    <4>1. PICK action \in Inventory!Classify(tool.of) : tool' = [tool EXCEPT !.at = "apply", !.action = action]
      BY <1>18, <3>1 DEF Inventory!GetRuntime
    <4>2. /\ action \in {"hold", "absent", "suspended", "unresolved"}
          /\ action = "absent" => executor[tool.of] \in {"none", "gone"}
          /\ action = "suspended" => executor[tool.of] = "paused"
      BY <4>1 DEF Inventory!Classify
    <4> QED
      BY <1>1, <4>1, <4>2 DEF Inventory!Tool
    <3>3. UNCHANGED <<capacity, writers, record, executor>>
      BY <1>18, <2>2 DEF Inventory!GetRuntime
    <3>4. ASSUME NEW x \in Legacy PROVE Counted(x)'
      BY <1>2, <3>3 DEF Counted
    <3>5. Enforcing'
      BY <1>2, <3>3 DEF Enforcing, Inventory!Rows
    <3>6. Sighted'
      BY <2>2, <1>2, RecordFields, <3>1, <3>2, <3>3, SMTT(20) DEF Sighted, Fenced
    <3> QED
      BY <1>3, <3>4, <3>5, <3>6 DEF CutoverInv
  <2> QED
    BY <2>1, <2>2, <1>18 DEF Inventory!GetRuntime
<1>19. ASSUME Inventory!ApplyClassification PROVE CutoverInv'
  <2>1. CASE record' = record
    <3>1. tool.at = "apply"
      BY <1>19, <2>1 DEF Inventory!ApplyClassification
    <3>2. tool'.at = "fence"
      BY <1>19, <2>1, <1>1, <3>1 DEF Inventory!ApplyClassification, Inventory!Tool
    <3>3. UNCHANGED <<capacity, writers, record, executor>>
      BY <1>19, <2>1 DEF Inventory!ApplyClassification
    <3>4. ASSUME NEW x \in Legacy PROVE Counted(x)'
      BY <1>2, <3>3 DEF Counted
    <3>5. Enforcing'
      BY <1>2, <3>3 DEF Enforcing, Inventory!Rows
    <3>6. Sighted'
      BY <2>1, <1>2, RecordFields, <3>1, <3>2, <3>3, SMTT(20) DEF Sighted, Fenced
    <3> QED
      BY <1>3, <3>4, <3>5, <3>6 DEF CutoverInv
  <2>2. CASE record' # record
    <3>1. /\ tool.at = "apply"
          /\ tool.of \in Legacy
          /\ tool.action # "unresolved"
          /\ record[tool.of].busy = "no"
          /\ record[tool.of].version = tool.version
          /\ tool.action \in {"hold", "absent", "suspended"}
      <4>1. tool.at = "apply" /\ tool.action # "unresolved" /\ Inventory!Unchanged(tool.of)
        BY <1>19, <2>2 DEF Inventory!ApplyClassification
      <4>2. tool.of \in Legacy /\ tool.action \in {"hold", "absent", "suspended"}
        BY <4>1, <1>2, RecordFields DEF Sighted
      <4> QED
        BY <4>1, <4>2 DEF Inventory!Unchanged
    <3>2. record' = [record EXCEPT ![tool.of] = Inventory!Applied(tool.of, tool.action)]
      BY <1>19, <2>2 DEF Inventory!ApplyClassification
    <3>3. /\ record'[tool.of].exists = record[tool.of].exists
          /\ record'[tool.of].version = record[tool.of].version
          /\ record'[tool.of].busy = record[tool.of].busy
          /\ record'[tool.of].hold = IF tool.action = "hold" THEN "held" ELSE "released"
          /\ \A z \in Legacy : z # tool.of => record'[z] = record[z]
      BY <1>1, <3>1, <3>2 DEF Inventory!Record, Inventory!Applied
    <3>4. tool'.at = "fence"
      BY <1>19, <2>2, <1>1, <3>1 DEF Inventory!ApplyClassification, Inventory!Tool
    <3>5. UNCHANGED <<capacity, writers, executor>>
      BY <1>19, <2>2 DEF Inventory!ApplyClassification
    <3>6. ASSUME NEW x \in Legacy PROVE Counted(x)'
      BY <2>2, <1>2, RecordFields, <3>1, <3>3, <3>4, <3>5, SMTT(20) DEF Counted, Sighted, Fenced
    <3>7. Enforcing'
      BY <2>2, <1>2, RecordFields, <3>1, <3>3, <3>4, <3>5, SMTT(20) DEF Enforcing, Inventory!Rows
    <3>8. Sighted'
      BY <2>2, <1>2, RecordFields, <3>1, <3>3, <3>4, <3>5, SMTT(20) DEF Sighted, Fenced
    <3> QED
      BY <1>3, <3>6, <3>7, <3>8 DEF CutoverInv
  <2> QED
    BY <2>1, <2>2, <1>19 DEF Inventory!ApplyClassification
<1>20. ASSUME Inventory!FinishInventory PROVE CutoverInv'
  <2>1. tool.at = "finish"
    BY <1>20 DEF Inventory!FinishInventory
  <2>2. /\ capacity' \in {"quarantined", "reconciling", "enforced"}
        /\ capacity' = "enforced" => \A z \in Inventory!Rows : record[z].hold \notin {"none", "legacy"}
    BY <1>20, <1>1, <2>1 DEF Inventory!FinishInventory
  <2>3. tool' = Inventory!IdleTool
    BY <1>20 DEF Inventory!FinishInventory
  <2>4. /\ tool'.at = "idle"
        /\ tool'.todo = {}
        /\ tool'.listed = {}
        /\ tool'.of = "none"
        /\ tool'.known = FALSE
        /\ tool'.version = 0
        /\ tool'.action = "none"
        /\ tool'.unresolved = FALSE
        /\ tool'.foreign = FALSE
    BY <1>1, <2>1, <2>3 DEF Inventory!Tool, Inventory!IdleTool
  <2>5. UNCHANGED <<writers, record, executor>>
    BY <1>20 DEF Inventory!FinishInventory
  <2>6. ASSUME NEW x \in Legacy PROVE Counted(x)'
    BY <1>2, <2>5 DEF Counted
  <2>7. Enforcing'
    <3>1. ~writers
      BY <1>2, <2>1 DEF Sighted
    <3>2. \A z \in Legacy : record[z].exists /\ record[z].hold \notin {"none", "legacy"} => record[z].hold \in {"held", "released"}
      BY <1>2, RecordFields
    <3> QED
      BY <3>1, <3>2, <2>2, <2>5 DEF Enforcing, Inventory!Rows
  <2>8. Sighted'
    BY <1>2, RecordFields, <2>1, <2>2, <2>4, <2>5, SMTT(20) DEF Sighted, Fenced
  <2> QED
    BY <1>3, <2>6, <2>7, <2>8 DEF CutoverInv
<1>21. ASSUME Inventory!StopTool PROVE CutoverInv'
  <2>1. tool.at # "idle"
    BY <1>21 DEF Inventory!StopTool
  <2>2. tool' = Inventory!IdleTool
    BY <1>21 DEF Inventory!StopTool
  <2>3. /\ tool'.at = "idle"
        /\ tool'.todo = {}
        /\ tool'.listed = {}
        /\ tool'.of = "none"
        /\ tool'.known = FALSE
        /\ tool'.version = 0
        /\ tool'.action = "none"
        /\ tool'.unresolved = FALSE
        /\ tool'.foreign = FALSE
    BY <1>1, <2>1, <2>2 DEF Inventory!Tool, Inventory!IdleTool
  <2>4. UNCHANGED <<capacity, writers, record, executor>>
    BY <1>21 DEF Inventory!StopTool
  <2>5. ASSUME NEW x \in Legacy PROVE Counted(x)'
    BY <1>2, <2>4 DEF Counted
  <2>6. Enforcing'
    BY <1>2, <2>4 DEF Enforcing, Inventory!Rows
  <2>7. Sighted'
    BY <1>2, RecordFields, <2>1, <2>3, <2>4, SMTT(20) DEF Sighted, Fenced
  <2> QED
    BY <1>3, <2>5, <2>6, <2>7 DEF CutoverInv
<1>22. CASE UNCHANGED Inventory!inventoryVars
  BY <1>2, <1>3, <1>22 DEF Inventory!inventoryVars, CutoverInv, Counted, Enforcing, Inventory!Rows, Sighted, Fenced
<1> QED
  BY <1>4, <1>5, <1>6, <1>7, <1>8, <1>9, <1>10, <1>11, <1>12, <1>13, <1>14, <1>15, <1>16, <1>17, <1>18, <1>19, <1>20,
     <1>21, <1>22 DEF Inventory!Next

LEMMA CutoverInvariant == ASSUME Inventory!InventoryBound PROVE Inventory!Spec => []CutoverInv
<1>1. Inventory!Init => CutoverInv
  <2> SUFFICES ASSUME Inventory!Init PROVE CutoverInv
    OBVIOUS
  <2>1. capacity = "old" /\ writers = TRUE
    BY DEF Inventory!Init
  <2>2. record = [s \in Legacy |-> Inventory!NoRecord] /\ executor = [s \in Legacy |-> "none"] /\ tool = Inventory!IdleTool
    BY DEF Inventory!Init
  <2>3. 0 \in 0..MaxVersions /\ {} \in SUBSET Legacy
    BY DEF Inventory!InventoryBound
  <2>4. Inventory!NoRecord \in Inventory!Record /\ Inventory!IdleTool \in Inventory!Tool
    BY <2>3, ZenonT(60) DEF Inventory!NoRecord, Inventory!Record, Inventory!IdleTool, Inventory!Tool
  <2>5. Inventory!TypeOK
    BY <2>1, <2>2, <2>4 DEF Inventory!TypeOK
  <2>6. \A s \in Legacy : Counted(s)
    BY <2>1, <2>2 DEF Counted, Inventory!NoRecord
  <2>7. Enforcing /\ Sighted
    BY <2>1, <2>2 DEF Enforcing, Sighted, Inventory!IdleTool
  <2> QED
    BY <2>5, <2>6, <2>7 DEF CutoverInv
<1> QED
  BY <1>1, CutoverKept, PTL DEF Inventory!Spec

--------------------------------------------------------------------------------
(* Snapshots: what a request and a deletion know of their row.             *)

(* The provider has completed the snapshot, or was asked to delete it.     *)
Ready(s) == store[s] = "ready" \/ s \in deleteSent

(* What a request that creates knows of its row and of the provider.       *)
Creating(c) ==
    /\ pc[c] \in {"lookup", "insert"} => ~Snapshot!Inserted(c)
    /\ pc[c] \notin {"lookup", "insert", "done"} => Snapshot!Inserted(c)
    /\ store[c] # "none" => Snapshot!Inserted(c) /\ pc[c] \notin {"claim", "call"}
    /\ row[c].known => pc[c] \notin {"lookup", "insert", "claim", "call"}
    /\ pc[c] \in {"record", "refresh"} => answer[c] # "none"
    /\ answer[c] = "ready" => Ready(c)
    /\ row[c].status = "ready" => Ready(c)

(* What a deletion read of its row is still so, or has been done since.    *)
Deleting(d) ==
    dpc[d] \notin {"read", "done"} =>
      LET s == target[d] IN
      /\ s \in Creator /\ Snapshot!Inserted(s) /\ seen[d].status # "none"
      /\ seen[d].known => row[s].known
      /\ dpc[d] = "call" => seen[d].known
      /\ seen[d].known /\ dpc[d] \in {"tombstone", "deleted"} => store[s] \in {"none", "gone"}
      /\ seen[d].status = "ready" => Ready(s)

(* The unique index on the idempotency key.                                *)
OneRowPerKey(s, t) ==
    s # t /\ key[s] # NoKey /\ key[s] = key[t] => ~Snapshot!Inserted(s) \/ ~Snapshot!Inserted(t)

SnapshotInv ==
    /\ Snapshot!TypeOK
    /\ \A c \in Creator : Creating(c)
    /\ \A d \in Delete : Deleting(d)
    /\ \A s, t \in Creator : OneRowPerKey(s, t)

LEMMA RowFields ==
  ASSUME Snapshot!TypeOK
  PROVE  /\ \A c \in Creator : /\ row[c].known \in BOOLEAN /\ row[c].tombstone \in BOOLEAN
                              /\ row[c].status \in Snapshot!Statuses \cup {"none"}
                              /\ store[c] \in Snapshot!ProviderStates \cup {"none", "gone"}
                              /\ answer[c] \in Snapshot!ProviderStates \cup {"none"}
                              /\ pc[c] \in {"lookup", "insert", "claim", "call", "record", "read", "poll", "refresh", "finish", "fail", "done"}
         /\ \A d \in Delete : /\ seen[d].known \in BOOLEAN /\ seen[d].status \in Snapshot!Statuses \cup {"none"}
                             /\ dpc[d] \in {"read", "mark", "call", "tombstone", "undo", "deleted", "done"}
  BY DEF Snapshot!TypeOK, Snapshot!Row, Snapshot!Seen

LEMMA SnapshotTypeKept == ASSUME Snapshot!PollsAreBounded, SnapshotInv, [Snapshot!Next]_(Snapshot!vars) PROVE Snapshot!TypeOK'
<1>1. key \in [Creator -> Key \cup {NoKey}]
  BY DEF Snapshot!TypeOK, SnapshotInv
<1>2. wait \in [Creator -> BOOLEAN]
  BY DEF Snapshot!TypeOK, SnapshotInv
<1>3. row \in [Creator -> Snapshot!Row]
  BY DEF Snapshot!TypeOK, SnapshotInv
<1>4. operation \in [Creator -> {"none", "running", "succeeded", "failed"}]
  BY DEF Snapshot!TypeOK, SnapshotInv
<1>5. store \in [Creator -> Snapshot!ProviderStates \cup {"none", "gone"}]
  BY DEF Snapshot!TypeOK, SnapshotInv
<1>6. deleteSent \in SUBSET Creator
  BY DEF Snapshot!TypeOK, SnapshotInv
<1>7. pc \in [Creator -> {"lookup", "insert", "claim", "call", "record", "read", "poll", "refresh", "finish", "fail", "done"}]
  BY DEF Snapshot!TypeOK, SnapshotInv
<1>8. answer \in [Creator -> Snapshot!ProviderStates \cup {"none"}]
  BY DEF Snapshot!TypeOK, SnapshotInv
<1>9. polls \in [Creator -> 0..MaxPolls]
  BY DEF Snapshot!TypeOK, SnapshotInv
<1>10. dpc \in [Delete -> {"read", "mark", "call", "tombstone", "undo", "deleted", "done"}]
  BY DEF Snapshot!TypeOK, SnapshotInv
<1>11. target \in [Delete -> Creator \cup {Snapshot!NoTarget}]
  BY DEF Snapshot!TypeOK, SnapshotInv
<1>12. seen \in [Delete -> Snapshot!Seen]
  BY DEF Snapshot!TypeOK, SnapshotInv
<1>13. ASSUME NEW c \in Creator, Snapshot!Lookup(c) PROVE Snapshot!TypeOK'
  <2>1. key' \in [Creator -> Key \cup {NoKey}]
    BY <1>13, <1>1, ZenonT(60) DEF Snapshot!Lookup, Snapshot!End, Snapshot!Goto
  <2>2. wait' \in [Creator -> BOOLEAN]
    BY <1>13, <1>2, ZenonT(60) DEF Snapshot!Lookup, Snapshot!End, Snapshot!Goto
  <2>3. pc' \in [Creator -> {"lookup", "insert", "claim", "call", "record", "read", "poll", "refresh", "finish", "fail", "done"}]
    BY <1>13, <1>7, ZenonT(60) DEF Snapshot!Lookup, Snapshot!End, Snapshot!Goto
  <2>4. answer' \in [Creator -> Snapshot!ProviderStates \cup {"none"}]
    BY <1>13, <1>8, ZenonT(60) DEF Snapshot!Lookup, Snapshot!End, Snapshot!Goto, Snapshot!ProviderStates
  <2>5. polls' \in [Creator -> 0..MaxPolls]
    <3>1. polls' = [polls EXCEPT ![c] = 0] \/ polls' = polls
      BY <1>13 DEF Snapshot!Lookup, Snapshot!End, Snapshot!Goto
    <3>2. 0 \in 0..MaxPolls
      BY DEF Snapshot!PollsAreBounded
    <3> QED
      BY <3>1, <3>2, <1>9, ZenonT(60)
  <2>6. UNCHANGED <<row, operation, store, deleteSent, dpc, target, seen>>
    BY <1>13 DEF Snapshot!Lookup, Snapshot!End, Snapshot!Goto, Snapshot!rows, Snapshot!creates, Snapshot!deletes
  <2> QED
    BY <1>1, <1>2, <1>3, <1>4, <1>5, <1>6, <1>7, <1>8, <1>9, <1>10, <1>11, <1>12, <2>1, <2>2, <2>3, <2>4, <2>5,
       <2>6 DEF Snapshot!TypeOK
<1>14. ASSUME NEW c \in Creator, Snapshot!Insert(c) PROVE Snapshot!TypeOK'
  <2>1. wait' \in [Creator -> BOOLEAN]
    BY <1>14, <1>2, ZenonT(60) DEF Snapshot!Insert, Snapshot!End, Snapshot!Goto
  <2>2. row' \in [Creator -> Snapshot!Row]
    <3>1. \/ row' = row
          \/ row' = [row EXCEPT ![c] = [status |-> "creating", tombstone |-> FALSE, known |-> FALSE]]
      BY <1>14 DEF Snapshot!Insert
    <3>2. [status |-> "creating", tombstone |-> FALSE, known |-> FALSE] \in Snapshot!Row
      BY ZenonT(60) DEF Snapshot!Row, Snapshot!Statuses
    <3> QED
      BY <3>1, <3>2, <1>3, ZenonT(60)
  <2>3. pc' \in [Creator -> {"lookup", "insert", "claim", "call", "record", "read", "poll", "refresh", "finish", "fail", "done"}]
    BY <1>14, <1>7, ZenonT(60) DEF Snapshot!Insert, Snapshot!End, Snapshot!Goto
  <2>4. answer' \in [Creator -> Snapshot!ProviderStates \cup {"none"}]
    BY <1>14, <1>8, ZenonT(60) DEF Snapshot!Insert, Snapshot!End, Snapshot!Goto, Snapshot!ProviderStates
  <2>5. polls' \in [Creator -> 0..MaxPolls]
    <3>1. polls' = [polls EXCEPT ![c] = 0] \/ polls' = polls
      BY <1>14 DEF Snapshot!Insert, Snapshot!End, Snapshot!Goto
    <3>2. 0 \in 0..MaxPolls
      BY DEF Snapshot!PollsAreBounded
    <3> QED
      BY <3>1, <3>2, <1>9, ZenonT(60)
  <2>6. UNCHANGED <<key, operation, store, deleteSent, dpc, target, seen>>
    BY <1>14 DEF Snapshot!Insert, Snapshot!End, Snapshot!Goto, Snapshot!rows, Snapshot!creates, Snapshot!deletes
  <2> QED
    BY <1>1, <1>2, <1>3, <1>4, <1>5, <1>6, <1>7, <1>8, <1>9, <1>10, <1>11, <1>12, <2>1, <2>2, <2>3, <2>4, <2>5,
       <2>6 DEF Snapshot!TypeOK
<1>15. ASSUME NEW c \in Creator, Snapshot!ClaimOperation(c) PROVE Snapshot!TypeOK'
  <2>1. operation' \in [Creator -> {"none", "running", "succeeded", "failed"}]
    BY <1>15, <1>4, ZenonT(60) DEF Snapshot!ClaimOperation, Snapshot!Goto
  <2>2. pc' \in [Creator -> {"lookup", "insert", "claim", "call", "record", "read", "poll", "refresh", "finish", "fail", "done"}]
    BY <1>15, <1>7, ZenonT(60) DEF Snapshot!ClaimOperation, Snapshot!Goto
  <2>3. UNCHANGED <<key, wait, row, store, deleteSent, answer, polls, dpc, target, seen>>
    BY <1>15 DEF Snapshot!ClaimOperation, Snapshot!Goto, Snapshot!rows, Snapshot!creates, Snapshot!deletes
  <2> QED
    BY <1>1, <1>2, <1>3, <1>4, <1>5, <1>6, <1>7, <1>8, <1>9, <1>10, <1>11, <1>12, <2>1, <2>2, <2>3 DEF Snapshot!TypeOK
<1>16. ASSUME NEW c \in Creator, Snapshot!CallProvider(c) PROVE Snapshot!TypeOK'
  <2>1. store' \in [Creator -> Snapshot!ProviderStates \cup {"none", "gone"}]
    BY <1>16, <1>5, ZenonT(60) DEF Snapshot!CallProvider, Snapshot!Goto, Snapshot!ProviderStates
  <2>2. pc' \in [Creator -> {"lookup", "insert", "claim", "call", "record", "read", "poll", "refresh", "finish", "fail", "done"}]
    BY <1>16, <1>7, ZenonT(60) DEF Snapshot!CallProvider, Snapshot!Goto
  <2>3. answer' \in [Creator -> Snapshot!ProviderStates \cup {"none"}]
    BY <1>16, <1>8, ZenonT(60) DEF Snapshot!CallProvider, Snapshot!Goto, Snapshot!ProviderStates
  <2>4. UNCHANGED <<key, wait, row, operation, deleteSent, polls, dpc, target, seen>>
    BY <1>16 DEF Snapshot!CallProvider, Snapshot!Goto, Snapshot!rows, Snapshot!creates, Snapshot!deletes
  <2> QED
    BY <1>1, <1>2, <1>3, <1>4, <1>5, <1>6, <1>7, <1>8, <1>9, <1>10, <1>11, <1>12, <2>1, <2>2, <2>3, <2>4
       DEF Snapshot!TypeOK
<1>17. ASSUME NEW c \in Creator, Snapshot!Record(c) PROVE Snapshot!TypeOK'
  <2>1. row' \in [Creator -> Snapshot!Row]
    <3>1. row' = [row EXCEPT ![c] = [@ EXCEPT !.status = answer[c], !.known = TRUE]]
      BY <1>17 DEF Snapshot!Record, Snapshot!UpdateFromProvider
    <3>2. answer[c] \in Snapshot!Statuses \cup {"none"}
      BY <1>8 DEF Snapshot!ProviderStates, Snapshot!Statuses
    <3> QED
      BY <3>1, <3>2, <1>3, ZenonT(60) DEF Snapshot!Row
  <2>2. pc' \in [Creator -> {"lookup", "insert", "claim", "call", "record", "read", "poll", "refresh", "finish", "fail", "done"}]
    BY <1>17, <1>7, ZenonT(60) DEF Snapshot!Record, Snapshot!Goto, Snapshot!UpdateFromProvider
  <2>3. answer' \in [Creator -> Snapshot!ProviderStates \cup {"none"}]
    BY <1>17, <1>8, ZenonT(60) DEF Snapshot!Record, Snapshot!Goto, Snapshot!UpdateFromProvider, Snapshot!ProviderStates
  <2>4. UNCHANGED <<key, wait, operation, store, deleteSent, polls, dpc, target, seen>>
    BY <1>17 DEF Snapshot!Record, Snapshot!Goto, Snapshot!UpdateFromProvider, Snapshot!rows, Snapshot!creates,
       Snapshot!deletes
  <2> QED
    BY <1>1, <1>2, <1>3, <1>4, <1>5, <1>6, <1>7, <1>8, <1>9, <1>10, <1>11, <1>12, <2>1, <2>2, <2>3, <2>4
       DEF Snapshot!TypeOK
<1>18. ASSUME NEW c \in Creator, Snapshot!ReadRow(c) PROVE Snapshot!TypeOK'
  <2>1. pc' \in [Creator -> {"lookup", "insert", "claim", "call", "record", "read", "poll", "refresh", "finish", "fail", "done"}]
    BY <1>18, <1>7, ZenonT(60) DEF Snapshot!ReadRow, Snapshot!Goto
  <2>2. UNCHANGED <<key, wait, row, operation, store, deleteSent, answer, polls, dpc, target, seen>>
    BY <1>18 DEF Snapshot!ReadRow, Snapshot!Goto, Snapshot!rows, Snapshot!creates, Snapshot!deletes
  <2> QED
    BY <1>1, <1>2, <1>3, <1>4, <1>5, <1>6, <1>7, <1>8, <1>9, <1>10, <1>11, <1>12, <2>1, <2>2 DEF Snapshot!TypeOK
<1>19. ASSUME NEW c \in Creator, Snapshot!Poll(c) PROVE Snapshot!TypeOK'
  <2>1. pc' \in [Creator -> {"lookup", "insert", "claim", "call", "record", "read", "poll", "refresh", "finish", "fail", "done"}]
    BY <1>19, <1>7, ZenonT(60) DEF Snapshot!Poll, Snapshot!Goto
  <2>2. answer' \in [Creator -> Snapshot!ProviderStates \cup {"none"}]
    BY <1>19, <1>8, ZenonT(60) DEF Snapshot!Poll, Snapshot!Goto, Snapshot!ProviderStates
  <2>3. polls' \in [Creator -> 0..MaxPolls]
    <3>1. polls' = polls \/ (polls[c] # MaxPolls /\ polls' = [polls EXCEPT ![c] = @ + 1])
      BY <1>19 DEF Snapshot!Poll
    <3>2. polls[c] # MaxPolls => polls[c] + 1 \in 0..MaxPolls
      BY <1>9 DEF Snapshot!PollsAreBounded
    <3>3. CASE polls' = polls
      BY <3>3, <1>9
    <3>4. CASE polls[c] # MaxPolls /\ polls' = [polls EXCEPT ![c] = @ + 1]
      BY <3>2, <3>4, <1>9, ZenonT(60)
    <3> QED
      BY <3>1, <3>3, <3>4
  <2>4. UNCHANGED <<key, wait, row, operation, store, deleteSent, dpc, target, seen>>
    BY <1>19 DEF Snapshot!Poll, Snapshot!Goto, Snapshot!rows, Snapshot!creates, Snapshot!deletes
  <2> QED
    BY <1>1, <1>2, <1>3, <1>4, <1>5, <1>6, <1>7, <1>8, <1>9, <1>10, <1>11, <1>12, <2>1, <2>2, <2>3, <2>4
       DEF Snapshot!TypeOK
<1>20. ASSUME NEW c \in Creator, Snapshot!Refresh(c) PROVE Snapshot!TypeOK'
  <2>1. row' \in [Creator -> Snapshot!Row]
    <3>1. row' = [row EXCEPT ![c] = [@ EXCEPT !.status = answer[c], !.known = TRUE]]
      BY <1>20 DEF Snapshot!Refresh, Snapshot!UpdateFromProvider
    <3>2. answer[c] \in Snapshot!Statuses \cup {"none"}
      BY <1>8 DEF Snapshot!ProviderStates, Snapshot!Statuses
    <3> QED
      BY <3>1, <3>2, <1>3, ZenonT(60) DEF Snapshot!Row
  <2>2. pc' \in [Creator -> {"lookup", "insert", "claim", "call", "record", "read", "poll", "refresh", "finish", "fail", "done"}]
    BY <1>20, <1>7, ZenonT(60) DEF Snapshot!Refresh, Snapshot!Goto, Snapshot!UpdateFromProvider
  <2>3. answer' \in [Creator -> Snapshot!ProviderStates \cup {"none"}]
    BY <1>20, <1>8, ZenonT(60) DEF Snapshot!Refresh, Snapshot!Goto, Snapshot!UpdateFromProvider, Snapshot!ProviderStates
  <2>4. UNCHANGED <<key, wait, operation, store, deleteSent, polls, dpc, target, seen>>
    BY <1>20 DEF Snapshot!Refresh, Snapshot!Goto, Snapshot!UpdateFromProvider, Snapshot!rows, Snapshot!creates,
       Snapshot!deletes
  <2> QED
    BY <1>1, <1>2, <1>3, <1>4, <1>5, <1>6, <1>7, <1>8, <1>9, <1>10, <1>11, <1>12, <2>1, <2>2, <2>3, <2>4
       DEF Snapshot!TypeOK
<1>21. ASSUME NEW c \in Creator, Snapshot!Finish(c) PROVE Snapshot!TypeOK'
  <2>1. wait' \in [Creator -> BOOLEAN]
    BY <1>21, <1>2, ZenonT(60) DEF Snapshot!Finish, Snapshot!End, Snapshot!Goto
  <2>2. operation' \in [Creator -> {"none", "running", "succeeded", "failed"}]
    BY <1>21, <1>4, ZenonT(60) DEF Snapshot!Finish, Snapshot!End, Snapshot!Goto
  <2>3. pc' \in [Creator -> {"lookup", "insert", "claim", "call", "record", "read", "poll", "refresh", "finish", "fail", "done"}]
    BY <1>21, <1>7, ZenonT(60) DEF Snapshot!Finish, Snapshot!End, Snapshot!Goto
  <2>4. answer' \in [Creator -> Snapshot!ProviderStates \cup {"none"}]
    BY <1>21, <1>8, ZenonT(60) DEF Snapshot!Finish, Snapshot!End, Snapshot!Goto, Snapshot!ProviderStates
  <2>5. polls' \in [Creator -> 0..MaxPolls]
    <3>1. polls' = [polls EXCEPT ![c] = 0] \/ polls' = polls
      BY <1>21 DEF Snapshot!Finish, Snapshot!End
    <3>2. 0 \in 0..MaxPolls
      BY DEF Snapshot!PollsAreBounded
    <3> QED
      BY <3>1, <3>2, <1>9, ZenonT(60)
  <2>6. UNCHANGED <<key, row, store, deleteSent, dpc, target, seen>>
    BY <1>21 DEF Snapshot!Finish, Snapshot!End, Snapshot!Goto, Snapshot!rows, Snapshot!creates, Snapshot!deletes
  <2> QED
    BY <1>1, <1>2, <1>3, <1>4, <1>5, <1>6, <1>7, <1>8, <1>9, <1>10, <1>11, <1>12, <2>1, <2>2, <2>3, <2>4, <2>5,
       <2>6 DEF Snapshot!TypeOK
<1>22. ASSUME NEW c \in Creator, Snapshot!FailCreate(c) PROVE Snapshot!TypeOK'
  <2>1. wait' \in [Creator -> BOOLEAN]
    BY <1>22, <1>2, ZenonT(60) DEF Snapshot!FailCreate, Snapshot!End, Snapshot!Goto
  <2>2. row' \in [Creator -> Snapshot!Row]
    BY <1>22, <1>3, ZenonT(60) DEF Snapshot!FailCreate, Snapshot!End, Snapshot!Goto, Snapshot!Row, Snapshot!Statuses
  <2>3. operation' \in [Creator -> {"none", "running", "succeeded", "failed"}]
    BY <1>22, <1>4, ZenonT(60) DEF Snapshot!FailCreate, Snapshot!End, Snapshot!Goto
  <2>4. pc' \in [Creator -> {"lookup", "insert", "claim", "call", "record", "read", "poll", "refresh", "finish", "fail", "done"}]
    BY <1>22, <1>7, ZenonT(60) DEF Snapshot!FailCreate, Snapshot!End, Snapshot!Goto
  <2>5. answer' \in [Creator -> Snapshot!ProviderStates \cup {"none"}]
    BY <1>22, <1>8, ZenonT(60) DEF Snapshot!FailCreate, Snapshot!End, Snapshot!Goto, Snapshot!ProviderStates
  <2>6. polls' \in [Creator -> 0..MaxPolls]
    <3>1. polls' = [polls EXCEPT ![c] = 0] \/ polls' = polls
      BY <1>22 DEF Snapshot!FailCreate, Snapshot!End
    <3>2. 0 \in 0..MaxPolls
      BY DEF Snapshot!PollsAreBounded
    <3> QED
      BY <3>1, <3>2, <1>9, ZenonT(60)
  <2>7. UNCHANGED <<key, store, deleteSent, dpc, target, seen>>
    BY <1>22 DEF Snapshot!FailCreate, Snapshot!End, Snapshot!Goto, Snapshot!rows, Snapshot!creates, Snapshot!deletes
  <2> QED
    BY <1>1, <1>2, <1>3, <1>4, <1>5, <1>6, <1>7, <1>8, <1>9, <1>10, <1>11, <1>12, <2>1, <2>2, <2>3, <2>4, <2>5, <2>6,
       <2>7 DEF Snapshot!TypeOK
<1>23. ASSUME NEW c \in Creator, Snapshot!ProviderProgress(c) PROVE Snapshot!TypeOK'
  <2>1. store' \in [Creator -> Snapshot!ProviderStates \cup {"none", "gone"}]
    BY <1>23, <1>5, ZenonT(60) DEF Snapshot!ProviderProgress, Snapshot!ProviderStates
  <2>2. UNCHANGED <<key, wait, row, operation, deleteSent, pc, answer, polls, dpc, target, seen>>
    BY <1>23 DEF Snapshot!ProviderProgress, Snapshot!rows, Snapshot!creates, Snapshot!deletes
  <2> QED
    BY <1>1, <1>2, <1>3, <1>4, <1>5, <1>6, <1>7, <1>8, <1>9, <1>10, <1>11, <1>12, <2>1, <2>2 DEF Snapshot!TypeOK
<1>24. ASSUME NEW c \in Creator, Snapshot!CrashCreate(c) PROVE Snapshot!TypeOK'
  <2>1. wait' \in [Creator -> BOOLEAN]
    BY <1>24, <1>2, ZenonT(60) DEF Snapshot!CrashCreate, Snapshot!End, Snapshot!Goto
  <2>2. pc' \in [Creator -> {"lookup", "insert", "claim", "call", "record", "read", "poll", "refresh", "finish", "fail", "done"}]
    BY <1>24, <1>7, ZenonT(60) DEF Snapshot!CrashCreate, Snapshot!End, Snapshot!Goto
  <2>3. answer' \in [Creator -> Snapshot!ProviderStates \cup {"none"}]
    BY <1>24, <1>8, ZenonT(60) DEF Snapshot!CrashCreate, Snapshot!End, Snapshot!Goto, Snapshot!ProviderStates
  <2>4. polls' \in [Creator -> 0..MaxPolls]
    <3>1. polls' = [polls EXCEPT ![c] = 0] \/ polls' = polls
      BY <1>24 DEF Snapshot!CrashCreate, Snapshot!End
    <3>2. 0 \in 0..MaxPolls
      BY DEF Snapshot!PollsAreBounded
    <3> QED
      BY <3>1, <3>2, <1>9, ZenonT(60)
  <2>5. UNCHANGED <<key, row, operation, store, deleteSent, dpc, target, seen>>
    BY <1>24 DEF Snapshot!CrashCreate, Snapshot!End, Snapshot!Goto, Snapshot!rows, Snapshot!creates, Snapshot!deletes
  <2> QED
    BY <1>1, <1>2, <1>3, <1>4, <1>5, <1>6, <1>7, <1>8, <1>9, <1>10, <1>11, <1>12, <2>1, <2>2, <2>3, <2>4, <2>5
       DEF Snapshot!TypeOK
<1>25. ASSUME NEW d \in Delete, Snapshot!ReadDeletable(d) PROVE Snapshot!TypeOK'
  <2>1. dpc' \in [Delete -> {"read", "mark", "call", "tombstone", "undo", "deleted", "done"}]
    BY <1>25, <1>10, ZenonT(60) DEF Snapshot!ReadDeletable, Snapshot!Dgoto, Snapshot!Visible
  <2>2. target' \in [Delete -> Creator \cup {Snapshot!NoTarget}]
    BY <1>25, <1>11, ZenonT(60) DEF Snapshot!ReadDeletable, Snapshot!Dgoto, Snapshot!Visible
  <2>3. seen' \in [Delete -> Snapshot!Seen]
    <3>1. PICK s \in Creator :
             seen' = [seen EXCEPT ![d] = [status |-> row[s].status, known |-> row[s].known]]
      BY <1>25 DEF Snapshot!ReadDeletable
    <3>2. row[s].status \in Snapshot!Statuses \cup {"none"} /\ row[s].known \in BOOLEAN
      BY <1>3, ZenonT(60) DEF Snapshot!Row
    <3> QED
      BY <3>1, <3>2, <1>12, ZenonT(60) DEF Snapshot!Seen
  <2>4. UNCHANGED <<key, wait, row, operation, store, deleteSent, pc, answer, polls>>
    BY <1>25 DEF Snapshot!ReadDeletable, Snapshot!Dgoto, Snapshot!Visible, Snapshot!rows, Snapshot!creates,
       Snapshot!deletes
  <2> QED
    BY <1>1, <1>2, <1>3, <1>4, <1>5, <1>6, <1>7, <1>8, <1>9, <1>10, <1>11, <1>12, <2>1, <2>2, <2>3, <2>4
       DEF Snapshot!TypeOK
<1>26. ASSUME NEW d \in Delete, Snapshot!MarkDeleting(d) PROVE Snapshot!TypeOK'
  <2>1. row' \in [Creator -> Snapshot!Row]
    BY <1>26, <1>3, ZenonT(60) DEF Snapshot!MarkDeleting, Snapshot!Dgoto, Snapshot!Row, Snapshot!Statuses
  <2>2. dpc' \in [Delete -> {"read", "mark", "call", "tombstone", "undo", "deleted", "done"}]
    BY <1>26, <1>10, ZenonT(60) DEF Snapshot!MarkDeleting, Snapshot!Dgoto
  <2>3. UNCHANGED <<key, wait, operation, store, deleteSent, pc, answer, polls, target, seen>>
    BY <1>26 DEF Snapshot!MarkDeleting, Snapshot!Dgoto, Snapshot!rows, Snapshot!creates, Snapshot!deletes
  <2> QED
    BY <1>1, <1>2, <1>3, <1>4, <1>5, <1>6, <1>7, <1>8, <1>9, <1>10, <1>11, <1>12, <2>1, <2>2, <2>3 DEF Snapshot!TypeOK
<1>27. ASSUME NEW d \in Delete, Snapshot!DeleteAtProvider(d) PROVE Snapshot!TypeOK'
  <2>1. store' \in [Creator -> Snapshot!ProviderStates \cup {"none", "gone"}]
    BY <1>27, <1>5, ZenonT(60) DEF Snapshot!DeleteAtProvider, Snapshot!Dgoto, Snapshot!ProviderStates
  <2>2. deleteSent' \in SUBSET Creator
    <3>1. deleteSent' = deleteSent \cup {target[d]} /\ dpc[d] = "call"
      BY <1>27 DEF Snapshot!DeleteAtProvider
    <3>2. target[d] \in Creator
      BY <3>1 DEF SnapshotInv, Deleting
    <3> QED
      BY <3>1, <3>2, <1>6
  <2>3. dpc' \in [Delete -> {"read", "mark", "call", "tombstone", "undo", "deleted", "done"}]
    BY <1>27, <1>10, ZenonT(60) DEF Snapshot!DeleteAtProvider, Snapshot!Dgoto
  <2>4. UNCHANGED <<key, wait, row, operation, pc, answer, polls, target, seen>>
    BY <1>27 DEF Snapshot!DeleteAtProvider, Snapshot!Dgoto, Snapshot!rows, Snapshot!creates, Snapshot!deletes
  <2> QED
    BY <1>1, <1>2, <1>3, <1>4, <1>5, <1>6, <1>7, <1>8, <1>9, <1>10, <1>11, <1>12, <2>1, <2>2, <2>3, <2>4
       DEF Snapshot!TypeOK
<1>28. ASSUME NEW d \in Delete, Snapshot!MarkDeleted(d) PROVE Snapshot!TypeOK'
  <2>1. row' \in [Creator -> Snapshot!Row]
    BY <1>28, <1>3, ZenonT(60) DEF Snapshot!MarkDeleted, Snapshot!Dgoto, Snapshot!Row, Snapshot!Statuses
  <2>2. dpc' \in [Delete -> {"read", "mark", "call", "tombstone", "undo", "deleted", "done"}]
    BY <1>28, <1>10, ZenonT(60) DEF Snapshot!MarkDeleted, Snapshot!Dgoto
  <2>3. UNCHANGED <<key, wait, operation, store, deleteSent, pc, answer, polls, target, seen>>
    BY <1>28 DEF Snapshot!MarkDeleted, Snapshot!Dgoto, Snapshot!rows, Snapshot!creates, Snapshot!deletes
  <2> QED
    BY <1>1, <1>2, <1>3, <1>4, <1>5, <1>6, <1>7, <1>8, <1>9, <1>10, <1>11, <1>12, <2>1, <2>2, <2>3 DEF Snapshot!TypeOK
<1>29. ASSUME NEW d \in Delete, Snapshot!FailDelete(d) PROVE Snapshot!TypeOK'
  <2>1. row' \in [Creator -> Snapshot!Row]
    <3>1. row' = [row EXCEPT ![target[d]].status = seen[d].status]
      BY <1>29 DEF Snapshot!FailDelete
    <3>2. seen[d].status \in Snapshot!Statuses \cup {"none"}
      BY <1>12, ZenonT(60) DEF Snapshot!Seen
    <3> QED
      BY <3>1, <3>2, <1>3, ZenonT(60) DEF Snapshot!Row
  <2>2. dpc' \in [Delete -> {"read", "mark", "call", "tombstone", "undo", "deleted", "done"}]
    BY <1>29, <1>10, ZenonT(60) DEF Snapshot!FailDelete, Snapshot!EndDelete, Snapshot!Dgoto
  <2>3. target' \in [Delete -> Creator \cup {Snapshot!NoTarget}]
    BY <1>29, <1>11, ZenonT(60) DEF Snapshot!FailDelete, Snapshot!EndDelete, Snapshot!Dgoto
  <2>4. seen' \in [Delete -> Snapshot!Seen]
    <3>1. seen' = [seen EXCEPT ![d] = Snapshot!Unseen]
      BY <1>29 DEF Snapshot!FailDelete, Snapshot!EndDelete
    <3>2. Snapshot!Unseen \in Snapshot!Seen
      BY ZenonT(60) DEF Snapshot!Unseen, Snapshot!Seen
    <3> QED
      BY <3>1, <3>2, <1>12, ZenonT(60)
  <2>5. UNCHANGED <<key, wait, operation, store, deleteSent, pc, answer, polls>>
    BY <1>29 DEF Snapshot!FailDelete, Snapshot!EndDelete, Snapshot!Dgoto, Snapshot!rows, Snapshot!creates,
       Snapshot!deletes
  <2> QED
    BY <1>1, <1>2, <1>3, <1>4, <1>5, <1>6, <1>7, <1>8, <1>9, <1>10, <1>11, <1>12, <2>1, <2>2, <2>3, <2>4, <2>5
       DEF Snapshot!TypeOK
<1>30. ASSUME NEW d \in Delete, Snapshot!CrashDelete(d) PROVE Snapshot!TypeOK'
  <2>1. dpc' \in [Delete -> {"read", "mark", "call", "tombstone", "undo", "deleted", "done"}]
    BY <1>30, <1>10, ZenonT(60) DEF Snapshot!CrashDelete, Snapshot!EndDelete, Snapshot!Dgoto
  <2>2. target' \in [Delete -> Creator \cup {Snapshot!NoTarget}]
    BY <1>30, <1>11, ZenonT(60) DEF Snapshot!CrashDelete, Snapshot!EndDelete, Snapshot!Dgoto
  <2>3. seen' \in [Delete -> Snapshot!Seen]
    <3>1. seen' = [seen EXCEPT ![d] = Snapshot!Unseen]
      BY <1>30 DEF Snapshot!CrashDelete, Snapshot!EndDelete
    <3>2. Snapshot!Unseen \in Snapshot!Seen
      BY ZenonT(60) DEF Snapshot!Unseen, Snapshot!Seen
    <3> QED
      BY <3>1, <3>2, <1>12, ZenonT(60)
  <2>4. UNCHANGED <<key, wait, row, operation, store, deleteSent, pc, answer, polls>>
    BY <1>30 DEF Snapshot!CrashDelete, Snapshot!EndDelete, Snapshot!Dgoto, Snapshot!rows, Snapshot!creates,
       Snapshot!deletes
  <2> QED
    BY <1>1, <1>2, <1>3, <1>4, <1>5, <1>6, <1>7, <1>8, <1>9, <1>10, <1>11, <1>12, <2>1, <2>2, <2>3, <2>4
       DEF Snapshot!TypeOK
<1>31. CASE UNCHANGED Snapshot!vars
  BY <1>31 DEF Snapshot!vars, Snapshot!rows, Snapshot!creates, Snapshot!deletes, Snapshot!TypeOK, SnapshotInv
<1> QED
  BY <1>13, <1>14, <1>15, <1>16, <1>17, <1>18, <1>19, <1>20, <1>21, <1>22, <1>23, <1>24, <1>25, <1>26, <1>27, <1>28,
     <1>29, <1>30, <1>31 DEF Snapshot!Next, Snapshot!CreateStep, Snapshot!DeleteStep

LEMMA SnapshotKept == ASSUME Snapshot!PollsAreBounded, SnapshotInv, [Snapshot!Next]_(Snapshot!vars) PROVE SnapshotInv'
<1>1. /\ key \in [Creator -> Key \cup {NoKey}]
      /\ wait \in [Creator -> BOOLEAN]
      /\ row \in [Creator -> Snapshot!Row]
      /\ operation \in [Creator -> {"none", "running", "succeeded", "failed"}]
      /\ store \in [Creator -> Snapshot!ProviderStates \cup {"none", "gone"}]
      /\ deleteSent \in SUBSET Creator
      /\ pc \in [Creator -> {"lookup", "insert", "claim", "call", "record", "read", "poll", "refresh", "finish", "fail", "done"}]
      /\ answer \in [Creator -> Snapshot!ProviderStates \cup {"none"}]
      /\ polls \in [Creator -> 0..MaxPolls]
      /\ dpc \in [Delete -> {"read", "mark", "call", "tombstone", "undo", "deleted", "done"}]
      /\ target \in [Delete -> Creator \cup {Snapshot!NoTarget}]
      /\ seen \in [Delete -> Snapshot!Seen]
  BY DEF SnapshotInv, Snapshot!TypeOK
<1>2. /\ Snapshot!TypeOK /\ \A c \in Creator : Creating(c)
      /\ \A d \in Delete : Deleting(d)
      /\ \A s, t \in Creator : OneRowPerKey(s, t)
  BY DEF SnapshotInv
<1>3. Snapshot!TypeOK'
  BY SnapshotTypeKept DEF SnapshotInv
<1>4. ASSUME NEW c \in Creator, Snapshot!Lookup(c) PROVE SnapshotInv'
  <2>1. CASE Snapshot!End(c) /\ key' = key
    <3>1. pc[c] = "lookup"
      BY <1>4, <2>1 DEF Snapshot!Lookup, Snapshot!End, Snapshot!Goto
    <3>2. pc' = [pc EXCEPT ![c] = "done"]
      BY <1>4, <2>1 DEF Snapshot!Lookup, Snapshot!End, Snapshot!Goto
    <3>3. /\ pc'[c] = "done"
          /\ \A z \in Creator : z # c => pc'[z] = pc[z]
      BY <1>1, <3>1, <3>2
    <3>4. answer' = [answer EXCEPT ![c] = "none"]
      BY <1>4, <2>1 DEF Snapshot!Lookup, Snapshot!End, Snapshot!Goto
    <3>5. /\ answer'[c] = "none"
          /\ \A z \in Creator : z # c => answer'[z] = answer[z]
      BY <1>1, <3>1, <3>4
    <3>6. UNCHANGED <<key, row, operation, store, deleteSent, dpc, target, seen>>
      BY <1>4, <2>1
         DEF Snapshot!Lookup, Snapshot!End, Snapshot!Goto, Snapshot!rows, Snapshot!creates, Snapshot!deletes
    <3>7. ASSUME NEW x \in Creator PROVE Creating(x)'
      BY <2>1, <1>2, RowFields, <3>1, <3>3, <3>5, <3>6, SMTT(20)
         DEF Creating, Ready, Snapshot!Inserted, Snapshot!ProviderStates
    <3>8. ASSUME NEW x \in Delete PROVE Deleting(x)'
      BY <1>2, <3>6 DEF Deleting, Ready, Snapshot!Inserted, Snapshot!ProviderStates
    <3>9. ASSUME NEW x \in Creator, NEW y \in Creator PROVE OneRowPerKey(x, y)'
      BY <1>2, <3>6 DEF OneRowPerKey, Snapshot!Inserted
    <3> QED
      BY <1>3, <3>7, <3>8, <3>9 DEF SnapshotInv
  <2>2. CASE ~(Snapshot!End(c) /\ key' = key)
    <3>1. pc[c] = "lookup"
      BY <1>4, <2>2 DEF Snapshot!Lookup, Snapshot!End, Snapshot!Goto
    <3>2. \A z \in Creator : z # c => key'[z] = key[z]
      BY <1>4, <2>2, <1>1, <3>1 DEF Snapshot!Lookup, Snapshot!End, Snapshot!Goto
    <3>3. pc' = [pc EXCEPT ![c] = "insert"]
      BY <1>4, <2>2 DEF Snapshot!Lookup, Snapshot!End, Snapshot!Goto
    <3>4. /\ pc'[c] = "insert"
          /\ \A z \in Creator : z # c => pc'[z] = pc[z]
      BY <1>1, <3>1, <3>3
    <3>5. UNCHANGED <<row, operation, store, deleteSent, answer, polls, dpc, target, seen>>
      BY <1>4, <2>2
         DEF Snapshot!Lookup, Snapshot!End, Snapshot!Goto, Snapshot!rows, Snapshot!creates, Snapshot!deletes
    <3>6. ASSUME NEW x \in Creator PROVE Creating(x)'
      BY <2>2, <1>2, RowFields, <3>1, <3>2, <3>4, <3>5, SMTT(20)
         DEF Creating, Ready, Snapshot!Inserted, Snapshot!ProviderStates
    <3>7. ASSUME NEW x \in Delete PROVE Deleting(x)'
      BY <1>2, <3>5 DEF Deleting, Ready, Snapshot!Inserted, Snapshot!ProviderStates
    <3>8. ASSUME NEW x \in Creator, NEW y \in Creator PROVE OneRowPerKey(x, y)'
      BY <2>2, <1>2, RowFields, <3>1, <3>2, <3>4, <3>5, SMTT(20)
         DEF OneRowPerKey, Snapshot!Inserted, Creating, Ready, Snapshot!ProviderStates
    <3> QED
      BY <1>3, <3>6, <3>7, <3>8 DEF SnapshotInv
  <2> QED
    BY <2>1, <2>2, <1>4 DEF Snapshot!Lookup, Snapshot!End, Snapshot!Goto
<1>5. ASSUME NEW c \in Creator, Snapshot!Insert(c) PROVE SnapshotInv'
  <2>1. CASE key[c] # NoKey /\ \E s \in Creator : Snapshot!Inserted(s) /\ key[s] = key[c]
    <3>1. pc[c] = "insert"
      BY <1>5, <2>1 DEF Snapshot!Insert, Snapshot!End, Snapshot!Goto
    <3>2. pc' = [pc EXCEPT ![c] = "done"]
      BY <1>5, <2>1 DEF Snapshot!Insert, Snapshot!End, Snapshot!Goto
    <3>3. /\ pc'[c] = "done"
          /\ \A z \in Creator : z # c => pc'[z] = pc[z]
      BY <1>1, <3>1, <3>2
    <3>4. answer' = [answer EXCEPT ![c] = "none"]
      BY <1>5, <2>1 DEF Snapshot!Insert, Snapshot!End, Snapshot!Goto
    <3>5. /\ answer'[c] = "none"
          /\ \A z \in Creator : z # c => answer'[z] = answer[z]
      BY <1>1, <3>1, <3>4
    <3>6. UNCHANGED <<key, row, operation, store, deleteSent, dpc, target, seen>>
      BY <1>5, <2>1
         DEF Snapshot!Insert, Snapshot!End, Snapshot!Goto, Snapshot!rows, Snapshot!creates, Snapshot!deletes
    <3>7. ASSUME NEW x \in Creator PROVE Creating(x)'
      BY <2>1, <1>2, RowFields, <3>1, <3>3, <3>5, <3>6, SMTT(20)
         DEF Creating, Ready, Snapshot!Inserted, Snapshot!ProviderStates
    <3>8. ASSUME NEW x \in Delete PROVE Deleting(x)'
      BY <1>2, <3>6 DEF Deleting, Ready, Snapshot!Inserted, Snapshot!ProviderStates
    <3>9. ASSUME NEW x \in Creator, NEW y \in Creator PROVE OneRowPerKey(x, y)'
      BY <1>2, <3>6 DEF OneRowPerKey, Snapshot!Inserted
    <3> QED
      BY <1>3, <3>7, <3>8, <3>9 DEF SnapshotInv
  <2>2. CASE ~(key[c] # NoKey /\ \E s \in Creator : Snapshot!Inserted(s) /\ key[s] = key[c])
    <3>1. /\ pc[c] = "insert"
          /\ key[c] = NoKey \/ \A s \in Creator : Snapshot!Inserted(s) => key[s] # key[c]
      BY <1>5, <2>2 DEF Snapshot!Insert, Snapshot!End, Snapshot!Goto
    <3>2. row' = [row EXCEPT ![c] = [status |-> "creating", tombstone |-> FALSE, known |-> FALSE]]
      BY <1>5, <2>2 DEF Snapshot!Insert, Snapshot!End, Snapshot!Goto
    <3>3. /\ row'[c].status = "creating"
          /\ row'[c].tombstone = FALSE
          /\ row'[c].known = FALSE
          /\ \A z \in Creator : z # c => row'[z] = row[z]
      BY <1>1, <3>1, <3>2 DEF Snapshot!Row
    <3>4. pc' = [pc EXCEPT ![c] = "claim"]
      BY <1>5, <2>2 DEF Snapshot!Insert, Snapshot!End, Snapshot!Goto
    <3>5. /\ pc'[c] = "claim"
          /\ \A z \in Creator : z # c => pc'[z] = pc[z]
      BY <1>1, <3>1, <3>4
    <3>6. UNCHANGED <<key, wait, operation, store, deleteSent, answer, polls, dpc, target, seen>>
      BY <1>5, <2>2
         DEF Snapshot!Insert, Snapshot!End, Snapshot!Goto, Snapshot!rows, Snapshot!creates, Snapshot!deletes
    <3>7. ASSUME NEW x \in Creator PROVE Creating(x)'
      BY <2>2, <1>2, RowFields, <3>1, <3>3, <3>5, <3>6, SMTT(20)
         DEF Creating, Ready, Snapshot!Inserted, Snapshot!ProviderStates
    <3>8. ASSUME NEW x \in Delete PROVE Deleting(x)'
      BY <2>2, <1>2, RowFields, <3>1, <3>3, <3>5, <3>6, SMTT(20)
         DEF Deleting, Ready, Snapshot!Inserted, Snapshot!ProviderStates, Creating
    <3>9. ASSUME NEW x \in Creator, NEW y \in Creator PROVE OneRowPerKey(x, y)'
      BY <2>2, <1>2, RowFields, <3>1, <3>3, <3>5, <3>6, SMTT(20) DEF OneRowPerKey, Snapshot!Inserted
    <3> QED
      BY <1>3, <3>7, <3>8, <3>9 DEF SnapshotInv
  <2> QED
    BY <2>1, <2>2, <1>5 DEF Snapshot!Insert, Snapshot!End, Snapshot!Goto
<1>6. ASSUME NEW c \in Creator, Snapshot!ClaimOperation(c) PROVE SnapshotInv'
  <2>1. pc[c] = "claim"
    BY <1>6 DEF Snapshot!ClaimOperation, Snapshot!Goto
  <2>2. pc' = [pc EXCEPT ![c] = "call"]
    BY <1>6 DEF Snapshot!ClaimOperation, Snapshot!Goto
  <2>3. /\ pc'[c] = "call"
        /\ \A z \in Creator : z # c => pc'[z] = pc[z]
    BY <1>1, <2>1, <2>2
  <2>4. UNCHANGED <<key, wait, row, store, deleteSent, answer, polls, dpc, target, seen>>
    BY <1>6 DEF Snapshot!ClaimOperation, Snapshot!Goto, Snapshot!rows, Snapshot!creates, Snapshot!deletes
  <2>5. ASSUME NEW x \in Creator PROVE Creating(x)'
    BY <1>2, RowFields, <2>1, <2>3, <2>4, SMTT(20) DEF Creating, Ready, Snapshot!Inserted, Snapshot!ProviderStates
  <2>6. ASSUME NEW x \in Delete PROVE Deleting(x)'
    BY <1>2, <2>4 DEF Deleting, Ready, Snapshot!Inserted, Snapshot!ProviderStates
  <2>7. ASSUME NEW x \in Creator, NEW y \in Creator PROVE OneRowPerKey(x, y)'
    BY <1>2, <2>4 DEF OneRowPerKey, Snapshot!Inserted
  <2> QED
    BY <1>3, <2>5, <2>6, <2>7 DEF SnapshotInv
<1>7. ASSUME NEW c \in Creator, Snapshot!CallProvider(c) PROVE SnapshotInv'
  <2>1. CASE pc' = [pc EXCEPT ![c] = "fail"] /\ store' = store /\ answer' = answer
    <3>1. pc[c] = "call"
      BY <1>7, <2>1 DEF Snapshot!CallProvider, Snapshot!Goto
    <3>2. pc' = [pc EXCEPT ![c] = "fail"]
      BY <1>7, <2>1 DEF Snapshot!CallProvider, Snapshot!Goto
    <3>3. /\ pc'[c] = "fail"
          /\ \A z \in Creator : z # c => pc'[z] = pc[z]
      BY <1>1, <3>1, <3>2
    <3>4. UNCHANGED <<key, wait, row, operation, store, deleteSent, answer, polls, dpc, target, seen>>
      BY <1>7, <2>1 DEF Snapshot!CallProvider, Snapshot!Goto, Snapshot!rows, Snapshot!creates, Snapshot!deletes
    <3>5. ASSUME NEW x \in Creator PROVE Creating(x)'
      BY <1>2, RowFields, <3>1, <3>3, <3>4, SMTT(20) DEF Creating, Ready, Snapshot!Inserted, Snapshot!ProviderStates
    <3>6. ASSUME NEW x \in Delete PROVE Deleting(x)'
      BY <1>2, <3>4 DEF Deleting, Ready, Snapshot!Inserted, Snapshot!ProviderStates
    <3>7. ASSUME NEW x \in Creator, NEW y \in Creator PROVE OneRowPerKey(x, y)'
      BY <1>2, <3>4 DEF OneRowPerKey, Snapshot!Inserted
    <3> QED
      BY <1>3, <3>5, <3>6, <3>7 DEF SnapshotInv
  <2>2. CASE ~(pc' = [pc EXCEPT ![c] = "fail"] /\ store' = store /\ answer' = answer)
    <3>1. pc[c] = "call"
      BY <1>7, <2>2 DEF Snapshot!CallProvider, Snapshot!Goto
    <3>2. /\ store'[c] \in Snapshot!ProviderStates
          /\ \A z \in Creator : z # c => store'[z] = store[z]
          /\ (pc'[c] = "record" /\ answer'[c] = store'[c]) \/ (pc'[c] = "fail" /\ answer'[c] = answer[c])
          /\ \A z \in Creator : z # c => pc'[z] = pc[z] /\ answer'[z] = answer[z]
    <4>1. PICK s \in Snapshot!ProviderStates :
            /\ store' = [store EXCEPT ![c] = s]
            /\ \/ answer' = [answer EXCEPT ![c] = s] /\ pc' = [pc EXCEPT ![c] = "record"]
               \/ answer' = answer /\ pc' = [pc EXCEPT ![c] = "fail"]
      BY <1>7, <2>2 DEF Snapshot!CallProvider, Snapshot!Goto
    <4>2. CASE answer' = [answer EXCEPT ![c] = s] /\ pc' = [pc EXCEPT ![c] = "record"]
      BY <1>1, <4>1, <4>2
    <4>3. CASE answer' = answer /\ pc' = [pc EXCEPT ![c] = "fail"]
      BY <1>1, <4>1, <4>3
    <4> QED
      BY <4>1, <4>2, <4>3
    <3>3. UNCHANGED <<key, wait, row, operation, deleteSent, polls, dpc, target, seen>>
      BY <1>7, <2>2 DEF Snapshot!CallProvider, Snapshot!Goto, Snapshot!rows, Snapshot!creates, Snapshot!deletes
    <3>4. ASSUME NEW x \in Creator PROVE Creating(x)'
      BY <1>2, RowFields, <3>1, <3>2, <3>3, SMTT(20) DEF Creating, Ready, Snapshot!Inserted, Snapshot!ProviderStates
    <3>5. ASSUME NEW x \in Delete PROVE Deleting(x)'
      BY <1>2, RowFields, <3>1, <3>2, <3>3, SMTT(20)
         DEF Deleting, Ready, Snapshot!Inserted, Snapshot!ProviderStates, Creating
    <3>6. ASSUME NEW x \in Creator, NEW y \in Creator PROVE OneRowPerKey(x, y)'
      BY <1>2, <3>3 DEF OneRowPerKey, Snapshot!Inserted
    <3> QED
      BY <1>3, <3>4, <3>5, <3>6 DEF SnapshotInv
  <2> QED
    BY <2>1, <2>2, <1>7 DEF Snapshot!CallProvider, Snapshot!Goto
<1>8. ASSUME NEW c \in Creator, Snapshot!Record(c) PROVE SnapshotInv'
  <2>1. pc[c] = "record"
    BY <1>8 DEF Snapshot!Record, Snapshot!Goto, Snapshot!UpdateFromProvider
  <2>2. row' = [row EXCEPT ![c] = [@ EXCEPT !.status = answer[c], !.known = TRUE]]
    BY <1>8 DEF Snapshot!Record, Snapshot!Goto, Snapshot!UpdateFromProvider
  <2>3. /\ row'[c].status = answer[c]
        /\ row'[c].tombstone = row[c].tombstone
        /\ row'[c].known = TRUE
        /\ \A z \in Creator : z # c => row'[z] = row[z]
    BY <1>1, <2>1, <2>2 DEF Snapshot!Row
  <2>4. answer' = [answer EXCEPT ![c] = "none"]
    BY <1>8 DEF Snapshot!Record, Snapshot!Goto, Snapshot!UpdateFromProvider
  <2>5. /\ answer'[c] = "none"
        /\ \A z \in Creator : z # c => answer'[z] = answer[z]
    BY <1>1, <2>1, <2>4
  <2>6. /\ pc'[c] \in {"poll", "read"}
        /\ \A z \in Creator : z # c => pc'[z] = pc[z]
    BY <1>8, <1>1, <2>1 DEF Snapshot!Record, Snapshot!Goto, Snapshot!UpdateFromProvider
  <2>7. UNCHANGED <<key, wait, operation, store, deleteSent, polls, dpc, target, seen>>
    BY <1>8 DEF Snapshot!Record, Snapshot!Goto, Snapshot!UpdateFromProvider, Snapshot!rows, Snapshot!creates,
       Snapshot!deletes
  <2>8. ASSUME NEW x \in Creator PROVE Creating(x)'
    BY <1>2, RowFields, <2>1, <2>3, <2>5, <2>6, <2>7, SMTT(20)
       DEF Creating, Ready, Snapshot!Inserted, Snapshot!ProviderStates
  <2>9. ASSUME NEW x \in Delete PROVE Deleting(x)'
    BY <1>2, RowFields, <2>1, <2>3, <2>5, <2>6, <2>7, SMTT(20)
       DEF Deleting, Ready, Snapshot!Inserted, Snapshot!ProviderStates, Creating
  <2>10. ASSUME NEW x \in Creator, NEW y \in Creator PROVE OneRowPerKey(x, y)'
    BY <1>2, RowFields, <2>1, <2>3, <2>5, <2>6, <2>7, SMTT(20)
       DEF OneRowPerKey, Snapshot!Inserted, Creating, Ready, Snapshot!ProviderStates
  <2> QED
    BY <1>3, <2>8, <2>9, <2>10 DEF SnapshotInv
<1>9. ASSUME NEW c \in Creator, Snapshot!ReadRow(c) PROVE SnapshotInv'
  <2>1. pc[c] = "read"
    BY <1>9 DEF Snapshot!ReadRow, Snapshot!Goto
  <2>2. /\ pc'[c] \in {"finish", "fail"}
        /\ \A z \in Creator : z # c => pc'[z] = pc[z]
    BY <1>9, <1>1, <2>1 DEF Snapshot!ReadRow, Snapshot!Goto
  <2>3. UNCHANGED <<key, wait, row, operation, store, deleteSent, answer, polls, dpc, target, seen>>
    BY <1>9 DEF Snapshot!ReadRow, Snapshot!Goto, Snapshot!rows, Snapshot!creates, Snapshot!deletes
  <2>4. ASSUME NEW x \in Creator PROVE Creating(x)'
    BY <1>2, RowFields, <2>1, <2>2, <2>3, SMTT(20) DEF Creating, Ready, Snapshot!Inserted, Snapshot!ProviderStates
  <2>5. ASSUME NEW x \in Delete PROVE Deleting(x)'
    BY <1>2, <2>3 DEF Deleting, Ready, Snapshot!Inserted, Snapshot!ProviderStates
  <2>6. ASSUME NEW x \in Creator, NEW y \in Creator PROVE OneRowPerKey(x, y)'
    BY <1>2, <2>3 DEF OneRowPerKey, Snapshot!Inserted
  <2> QED
    BY <1>3, <2>4, <2>5, <2>6 DEF SnapshotInv
<1>10. ASSUME NEW c \in Creator, Snapshot!Poll(c) PROVE SnapshotInv'
  <2>1. CASE answer' = answer
    <3>1. pc[c] = "poll"
      BY <1>10, <2>1 DEF Snapshot!Poll, Snapshot!Goto
    <3>2. /\ pc'[c] \in {"read", "finish", "poll", "fail"} \/ (pc'[c] = "refresh" /\ store[c] \in Snapshot!ProviderStates /\ answer[c] = store[c])
          /\ \A z \in Creator : z # c => pc'[z] = pc[z]
      BY <1>10, <2>1, <1>1, <3>1 DEF Snapshot!Poll, Snapshot!Goto
    <3>3. UNCHANGED <<key, wait, row, operation, store, deleteSent, answer, dpc, target, seen>>
      BY <1>10, <2>1 DEF Snapshot!Poll, Snapshot!Goto, Snapshot!rows, Snapshot!creates, Snapshot!deletes
    <3>4. ASSUME NEW x \in Creator PROVE Creating(x)'
      BY <2>1, <1>2, RowFields, <3>1, <3>2, <3>3, SMTT(20)
         DEF Creating, Ready, Snapshot!Inserted, Snapshot!ProviderStates
    <3>5. ASSUME NEW x \in Delete PROVE Deleting(x)'
      BY <1>2, <3>3 DEF Deleting, Ready, Snapshot!Inserted, Snapshot!ProviderStates
    <3>6. ASSUME NEW x \in Creator, NEW y \in Creator PROVE OneRowPerKey(x, y)'
      BY <1>2, <3>3 DEF OneRowPerKey, Snapshot!Inserted
    <3> QED
      BY <1>3, <3>4, <3>5, <3>6 DEF SnapshotInv
  <2>2. CASE answer' # answer
    <3>1. /\ pc[c] = "poll"
          /\ store[c] \in Snapshot!ProviderStates
      BY <1>10, <2>2 DEF Snapshot!Poll, Snapshot!Goto
    <3>2. answer' = [answer EXCEPT ![c] = store[c]]
      BY <1>10, <2>2 DEF Snapshot!Poll, Snapshot!Goto
    <3>3. /\ answer'[c] = store[c]
          /\ \A z \in Creator : z # c => answer'[z] = answer[z]
      BY <1>1, <3>1, <3>2
    <3>4. pc' = [pc EXCEPT ![c] = "refresh"]
      BY <1>10, <2>2 DEF Snapshot!Poll, Snapshot!Goto
    <3>5. /\ pc'[c] = "refresh"
          /\ \A z \in Creator : z # c => pc'[z] = pc[z]
      BY <1>1, <3>1, <3>4
    <3>6. UNCHANGED <<key, wait, row, operation, store, deleteSent, dpc, target, seen>>
      BY <1>10, <2>2 DEF Snapshot!Poll, Snapshot!Goto, Snapshot!rows, Snapshot!creates, Snapshot!deletes
    <3>7. ASSUME NEW x \in Creator PROVE Creating(x)'
      BY <2>2, <1>2, RowFields, <3>1, <3>3, <3>5, <3>6, SMTT(20)
         DEF Creating, Ready, Snapshot!Inserted, Snapshot!ProviderStates
    <3>8. ASSUME NEW x \in Delete PROVE Deleting(x)'
      BY <1>2, <3>6 DEF Deleting, Ready, Snapshot!Inserted, Snapshot!ProviderStates
    <3>9. ASSUME NEW x \in Creator, NEW y \in Creator PROVE OneRowPerKey(x, y)'
      BY <1>2, <3>6 DEF OneRowPerKey, Snapshot!Inserted
    <3> QED
      BY <1>3, <3>7, <3>8, <3>9 DEF SnapshotInv
  <2> QED
    BY <2>1, <2>2, <1>10 DEF Snapshot!Poll, Snapshot!Goto
<1>11. ASSUME NEW c \in Creator, Snapshot!Refresh(c) PROVE SnapshotInv'
  <2>1. pc[c] = "refresh"
    BY <1>11 DEF Snapshot!Refresh, Snapshot!Goto, Snapshot!UpdateFromProvider
  <2>2. row' = [row EXCEPT ![c] = [@ EXCEPT !.status = answer[c], !.known = TRUE]]
    BY <1>11 DEF Snapshot!Refresh, Snapshot!Goto, Snapshot!UpdateFromProvider
  <2>3. /\ row'[c].status = answer[c]
        /\ row'[c].tombstone = row[c].tombstone
        /\ row'[c].known = TRUE
        /\ \A z \in Creator : z # c => row'[z] = row[z]
    BY <1>1, <2>1, <2>2 DEF Snapshot!Row
  <2>4. answer' = [answer EXCEPT ![c] = "none"]
    BY <1>11 DEF Snapshot!Refresh, Snapshot!Goto, Snapshot!UpdateFromProvider
  <2>5. /\ answer'[c] = "none"
        /\ \A z \in Creator : z # c => answer'[z] = answer[z]
    BY <1>1, <2>1, <2>4
  <2>6. /\ pc'[c] \in {"poll", "finish"}
        /\ \A z \in Creator : z # c => pc'[z] = pc[z]
    BY <1>11, <1>1, <2>1 DEF Snapshot!Refresh, Snapshot!Goto, Snapshot!UpdateFromProvider
  <2>7. UNCHANGED <<key, wait, operation, store, deleteSent, polls, dpc, target, seen>>
    BY <1>11 DEF Snapshot!Refresh, Snapshot!Goto, Snapshot!UpdateFromProvider, Snapshot!rows, Snapshot!creates,
       Snapshot!deletes
  <2>8. ASSUME NEW x \in Creator PROVE Creating(x)'
    BY <1>2, RowFields, <2>1, <2>3, <2>5, <2>6, <2>7, SMTT(20)
       DEF Creating, Ready, Snapshot!Inserted, Snapshot!ProviderStates
  <2>9. ASSUME NEW x \in Delete PROVE Deleting(x)'
    BY <1>2, RowFields, <2>1, <2>3, <2>5, <2>6, <2>7, SMTT(20)
       DEF Deleting, Ready, Snapshot!Inserted, Snapshot!ProviderStates, Creating
  <2>10. ASSUME NEW x \in Creator, NEW y \in Creator PROVE OneRowPerKey(x, y)'
    BY <1>2, RowFields, <2>1, <2>3, <2>5, <2>6, <2>7, SMTT(20)
       DEF OneRowPerKey, Snapshot!Inserted, Creating, Ready, Snapshot!ProviderStates
  <2> QED
    BY <1>3, <2>8, <2>9, <2>10 DEF SnapshotInv
<1>12. ASSUME NEW c \in Creator, Snapshot!Finish(c) PROVE SnapshotInv'
  <2>1. pc[c] = "finish"
    BY <1>12 DEF Snapshot!Finish, Snapshot!End, Snapshot!Goto
  <2>2. pc' = [pc EXCEPT ![c] = "done"]
    BY <1>12 DEF Snapshot!Finish, Snapshot!End, Snapshot!Goto
  <2>3. /\ pc'[c] = "done"
        /\ \A z \in Creator : z # c => pc'[z] = pc[z]
    BY <1>1, <2>1, <2>2
  <2>4. answer' = [answer EXCEPT ![c] = "none"]
    BY <1>12 DEF Snapshot!Finish, Snapshot!End, Snapshot!Goto
  <2>5. /\ answer'[c] = "none"
        /\ \A z \in Creator : z # c => answer'[z] = answer[z]
    BY <1>1, <2>1, <2>4
  <2>6. UNCHANGED <<key, row, store, deleteSent, dpc, target, seen>>
    BY <1>12 DEF Snapshot!Finish, Snapshot!End, Snapshot!Goto, Snapshot!rows, Snapshot!creates, Snapshot!deletes
  <2>7. ASSUME NEW x \in Creator PROVE Creating(x)'
    BY <1>2, RowFields, <2>1, <2>3, <2>5, <2>6, SMTT(20)
       DEF Creating, Ready, Snapshot!Inserted, Snapshot!ProviderStates
  <2>8. ASSUME NEW x \in Delete PROVE Deleting(x)'
    BY <1>2, <2>6 DEF Deleting, Ready, Snapshot!Inserted, Snapshot!ProviderStates
  <2>9. ASSUME NEW x \in Creator, NEW y \in Creator PROVE OneRowPerKey(x, y)'
    BY <1>2, <2>6 DEF OneRowPerKey, Snapshot!Inserted
  <2> QED
    BY <1>3, <2>7, <2>8, <2>9 DEF SnapshotInv
<1>13. ASSUME NEW c \in Creator, Snapshot!FailCreate(c) PROVE SnapshotInv'
  <2>1. pc[c] = "fail"
    BY <1>13 DEF Snapshot!FailCreate, Snapshot!End, Snapshot!Goto
  <2>2. row' = [row EXCEPT ![c].status = "failed"]
    BY <1>13 DEF Snapshot!FailCreate, Snapshot!End, Snapshot!Goto
  <2>3. /\ row'[c].status = "failed"
        /\ row'[c].tombstone = row[c].tombstone
        /\ row'[c].known = row[c].known
        /\ \A z \in Creator : z # c => row'[z] = row[z]
    BY <1>1, <2>1, <2>2 DEF Snapshot!Row
  <2>4. pc' = [pc EXCEPT ![c] = "done"]
    BY <1>13 DEF Snapshot!FailCreate, Snapshot!End, Snapshot!Goto
  <2>5. /\ pc'[c] = "done"
        /\ \A z \in Creator : z # c => pc'[z] = pc[z]
    BY <1>1, <2>1, <2>4
  <2>6. answer' = [answer EXCEPT ![c] = "none"]
    BY <1>13 DEF Snapshot!FailCreate, Snapshot!End, Snapshot!Goto
  <2>7. /\ answer'[c] = "none"
        /\ \A z \in Creator : z # c => answer'[z] = answer[z]
    BY <1>1, <2>1, <2>6
  <2>8. UNCHANGED <<key, store, deleteSent, dpc, target, seen>>
    BY <1>13 DEF Snapshot!FailCreate, Snapshot!End, Snapshot!Goto, Snapshot!rows, Snapshot!creates, Snapshot!deletes
  <2>9. ASSUME NEW x \in Creator PROVE Creating(x)'
    BY <1>2, RowFields, <2>1, <2>3, <2>5, <2>7, <2>8, SMTT(20)
       DEF Creating, Ready, Snapshot!Inserted, Snapshot!ProviderStates
  <2>10. ASSUME NEW x \in Delete PROVE Deleting(x)'
    BY <1>2, RowFields, <2>1, <2>3, <2>5, <2>7, <2>8, SMTT(20)
       DEF Deleting, Ready, Snapshot!Inserted, Snapshot!ProviderStates
  <2>11. ASSUME NEW x \in Creator, NEW y \in Creator PROVE OneRowPerKey(x, y)'
    BY <1>2, RowFields, <2>1, <2>3, <2>5, <2>7, <2>8, SMTT(20)
       DEF OneRowPerKey, Snapshot!Inserted, Creating, Ready, Snapshot!ProviderStates
  <2> QED
    BY <1>3, <2>9, <2>10, <2>11 DEF SnapshotInv
<1>14. ASSUME NEW c \in Creator, Snapshot!ProviderProgress(c) PROVE SnapshotInv'
  <2>1. store[c] = "creating"
    BY <1>14 DEF Snapshot!ProviderProgress
  <2>2. /\ store'[c] \in {"ready", "failed"}
        /\ \A z \in Creator : z # c => store'[z] = store[z]
    BY <1>14, <1>1, <2>1 DEF Snapshot!ProviderProgress
  <2>3. UNCHANGED <<key, wait, row, operation, deleteSent, pc, answer, polls, dpc, target, seen>>
    BY <1>14 DEF Snapshot!ProviderProgress, Snapshot!rows, Snapshot!creates, Snapshot!deletes
  <2>4. ASSUME NEW x \in Creator PROVE Creating(x)'
    BY <1>2, RowFields, <2>1, <2>2, <2>3, SMTT(20) DEF Creating, Ready, Snapshot!Inserted, Snapshot!ProviderStates
  <2>5. ASSUME NEW x \in Delete PROVE Deleting(x)'
    BY <1>2, RowFields, <2>1, <2>2, <2>3, SMTT(20) DEF Deleting, Ready, Snapshot!Inserted, Snapshot!ProviderStates
  <2>6. ASSUME NEW x \in Creator, NEW y \in Creator PROVE OneRowPerKey(x, y)'
    BY <1>2, <2>3 DEF OneRowPerKey, Snapshot!Inserted
  <2> QED
    BY <1>3, <2>4, <2>5, <2>6 DEF SnapshotInv
<1>15. ASSUME NEW c \in Creator, Snapshot!CrashCreate(c) PROVE SnapshotInv'
  <2>1. pc[c] \notin {"lookup", "done"}
    BY <1>15 DEF Snapshot!CrashCreate, Snapshot!End, Snapshot!Goto
  <2>2. pc' = [pc EXCEPT ![c] = "done"]
    BY <1>15 DEF Snapshot!CrashCreate, Snapshot!End, Snapshot!Goto
  <2>3. /\ pc'[c] = "done"
        /\ \A z \in Creator : z # c => pc'[z] = pc[z]
    BY <1>1, <2>1, <2>2
  <2>4. answer' = [answer EXCEPT ![c] = "none"]
    BY <1>15 DEF Snapshot!CrashCreate, Snapshot!End, Snapshot!Goto
  <2>5. /\ answer'[c] = "none"
        /\ \A z \in Creator : z # c => answer'[z] = answer[z]
    BY <1>1, <2>1, <2>4
  <2>6. UNCHANGED <<key, row, operation, store, deleteSent, dpc, target, seen>>
    BY <1>15 DEF Snapshot!CrashCreate, Snapshot!End, Snapshot!Goto, Snapshot!rows, Snapshot!creates, Snapshot!deletes
  <2>7. ASSUME NEW x \in Creator PROVE Creating(x)'
    BY <1>2, RowFields, <2>1, <2>3, <2>5, <2>6, SMTT(20)
       DEF Creating, Ready, Snapshot!Inserted, Snapshot!ProviderStates
  <2>8. ASSUME NEW x \in Delete PROVE Deleting(x)'
    BY <1>2, <2>6 DEF Deleting, Ready, Snapshot!Inserted, Snapshot!ProviderStates
  <2>9. ASSUME NEW x \in Creator, NEW y \in Creator PROVE OneRowPerKey(x, y)'
    BY <1>2, <2>6 DEF OneRowPerKey, Snapshot!Inserted
  <2> QED
    BY <1>3, <2>7, <2>8, <2>9 DEF SnapshotInv
<1>16. ASSUME NEW d \in Delete, Snapshot!ReadDeletable(d) PROVE SnapshotInv'
  <2>1. dpc[d] = "read"
    BY <1>16 DEF Snapshot!ReadDeletable, Snapshot!Dgoto, Snapshot!Visible
  <2>2. /\ target'[d] \in Creator
        /\ Snapshot!Inserted(target'[d])
        /\ seen'[d].status = row[target'[d]].status
        /\ seen'[d].known = row[target'[d]].known
        /\ \A z \in Delete : z # d => target'[z] = target[z] /\ seen'[z] = seen[z]
    <3>1. PICK s \in Creator :
            /\ Snapshot!Inserted(s) /\ target' = [target EXCEPT ![d] = s]
            /\ seen' = [seen EXCEPT ![d] = [status |-> row[s].status, known |-> row[s].known]]
      BY <1>16 DEF Snapshot!ReadDeletable, Snapshot!Visible
    <3> QED
      BY <1>1, <3>1 DEF Snapshot!Seen
  <2>3. dpc' = [dpc EXCEPT ![d] = "mark"]
    BY <1>16 DEF Snapshot!ReadDeletable, Snapshot!Dgoto, Snapshot!Visible
  <2>4. /\ dpc'[d] = "mark"
        /\ \A z \in Delete : z # d => dpc'[z] = dpc[z]
    BY <1>1, <2>1, <2>3
  <2>5. UNCHANGED <<key, wait, row, operation, store, deleteSent, pc, answer, polls>>
    BY <1>16 DEF Snapshot!ReadDeletable, Snapshot!Dgoto, Snapshot!Visible, Snapshot!rows, Snapshot!creates,
       Snapshot!deletes
  <2>6. ASSUME NEW x \in Creator PROVE Creating(x)'
    BY <1>2, <2>5 DEF Creating, Ready, Snapshot!Inserted, Snapshot!ProviderStates
  <2>7. ASSUME NEW x \in Delete PROVE Deleting(x)'
    BY <1>2, RowFields, <2>1, <2>2, <2>4, <2>5, SMTT(20)
       DEF Deleting, Ready, Snapshot!Inserted, Snapshot!ProviderStates, Creating
  <2>8. ASSUME NEW x \in Creator, NEW y \in Creator PROVE OneRowPerKey(x, y)'
    BY <1>2, <2>5 DEF OneRowPerKey, Snapshot!Inserted
  <2> QED
    BY <1>3, <2>6, <2>7, <2>8 DEF SnapshotInv
<1>17. ASSUME NEW d \in Delete, Snapshot!MarkDeleting(d) PROVE SnapshotInv'
  <2>1. /\ dpc[d] = "mark"
        /\ target[d] \in Creator
    BY <1>17, <1>2, RowFields DEF Snapshot!MarkDeleting, Snapshot!Dgoto, Creating, Snapshot!Inserted, Deleting
  <2>2. row' = [row EXCEPT ![target[d]].status = "deleting"]
    BY <1>17 DEF Snapshot!MarkDeleting, Snapshot!Dgoto
  <2>3. /\ row'[target[d]].status = "deleting"
        /\ row'[target[d]].tombstone = row[target[d]].tombstone
        /\ row'[target[d]].known = row[target[d]].known
        /\ \A z \in Creator : z # target[d] => row'[z] = row[z]
    BY <1>1, <2>1, <2>2 DEF Snapshot!Row
  <2>4. /\ dpc'[d] = IF seen[d].known THEN "call" ELSE "tombstone"
        /\ \A z \in Delete : z # d => dpc'[z] = dpc[z]
    BY <1>17, <1>1, <2>1 DEF Snapshot!MarkDeleting, Snapshot!Dgoto
  <2>5. UNCHANGED <<key, wait, operation, store, deleteSent, pc, answer, polls, target, seen>>
    BY <1>17 DEF Snapshot!MarkDeleting, Snapshot!Dgoto, Snapshot!rows, Snapshot!creates, Snapshot!deletes
  <2>6. ASSUME NEW x \in Creator PROVE Creating(x)'
    BY <1>2, RowFields, <2>1, <2>3, <2>4, <2>5, SMTT(20)
       DEF Creating, Ready, Snapshot!Inserted, Snapshot!ProviderStates, Deleting
  <2>7. ASSUME NEW x \in Delete PROVE Deleting(x)'
    BY <1>2, RowFields, <2>1, <2>3, <2>4, <2>5, SMTT(20)
       DEF Deleting, Ready, Snapshot!Inserted, Snapshot!ProviderStates
  <2>8. ASSUME NEW x \in Creator, NEW y \in Creator PROVE OneRowPerKey(x, y)'
    BY <1>2, RowFields, <2>1, <2>3, <2>4, <2>5, SMTT(20)
       DEF OneRowPerKey, Snapshot!Inserted, Creating, Ready, Snapshot!ProviderStates, Deleting
  <2> QED
    BY <1>3, <2>6, <2>7, <2>8 DEF SnapshotInv
<1>18. ASSUME NEW d \in Delete, Snapshot!DeleteAtProvider(d) PROVE SnapshotInv'
  <2>1. CASE store' = store
    <3>1. /\ dpc[d] = "call"
          /\ target[d] \in Creator
      BY <1>18, <2>1, <1>2, RowFields
         DEF Snapshot!DeleteAtProvider, Snapshot!Dgoto, Creating, Snapshot!Inserted, Deleting
    <3>2. deleteSent' = deleteSent \cup {target[d]}
      BY <1>18, <2>1, <1>1, <3>1 DEF Snapshot!DeleteAtProvider, Snapshot!Dgoto
    <3>3. /\ dpc'[d] = "undo" \/ (dpc'[d] = "tombstone" /\ store[target[d]] = "gone")
          /\ \A z \in Delete : z # d => dpc'[z] = dpc[z]
      BY <1>18, <2>1, <1>1, <3>1 DEF Snapshot!DeleteAtProvider, Snapshot!Dgoto
    <3>4. UNCHANGED <<key, wait, row, operation, store, pc, answer, polls, target, seen>>
      BY <1>18, <2>1 DEF Snapshot!DeleteAtProvider, Snapshot!Dgoto, Snapshot!rows, Snapshot!creates, Snapshot!deletes
    <3>5. ASSUME NEW x \in Creator PROVE Creating(x)'
      BY <2>1, <1>2, RowFields, <3>1, <3>2, <3>3, <3>4, SMTT(20)
         DEF Creating, Ready, Snapshot!Inserted, Snapshot!ProviderStates
    <3>6. ASSUME NEW x \in Delete PROVE Deleting(x)'
      BY <2>1, <1>2, RowFields, <3>1, <3>2, <3>3, <3>4, SMTT(20)
         DEF Deleting, Ready, Snapshot!Inserted, Snapshot!ProviderStates
    <3>7. ASSUME NEW x \in Creator, NEW y \in Creator PROVE OneRowPerKey(x, y)'
      BY <1>2, <3>4 DEF OneRowPerKey, Snapshot!Inserted
    <3> QED
      BY <1>3, <3>5, <3>6, <3>7 DEF SnapshotInv
  <2>2. CASE store' # store
    <3>1. /\ dpc[d] = "call"
          /\ target[d] \in Creator
      BY <1>18, <2>2, <1>2, RowFields
         DEF Snapshot!DeleteAtProvider, Snapshot!Dgoto, Creating, Snapshot!Inserted, Deleting
    <3>2. deleteSent' = deleteSent \cup {target[d]}
      BY <1>18, <2>2, <1>1, <3>1 DEF Snapshot!DeleteAtProvider, Snapshot!Dgoto
    <3>3. store' = [store EXCEPT ![target[d]] = "gone"]
      BY <1>18, <2>2 DEF Snapshot!DeleteAtProvider, Snapshot!Dgoto
    <3>4. /\ store'[target[d]] = "gone"
          /\ \A z \in Creator : z # target[d] => store'[z] = store[z]
      BY <1>1, <3>1, <3>3
    <3>5. /\ dpc'[d] \in {"tombstone", "undo"}
          /\ \A z \in Delete : z # d => dpc'[z] = dpc[z]
      BY <1>18, <2>2, <1>1, <3>1 DEF Snapshot!DeleteAtProvider, Snapshot!Dgoto
    <3>6. UNCHANGED <<key, wait, row, operation, pc, answer, polls, target, seen>>
      BY <1>18, <2>2 DEF Snapshot!DeleteAtProvider, Snapshot!Dgoto, Snapshot!rows, Snapshot!creates, Snapshot!deletes
    <3>7. ASSUME NEW x \in Creator PROVE Creating(x)'
      BY <2>2, <1>2, RowFields, <3>1, <3>2, <3>4, <3>5, <3>6, SMTT(20)
         DEF Creating, Ready, Snapshot!Inserted, Snapshot!ProviderStates, Deleting
    <3>8. ASSUME NEW x \in Delete PROVE Deleting(x)'
      BY <2>2, <1>2, RowFields, <3>1, <3>2, <3>4, <3>5, <3>6, SMTT(20)
         DEF Deleting, Ready, Snapshot!Inserted, Snapshot!ProviderStates
    <3>9. ASSUME NEW x \in Creator, NEW y \in Creator PROVE OneRowPerKey(x, y)'
      BY <1>2, <3>6 DEF OneRowPerKey, Snapshot!Inserted
    <3> QED
      BY <1>3, <3>7, <3>8, <3>9 DEF SnapshotInv
  <2> QED
    BY <2>1, <2>2, <1>18 DEF Snapshot!DeleteAtProvider, Snapshot!Dgoto
<1>19. ASSUME NEW d \in Delete, Snapshot!MarkDeleted(d) PROVE SnapshotInv'
  <2>1. /\ dpc[d] = "tombstone"
        /\ target[d] \in Creator
    BY <1>19, <1>2, RowFields DEF Snapshot!MarkDeleted, Snapshot!Dgoto, Creating, Snapshot!Inserted, Deleting
  <2>2. row' = [row EXCEPT ![target[d]] = [@ EXCEPT !.status = "deleted", !.tombstone = TRUE]]
    BY <1>19 DEF Snapshot!MarkDeleted, Snapshot!Dgoto
  <2>3. /\ row'[target[d]].status = "deleted"
        /\ row'[target[d]].tombstone = TRUE
        /\ row'[target[d]].known = row[target[d]].known
        /\ \A z \in Creator : z # target[d] => row'[z] = row[z]
    BY <1>1, <2>1, <2>2 DEF Snapshot!Row
  <2>4. dpc' = [dpc EXCEPT ![d] = "deleted"]
    BY <1>19 DEF Snapshot!MarkDeleted, Snapshot!Dgoto
  <2>5. /\ dpc'[d] = "deleted"
        /\ \A z \in Delete : z # d => dpc'[z] = dpc[z]
    BY <1>1, <2>1, <2>4
  <2>6. UNCHANGED <<key, wait, operation, store, deleteSent, pc, answer, polls, target, seen>>
    BY <1>19 DEF Snapshot!MarkDeleted, Snapshot!Dgoto, Snapshot!rows, Snapshot!creates, Snapshot!deletes
  <2>7. ASSUME NEW x \in Creator PROVE Creating(x)'
    BY <1>2, RowFields, <2>1, <2>3, <2>5, <2>6, SMTT(20)
       DEF Creating, Ready, Snapshot!Inserted, Snapshot!ProviderStates, Deleting
  <2>8. ASSUME NEW x \in Delete PROVE Deleting(x)'
    BY <1>2, RowFields, <2>1, <2>3, <2>5, <2>6, SMTT(20)
       DEF Deleting, Ready, Snapshot!Inserted, Snapshot!ProviderStates
  <2>9. ASSUME NEW x \in Creator, NEW y \in Creator PROVE OneRowPerKey(x, y)'
    BY <1>2, RowFields, <2>1, <2>3, <2>5, <2>6, SMTT(20)
       DEF OneRowPerKey, Snapshot!Inserted, Creating, Ready, Snapshot!ProviderStates, Deleting
  <2> QED
    BY <1>3, <2>7, <2>8, <2>9 DEF SnapshotInv
<1>20. ASSUME NEW d \in Delete, Snapshot!FailDelete(d) PROVE SnapshotInv'
  <2>1. /\ dpc[d] = "undo"
        /\ target[d] \in Creator
    BY <1>20, <1>2, RowFields
       DEF Snapshot!FailDelete, Snapshot!EndDelete, Snapshot!Dgoto, Creating, Snapshot!Inserted, Deleting
  <2>2. row' = [row EXCEPT ![target[d]].status = seen[d].status]
    BY <1>20 DEF Snapshot!FailDelete, Snapshot!EndDelete, Snapshot!Dgoto
  <2>3. /\ row'[target[d]].status = seen[d].status
        /\ row'[target[d]].tombstone = row[target[d]].tombstone
        /\ row'[target[d]].known = row[target[d]].known
        /\ \A z \in Creator : z # target[d] => row'[z] = row[z]
    BY <1>1, <2>1, <2>2 DEF Snapshot!Row
  <2>4. dpc' = [dpc EXCEPT ![d] = "done"]
    BY <1>20 DEF Snapshot!FailDelete, Snapshot!EndDelete, Snapshot!Dgoto
  <2>5. /\ dpc'[d] = "done"
        /\ \A z \in Delete : z # d => dpc'[z] = dpc[z]
    BY <1>1, <2>1, <2>4
  <2>6. \A z \in Delete : z # d => target'[z] = target[z]
    BY <1>20, <1>1, <2>1 DEF Snapshot!FailDelete, Snapshot!EndDelete, Snapshot!Dgoto
  <2>7. \A z \in Delete : z # d => seen'[z] = seen[z]
    BY <1>20, <1>1, <2>1 DEF Snapshot!FailDelete, Snapshot!EndDelete, Snapshot!Dgoto, Snapshot!Seen
  <2>8. UNCHANGED <<key, wait, operation, store, deleteSent, pc, answer, polls>>
    BY <1>20 DEF Snapshot!FailDelete, Snapshot!EndDelete, Snapshot!Dgoto, Snapshot!rows, Snapshot!creates,
       Snapshot!deletes
  <2>9. ASSUME NEW x \in Creator PROVE Creating(x)'
    BY <1>2, RowFields, <2>1, <2>3, <2>5, <2>6, <2>7, <2>8, SMTT(20)
       DEF Creating, Ready, Snapshot!Inserted, Snapshot!ProviderStates, Deleting
  <2>10. ASSUME NEW x \in Delete PROVE Deleting(x)'
    BY <1>2, RowFields, <2>1, <2>3, <2>5, <2>6, <2>7, <2>8, SMTT(20)
       DEF Deleting, Ready, Snapshot!Inserted, Snapshot!ProviderStates
  <2>11. ASSUME NEW x \in Creator, NEW y \in Creator PROVE OneRowPerKey(x, y)'
    BY <1>2, RowFields, <2>1, <2>3, <2>5, <2>6, <2>7, <2>8, SMTT(20)
       DEF OneRowPerKey, Snapshot!Inserted, Creating, Ready, Snapshot!ProviderStates, Deleting
  <2> QED
    BY <1>3, <2>9, <2>10, <2>11 DEF SnapshotInv
<1>21. ASSUME NEW d \in Delete, Snapshot!CrashDelete(d) PROVE SnapshotInv'
  <2>1. dpc[d] \notin {"read", "deleted", "done"}
    BY <1>21 DEF Snapshot!CrashDelete, Snapshot!EndDelete, Snapshot!Dgoto
  <2>2. dpc' = [dpc EXCEPT ![d] = "done"]
    BY <1>21 DEF Snapshot!CrashDelete, Snapshot!EndDelete, Snapshot!Dgoto
  <2>3. /\ dpc'[d] = "done"
        /\ \A z \in Delete : z # d => dpc'[z] = dpc[z]
    BY <1>1, <2>1, <2>2
  <2>4. \A z \in Delete : z # d => target'[z] = target[z]
    BY <1>21, <1>1, <2>1 DEF Snapshot!CrashDelete, Snapshot!EndDelete, Snapshot!Dgoto
  <2>5. \A z \in Delete : z # d => seen'[z] = seen[z]
    BY <1>21, <1>1, <2>1 DEF Snapshot!CrashDelete, Snapshot!EndDelete, Snapshot!Dgoto, Snapshot!Seen
  <2>6. UNCHANGED <<key, wait, row, operation, store, deleteSent, pc, answer, polls>>
    BY <1>21 DEF Snapshot!CrashDelete, Snapshot!EndDelete, Snapshot!Dgoto, Snapshot!rows, Snapshot!creates,
       Snapshot!deletes
  <2>7. ASSUME NEW x \in Creator PROVE Creating(x)'
    BY <1>2, <2>6 DEF Creating, Ready, Snapshot!Inserted, Snapshot!ProviderStates
  <2>8. ASSUME NEW x \in Delete PROVE Deleting(x)'
    BY <1>2, RowFields, <2>1, <2>3, <2>4, <2>5, <2>6, SMTT(20)
       DEF Deleting, Ready, Snapshot!Inserted, Snapshot!ProviderStates
  <2>9. ASSUME NEW x \in Creator, NEW y \in Creator PROVE OneRowPerKey(x, y)'
    BY <1>2, <2>6 DEF OneRowPerKey, Snapshot!Inserted
  <2> QED
    BY <1>3, <2>7, <2>8, <2>9 DEF SnapshotInv
<1>22. CASE UNCHANGED Snapshot!vars
  BY <1>2, <1>3, <1>22 DEF Snapshot!vars, Snapshot!rows, Snapshot!creates, Snapshot!deletes, SnapshotInv, Creating,
     Ready, Snapshot!Inserted, Snapshot!ProviderStates, Deleting, OneRowPerKey
<1> QED
  BY <1>4, <1>5, <1>6, <1>7, <1>8, <1>9, <1>10, <1>11, <1>12, <1>13, <1>14, <1>15, <1>16, <1>17, <1>18, <1>19, <1>20,
     <1>21, <1>22 DEF Snapshot!Next, Snapshot!CreateStep, Snapshot!DeleteStep

LEMMA SnapshotInvariant == ASSUME Snapshot!PollsAreBounded PROVE Snapshot!Spec => []SnapshotInv
<1>1. Snapshot!Init => SnapshotInv
  <2> SUFFICES ASSUME Snapshot!Init PROVE SnapshotInv
    OBVIOUS
  <2>1. /\ key = [c \in Creator |-> NoKey] /\ wait = [c \in Creator |-> FALSE]
        /\ row = [c \in Creator |-> Snapshot!NoRow] /\ operation = [c \in Creator |-> "none"]
        /\ store = [c \in Creator |-> "none"] /\ deleteSent = {}
        /\ pc = [c \in Creator |-> "lookup"] /\ answer = [c \in Creator |-> "none"]
        /\ polls = [c \in Creator |-> 0] /\ dpc = [d \in Delete |-> "read"]
        /\ target = [d \in Delete |-> Snapshot!NoTarget] /\ seen = [d \in Delete |-> Snapshot!Unseen]
    BY DEF Snapshot!Init
  <2>2. 0 \in 0..MaxPolls
    BY DEF Snapshot!PollsAreBounded
  <2>3. Snapshot!NoRow \in Snapshot!Row /\ Snapshot!Unseen \in Snapshot!Seen
    BY ZenonT(60) DEF Snapshot!NoRow, Snapshot!Row, Snapshot!Unseen, Snapshot!Seen
  <2>4. Snapshot!TypeOK
    BY <2>1, <2>2, <2>3 DEF Snapshot!TypeOK
  <2>5. \A c \in Creator : Creating(c)
    BY <2>1 DEF Creating, Snapshot!Inserted, Ready, Snapshot!NoRow
  <2>6. \A d \in Delete : Deleting(d)
    BY <2>1 DEF Deleting
  <2>7. \A s, t \in Creator : OneRowPerKey(s, t)
    BY <2>1 DEF OneRowPerKey
  <2> QED
    BY <2>4, <2>5, <2>6, <2>7 DEF SnapshotInv
<1> QED
  BY <1>1, SnapshotKept, PTL DEF Snapshot!Spec

(* No step takes a tombstone back: the row is only inserted once.          *)
LEMMA TombstoneStays ==
  ASSUME SnapshotInv, [Snapshot!Next]_(Snapshot!vars), NEW s \in Creator, Snapshot!Inserted(s), row[s].tombstone
  PROVE  row'[s].tombstone
<1>1. row \in [Creator -> Snapshot!Row]
  BY DEF SnapshotInv, Snapshot!TypeOK
<1>2. ASSUME NEW c \in Creator, Snapshot!Insert(c) PROVE row'[s].tombstone
  <2>1. c # s
    BY <1>2 DEF Snapshot!Insert, SnapshotInv, Creating
  <2>2. \/ row' = row
        \/ row' = [row EXCEPT ![c] = [status |-> "creating", tombstone |-> FALSE, known |-> FALSE]]
    BY <1>2 DEF Snapshot!Insert
  <2> QED
    BY <1>1, <2>1, <2>2
<1>3. ASSUME NEW c \in Creator, Snapshot!UpdateFromProvider(c) PROVE row'[s].tombstone
  BY <1>1, <1>3 DEF Snapshot!UpdateFromProvider, Snapshot!Row
<1>4. ASSUME NEW c \in Creator, Snapshot!FailCreate(c) PROVE row'[s].tombstone
  BY <1>1, <1>4 DEF Snapshot!FailCreate, Snapshot!Row
<1>5. ASSUME NEW d \in Delete, Snapshot!MarkDeleting(d) \/ Snapshot!MarkDeleted(d) \/ Snapshot!FailDelete(d) PROVE row'[s].tombstone
  <2>1. \/ row' = [row EXCEPT ![target[d]].status = "deleting"]
        \/ row' = [row EXCEPT ![target[d]] = [@ EXCEPT !.status = "deleted", !.tombstone = TRUE]]
        \/ row' = [row EXCEPT ![target[d]].status = seen[d].status]
    BY <1>5 DEF Snapshot!MarkDeleting, Snapshot!MarkDeleted, Snapshot!FailDelete
  <2> QED
    BY <1>1, <2>1, ZenonT(60) DEF Snapshot!Row
<1>6. CASE UNCHANGED row
  BY <1>6
<1>7. ASSUME NEW c \in Creator, Snapshot!CreateStep(c) \/ Snapshot!ProviderProgress(c) \/ Snapshot!CrashCreate(c)
      PROVE  Snapshot!Insert(c) \/ Snapshot!UpdateFromProvider(c) \/ Snapshot!FailCreate(c) \/ UNCHANGED row
  BY <1>7 DEF Snapshot!CreateStep, Snapshot!Lookup, Snapshot!ClaimOperation, Snapshot!CallProvider, Snapshot!Record,
     Snapshot!ReadRow, Snapshot!Poll, Snapshot!Refresh, Snapshot!Finish,
     Snapshot!ProviderProgress, Snapshot!CrashCreate, Snapshot!rows
<1>8. ASSUME NEW d \in Delete, Snapshot!DeleteStep(d) \/ Snapshot!CrashDelete(d)
      PROVE  Snapshot!MarkDeleting(d) \/ Snapshot!MarkDeleted(d) \/ Snapshot!FailDelete(d) \/ UNCHANGED row
  BY <1>8 DEF Snapshot!DeleteStep, Snapshot!ReadDeletable, Snapshot!DeleteAtProvider, Snapshot!CrashDelete,
     Snapshot!rows
<1>9. CASE UNCHANGED Snapshot!vars
  BY <1>9 DEF Snapshot!vars
<1> QED
  BY <1>2, <1>3, <1>4, <1>5, <1>6, <1>7, <1>8, <1>9 DEF Snapshot!Next

--------------------------------------------------------------------------------
(* The adapter: a binding announces what its processes ask for.            *)

(* A binding that leads to a sandbox leads to its own generation's.        *)
Bound ==
    /\ binding.generation = 0 => binding = Adapter!NoRow
    /\ binding.sandboxId # 0 => binding.sandboxId = binding.generation

(* Whoever holds the advisory lock has read the binding under it.          *)
Holding(p) == holder = p => local[p] = binding

(* What a process has read takes it to where it is.                        *)
Placed(p) ==
    LET own == local[p] IN
    /\ at[p] \notin {"idle", "first"} => own.generation # 0
    /\ at[p] = "first" => own.generation = 0
    /\ at[p] = "intendWorkspace" => ~own.workspaceIntent
    /\ at[p] \in {"getSandbox", "getWorkspace", "renew"} => own.workspaceId # 0 /\ own.sandboxId # 0
    /\ at[p] \in {"getWorkspace", "renew"} => sandbox[own.sandboxId] = "terminated"

(* A workspace is asked for once, after its intent was written.            *)
OneWorkspace ==
    /\ \A c \in calls : c.kind = "createWorkspace" => binding.workspaceIntent /\ workspaces = 0
    /\ \A b, c \in calls : b.kind = "createWorkspace" /\ c.kind = "createWorkspace" => b = c
    /\ ~binding.workspaceIntent => workspaces = 0
    /\ workspaces <= 1

(* What runs, or may still come to run, was announced in the binding.      *)
Announced ==
    /\ \A g \in Adapter!Generation : sandbox[g] \in {"running", "stopped"} => binding.generation = g /\ binding.sandboxIntent
    /\ \A c \in calls : c.kind = "createSandbox" /\ sandbox[c.generation] = "none" =>
          binding.generation = c.generation /\ binding.sandboxIntent

AdapterInv == Adapter!TypeOK /\ Bound /\ (\A p \in Process : Holding(p) /\ Placed(p)) /\ OneWorkspace /\ Announced

LEMMA BindingFields ==
  ASSUME Adapter!TypeOK
  PROVE  /\ \A p \in Process : local[p] \in Adapter!Binding /\ at[p] \in Adapter!Points
         /\ \A own \in Adapter!Binding : /\ own.generation \in 0..MaxGenerations /\ own.workspaceId \in 0..1 /\ own.sandboxId \in 0..MaxGenerations
                                /\ own.workspaceIntent \in BOOLEAN /\ own.sandboxIntent \in BOOLEAN
         /\ binding \in Adapter!Binding /\ calls \subseteq Adapter!Request
         /\ \A c \in Adapter!Request : c.generation \in Adapter!Generation
         /\ \A g \in Adapter!Generation : sandbox[g] \in {"none", "running", "stopped", "terminated"}
         /\ workspaces \in 0..2
  BY DEF Adapter!TypeOK, Adapter!Binding, Adapter!Request

LEMMA BindingRows ==
  ASSUME Adapter!AdapterBounds
  PROVE  /\ \A n \in 0..MaxGenerations, w \in 0..1 : Adapter!NewBinding(n, w) \in Adapter!Binding
         /\ Adapter!NoRow \in Adapter!Binding
         /\ \A own : Adapter!First(own) \in Adapter!Points /\ Adapter!AfterWorkspace(own) \in Adapter!Points
<1>1. 0 \in 0..MaxGenerations /\ 0 \in 0..1
  BY DEF Adapter!AdapterBounds
<1>2. \A n \in 0..MaxGenerations, w \in 0..1 : Adapter!NewBinding(n, w) \in Adapter!Binding
  BY <1>1, ZenonT(60) DEF Adapter!NewBinding, Adapter!Binding
<1>3. \A own : Adapter!First(own) \in Adapter!Points /\ Adapter!AfterWorkspace(own) \in Adapter!Points
  BY DEF Adapter!First, Adapter!AfterWorkspace, Adapter!Points
<1> QED
  BY <1>1, <1>2, <1>3 DEF Adapter!NoRow

LEMMA AdapterTypeKept == ASSUME Adapter!AdapterBounds, AdapterInv, [Adapter!Next]_(Adapter!adapterVars) PROVE Adapter!TypeOK'
<1>1. binding \in Adapter!Binding
  BY DEF Adapter!TypeOK, AdapterInv
<1>2. holder \in Process \cup {Nobody}
  BY DEF Adapter!TypeOK, AdapterInv
<1>3. at \in [Process -> Adapter!Points]
  BY DEF Adapter!TypeOK, AdapterInv
<1>4. local \in [Process -> Adapter!Binding]
  BY DEF Adapter!TypeOK, AdapterInv
<1>5. calls \in SUBSET Adapter!Request
  BY DEF Adapter!TypeOK, AdapterInv
<1>6. workspaces \in 0..2
  BY DEF Adapter!TypeOK, AdapterInv
<1>7. attached \in 0..MaxGenerations
  BY DEF Adapter!TypeOK, AdapterInv
<1>8. sandbox \in [Adapter!Generation -> {"none", "running", "stopped", "terminated"}]
  BY DEF Adapter!TypeOK, AdapterInv
<1>9. route \in [Adapter!Generation -> Process \cup {Nobody}]
  BY DEF Adapter!TypeOK, AdapterInv
<1>10. ASSUME NEW p \in Process, Adapter!Load(p) PROVE Adapter!TypeOK'
  <2>1. holder' \in Process \cup {Nobody}
    BY <1>10, <1>2, ZenonT(60) DEF Adapter!Load, Adapter!Goto, Adapter!Keep
  <2>2. at' \in [Process -> Adapter!Points]
    <3>1. PICK q \in {"first", "check", Adapter!First(binding)} : at' = [at EXCEPT ![p] = q]
      BY <1>10 DEF Adapter!Load, Adapter!Goto
    <3>2. q \in Adapter!Points
      BY BindingRows DEF Adapter!Points
    <3> QED
      BY <3>1, <3>2, <1>3, ZenonT(60)
  <2>3. local' \in [Process -> Adapter!Binding]
    <3>1. local' = [local EXCEPT ![p] = binding]
      BY <1>10 DEF Adapter!Load, Adapter!Keep
    <3> QED
      BY <3>1, <1>1, <1>4, ZenonT(60)
  <2>4. UNCHANGED <<binding, calls, workspaces, attached, sandbox, route>>
    BY <1>10 DEF Adapter!Load, Adapter!Goto, Adapter!Keep, Adapter!api
  <2> QED
    BY <1>1, <1>2, <1>3, <1>4, <1>5, <1>6, <1>7, <1>8, <1>9, <2>1, <2>2, <2>3, <2>4 DEF Adapter!TypeOK
<1>11. ASSUME NEW p \in Process, Adapter!SaveFirst(p) PROVE Adapter!TypeOK'
  <2>1. binding' \in Adapter!Binding
    <3>1. binding' = Adapter!NewBinding(1, 0)
      BY <1>11 DEF Adapter!SaveFirst, Adapter!Save
    <3> QED
      BY <3>1, BindingRows DEF Adapter!AdapterBounds
  <2>2. at' \in [Process -> Adapter!Points]
    <3>1. at' = [at EXCEPT ![p] = Adapter!First(Adapter!NewBinding(1, 0))]
      BY <1>11 DEF Adapter!SaveFirst, Adapter!Goto
    <3> QED
      BY <3>1, BindingRows, <1>3, ZenonT(60)
  <2>3. local' \in [Process -> Adapter!Binding]
    <3>1. local' = [local EXCEPT ![p] = Adapter!NewBinding(1, 0)]
      BY <1>11 DEF Adapter!SaveFirst, Adapter!Save, Adapter!Keep
    <3>2. Adapter!NewBinding(1, 0) \in Adapter!Binding
      BY BindingRows DEF Adapter!AdapterBounds
    <3> QED
      BY <3>1, <3>2, <1>4, ZenonT(60)
  <2>4. UNCHANGED <<holder, calls, workspaces, attached, sandbox, route>>
    BY <1>11 DEF Adapter!SaveFirst, Adapter!Save, Adapter!Keep, Adapter!Goto, Adapter!api
  <2> QED
    BY <1>1, <1>2, <1>3, <1>4, <1>5, <1>6, <1>7, <1>8, <1>9, <2>1, <2>2, <2>3, <2>4 DEF Adapter!TypeOK
<1>12. ASSUME NEW p \in Process, Adapter!GiveUp(p) PROVE Adapter!TypeOK'
  <2>1. holder' \in Process \cup {Nobody}
    BY <1>12, <1>2, ZenonT(60) DEF Adapter!GiveUp, Adapter!Keep
  <2>2. at' \in [Process -> Adapter!Points]
    BY <1>12, <1>3, ZenonT(60) DEF Adapter!GiveUp, Adapter!Keep, Adapter!Points
  <2>3. local' \in [Process -> Adapter!Binding]
    <3>1. local' = [local EXCEPT ![p] = Adapter!NoRow]
      BY <1>12 DEF Adapter!GiveUp, Adapter!Keep
    <3> QED
      BY <3>1, BindingRows, <1>4, ZenonT(60)
  <2>4. UNCHANGED <<binding, calls, workspaces, attached, sandbox, route>>
    BY <1>12 DEF Adapter!GiveUp, Adapter!Keep, Adapter!api
  <2> QED
    BY <1>1, <1>2, <1>3, <1>4, <1>5, <1>6, <1>7, <1>8, <1>9, <2>1, <2>2, <2>3, <2>4 DEF Adapter!TypeOK
<1>13. ASSUME NEW p \in Process, Adapter!LoseConnection(p) PROVE Adapter!TypeOK'
  <2>1. holder' \in Process \cup {Nobody}
    BY <1>13, <1>2, ZenonT(60) DEF Adapter!LoseConnection
  <2>2. UNCHANGED <<binding, at, local, calls, workspaces, attached, sandbox, route>>
    BY <1>13 DEF Adapter!LoseConnection, Adapter!api
  <2> QED
    BY <1>1, <1>2, <1>3, <1>4, <1>5, <1>6, <1>7, <1>8, <1>9, <2>1, <2>2 DEF Adapter!TypeOK
<1>14. ASSUME NEW p \in Process, Adapter!IntendWorkspace(p) PROVE Adapter!TypeOK'
  <2>1. binding' \in Adapter!Binding
    <3>1. binding' = [local[p] EXCEPT !.workspaceIntent = TRUE]
      BY <1>14 DEF Adapter!IntendWorkspace, Adapter!Save
    <3>2. local[p] \in Adapter!Binding
      BY <1>4
    <3> QED
      BY <3>1, <3>2, ZenonT(60) DEF Adapter!Binding
  <2>2. at' \in [Process -> Adapter!Points]
    BY <1>14, <1>3, ZenonT(60)
       DEF Adapter!IntendWorkspace, Adapter!Save, Adapter!Keep, Adapter!Goto, Adapter!Send, Adapter!Points
  <2>3. local' \in [Process -> Adapter!Binding]
    BY <1>14, <1>4, ZenonT(60)
       DEF Adapter!IntendWorkspace, Adapter!Save, Adapter!Keep, Adapter!Goto, Adapter!Send, Adapter!Binding
  <2>4. calls' \in SUBSET Adapter!Request
    <3>1. calls' = calls \cup {Adapter!Call(p, "createWorkspace")} /\ at[p] = "intendWorkspace"
      BY <1>14 DEF Adapter!IntendWorkspace, Adapter!Send, Adapter!Goto
    <3>2. local[p].generation \in 0..MaxGenerations /\ local[p].generation # 0
      BY <3>1, <1>4, BindingFields DEF AdapterInv, Placed
    <3>3. local[p].generation \in Adapter!Generation
      BY <3>2 DEF Adapter!Generation, Adapter!AdapterBounds
    <3>4. Adapter!Call(p, "createWorkspace") \in Adapter!Request
      BY <3>3, ZenonT(60) DEF Adapter!Call, Adapter!Request, Adapter!CallKinds
    <3> QED
      BY <3>1, <3>4, <1>5
  <2>5. UNCHANGED <<holder, workspaces, attached, sandbox, route>>
    BY <1>14 DEF Adapter!IntendWorkspace, Adapter!Save, Adapter!Keep, Adapter!Goto, Adapter!Send, Adapter!api
  <2> QED
    BY <1>1, <1>2, <1>3, <1>4, <1>5, <1>6, <1>7, <1>8, <1>9, <2>1, <2>2, <2>3, <2>4, <2>5 DEF Adapter!TypeOK
<1>15. ASSUME NEW p \in Process, Adapter!KeepWorkspace(p) PROVE Adapter!TypeOK'
  <2>1. binding' \in Adapter!Binding
    <3>1. binding' = [local[p] EXCEPT !.workspaceIntent = TRUE, !.workspaceId = 1]
      BY <1>15 DEF Adapter!KeepWorkspace, Adapter!Save, Adapter!Keep
    <3>2. local[p] \in Adapter!Binding /\ 1 \in 0..1
      BY <1>4
    <3>3. [local[p] EXCEPT !.workspaceIntent = TRUE, !.workspaceId = 1] \in Adapter!Binding
      BY <3>2, ZenonT(60) DEF Adapter!Binding
    <3> QED
      BY <3>1, <3>3, <1>1, ZenonT(60)
  <2>2. at' \in [Process -> Adapter!Points]
    <3>1. at' = [at EXCEPT ![p] = Adapter!AfterWorkspace(local[p])]
      BY <1>15 DEF Adapter!KeepWorkspace, Adapter!Goto
    <3> QED
      BY <3>1, BindingRows, <1>3, ZenonT(60)
  <2>3. local' \in [Process -> Adapter!Binding]
    <3>1. local' = [local EXCEPT ![p] = [local[p] EXCEPT !.workspaceIntent = TRUE, !.workspaceId = 1]]
      BY <1>15 DEF Adapter!KeepWorkspace, Adapter!Save, Adapter!Keep
    <3>2. local[p] \in Adapter!Binding /\ 1 \in 0..1
      BY <1>4
    <3>3. [local[p] EXCEPT !.workspaceIntent = TRUE, !.workspaceId = 1] \in Adapter!Binding
      BY <3>2, ZenonT(60) DEF Adapter!Binding
    <3> QED
      BY <3>1, <3>3, <1>4, ZenonT(60)
  <2>4. UNCHANGED <<holder, calls, workspaces, attached, sandbox, route>>
    BY <1>15 DEF Adapter!KeepWorkspace, Adapter!Save, Adapter!Keep, Adapter!Goto, Adapter!api
  <2> QED
    BY <1>1, <1>2, <1>3, <1>4, <1>5, <1>6, <1>7, <1>8, <1>9, <2>1, <2>2, <2>3, <2>4 DEF Adapter!TypeOK
<1>16. ASSUME NEW p \in Process, Adapter!GetSandbox(p) PROVE Adapter!TypeOK'
  <2>1. at' \in [Process -> Adapter!Points]
    BY <1>16, <1>3, ZenonT(60) DEF Adapter!GetSandbox, Adapter!Goto, Adapter!Recoverable, Adapter!Points
  <2>2. UNCHANGED <<binding, holder, local, calls, workspaces, attached, sandbox, route>>
    BY <1>16 DEF Adapter!GetSandbox, Adapter!Goto, Adapter!Recoverable, Adapter!api
  <2> QED
    BY <1>1, <1>2, <1>3, <1>4, <1>5, <1>6, <1>7, <1>8, <1>9, <2>1, <2>2 DEF Adapter!TypeOK
<1>17. ASSUME NEW p \in Process, Adapter!GetWorkspace(p) PROVE Adapter!TypeOK'
  <2>1. at' \in [Process -> Adapter!Points]
    BY <1>17, <1>3, ZenonT(60) DEF Adapter!GetWorkspace, Adapter!Goto, Adapter!Points
  <2>2. UNCHANGED <<binding, holder, local, calls, workspaces, attached, sandbox, route>>
    BY <1>17 DEF Adapter!GetWorkspace, Adapter!Goto, Adapter!api
  <2> QED
    BY <1>1, <1>2, <1>3, <1>4, <1>5, <1>6, <1>7, <1>8, <1>9, <2>1, <2>2 DEF Adapter!TypeOK
<1>18. ASSUME NEW p \in Process, Adapter!RenewBinding(p) PROVE Adapter!TypeOK'
  <2>1. binding' \in Adapter!Binding
    <3>1. binding' = Adapter!NewBinding(local[p].generation + 1, local[p].workspaceId)
      BY <1>18 DEF Adapter!RenewBinding, Adapter!Save, Adapter!Keep
    <3>2. local[p] \in Adapter!Binding /\ local[p].generation < MaxGenerations
      BY <1>18, <1>4 DEF Adapter!RenewBinding
    <3>3. local[p].generation \in 0..MaxGenerations /\ local[p].workspaceId \in 0..1
      BY <3>2, ZenonT(60) DEF Adapter!Binding
    <3>4. local[p].generation + 1 \in 0..MaxGenerations
      BY <3>2, <3>3 DEF Adapter!AdapterBounds
    <3>5. Adapter!NewBinding(local[p].generation + 1, local[p].workspaceId) \in Adapter!Binding
      BY <3>3, <3>4, BindingRows
    <3> QED
      BY <3>1, <3>5, <1>1, ZenonT(60)
  <2>2. at' \in [Process -> Adapter!Points]
    BY <1>18, <1>3, ZenonT(60) DEF Adapter!RenewBinding, Adapter!Save, Adapter!Keep, Adapter!Goto, Adapter!Points
  <2>3. local' \in [Process -> Adapter!Binding]
    <3>1. local' = [local EXCEPT ![p] = Adapter!NewBinding(local[p].generation + 1, local[p].workspaceId)]
      BY <1>18 DEF Adapter!RenewBinding, Adapter!Save, Adapter!Keep
    <3>2. local[p] \in Adapter!Binding /\ local[p].generation < MaxGenerations
      BY <1>18, <1>4 DEF Adapter!RenewBinding
    <3>3. local[p].generation \in 0..MaxGenerations /\ local[p].workspaceId \in 0..1
      BY <3>2, ZenonT(60) DEF Adapter!Binding
    <3>4. local[p].generation + 1 \in 0..MaxGenerations
      BY <3>2, <3>3 DEF Adapter!AdapterBounds
    <3>5. Adapter!NewBinding(local[p].generation + 1, local[p].workspaceId) \in Adapter!Binding
      BY <3>3, <3>4, BindingRows
    <3> QED
      BY <3>1, <3>5, <1>4, ZenonT(60)
  <2>4. UNCHANGED <<holder, calls, workspaces, attached, sandbox, route>>
    BY <1>18 DEF Adapter!RenewBinding, Adapter!Save, Adapter!Keep, Adapter!Goto, Adapter!api
  <2> QED
    BY <1>1, <1>2, <1>3, <1>4, <1>5, <1>6, <1>7, <1>8, <1>9, <2>1, <2>2, <2>3, <2>4 DEF Adapter!TypeOK
<1>19. ASSUME NEW p \in Process, Adapter!IntendSandbox(p) PROVE Adapter!TypeOK'
  <2>1. binding' \in Adapter!Binding
    <3>1. binding' = [local[p] EXCEPT !.sandboxIntent = TRUE]
      BY <1>19 DEF Adapter!IntendSandbox, Adapter!Save
    <3>2. local[p] \in Adapter!Binding
      BY <1>4
    <3> QED
      BY <3>1, <3>2, ZenonT(60) DEF Adapter!Binding
  <2>2. at' \in [Process -> Adapter!Points]
    BY <1>19, <1>3, ZenonT(60)
       DEF Adapter!IntendSandbox, Adapter!Save, Adapter!Keep, Adapter!Goto, Adapter!Send, Adapter!Points
  <2>3. local' \in [Process -> Adapter!Binding]
    BY <1>19, <1>4, ZenonT(60)
       DEF Adapter!IntendSandbox, Adapter!Save, Adapter!Keep, Adapter!Goto, Adapter!Send, Adapter!Binding
  <2>4. calls' \in SUBSET Adapter!Request
    <3>1. calls' = calls \cup {Adapter!Call(p, "createSandbox")} /\ at[p] = "intendSandbox"
      BY <1>19 DEF Adapter!IntendSandbox, Adapter!Send, Adapter!Goto
    <3>2. local[p].generation \in 0..MaxGenerations /\ local[p].generation # 0
      BY <3>1, <1>4, BindingFields DEF AdapterInv, Placed
    <3>3. local[p].generation \in Adapter!Generation
      BY <3>2 DEF Adapter!Generation, Adapter!AdapterBounds
    <3>4. Adapter!Call(p, "createSandbox") \in Adapter!Request
      BY <3>3, ZenonT(60) DEF Adapter!Call, Adapter!Request, Adapter!CallKinds
    <3> QED
      BY <3>1, <3>4, <1>5
  <2>5. UNCHANGED <<holder, workspaces, attached, sandbox, route>>
    BY <1>19 DEF Adapter!IntendSandbox, Adapter!Save, Adapter!Keep, Adapter!Goto, Adapter!Send, Adapter!api
  <2> QED
    BY <1>1, <1>2, <1>3, <1>4, <1>5, <1>6, <1>7, <1>8, <1>9, <2>1, <2>2, <2>3, <2>4, <2>5 DEF Adapter!TypeOK
<1>20. ASSUME NEW p \in Process, Adapter!KeepSandbox(p) PROVE Adapter!TypeOK'
  <2>1. binding' \in Adapter!Binding
    <3>1. binding' = [local[p] EXCEPT !.sandboxId = local[p].generation]
      BY <1>20 DEF Adapter!KeepSandbox, Adapter!Save
    <3>2. local[p] \in Adapter!Binding
      BY <1>4
    <3> QED
      BY <3>1, <3>2, ZenonT(60) DEF Adapter!Binding
  <2>2. at' \in [Process -> Adapter!Points]
    BY <1>20, <1>3, ZenonT(60) DEF Adapter!KeepSandbox, Adapter!Save, Adapter!Keep, Adapter!Goto, Adapter!Points
  <2>3. local' \in [Process -> Adapter!Binding]
    BY <1>20, <1>4, ZenonT(60) DEF Adapter!KeepSandbox, Adapter!Save, Adapter!Keep, Adapter!Goto, Adapter!Binding
  <2>4. UNCHANGED <<holder, calls, workspaces, attached, sandbox, route>>
    BY <1>20 DEF Adapter!KeepSandbox, Adapter!Save, Adapter!Keep, Adapter!Goto, Adapter!api
  <2> QED
    BY <1>1, <1>2, <1>3, <1>4, <1>5, <1>6, <1>7, <1>8, <1>9, <2>1, <2>2, <2>3, <2>4 DEF Adapter!TypeOK
<1>21. ASSUME NEW p \in Process, Adapter!WaitForSandbox(p) PROVE Adapter!TypeOK'
  <2>1. at' \in [Process -> Adapter!Points]
    BY <1>21, <1>3, ZenonT(60) DEF Adapter!WaitForSandbox, Adapter!Goto, Adapter!Points
  <2>2. UNCHANGED <<binding, holder, local, calls, workspaces, attached, sandbox, route>>
    BY <1>21 DEF Adapter!WaitForSandbox, Adapter!Goto, Adapter!api
  <2> QED
    BY <1>1, <1>2, <1>3, <1>4, <1>5, <1>6, <1>7, <1>8, <1>9, <2>1, <2>2 DEF Adapter!TypeOK
<1>22. ASSUME NEW p \in Process, Adapter!IntendRoute(p) PROVE Adapter!TypeOK'
  <2>1. binding' \in Adapter!Binding
    <3>1. binding' = [local[p] EXCEPT !.routeIntent = TRUE]
      BY <1>22 DEF Adapter!IntendRoute, Adapter!Save
    <3>2. local[p] \in Adapter!Binding
      BY <1>4
    <3> QED
      BY <3>1, <3>2, ZenonT(60) DEF Adapter!Binding
  <2>2. at' \in [Process -> Adapter!Points]
    BY <1>22, <1>3, ZenonT(60)
       DEF Adapter!IntendRoute, Adapter!Save, Adapter!Keep, Adapter!Goto, Adapter!Send, Adapter!Points
  <2>3. local' \in [Process -> Adapter!Binding]
    BY <1>22, <1>4, ZenonT(60)
       DEF Adapter!IntendRoute, Adapter!Save, Adapter!Keep, Adapter!Goto, Adapter!Send, Adapter!Binding
  <2>4. calls' \in SUBSET Adapter!Request
    <3>1. calls' = calls \cup {Adapter!Call(p, "exposeRoute")} /\ at[p] = "intendRoute"
      BY <1>22 DEF Adapter!IntendRoute, Adapter!Send, Adapter!Goto
    <3>2. local[p].generation \in 0..MaxGenerations /\ local[p].generation # 0
      BY <3>1, <1>4, BindingFields DEF AdapterInv, Placed
    <3>3. local[p].generation \in Adapter!Generation
      BY <3>2 DEF Adapter!Generation, Adapter!AdapterBounds
    <3>4. Adapter!Call(p, "exposeRoute") \in Adapter!Request
      BY <3>3, ZenonT(60) DEF Adapter!Call, Adapter!Request, Adapter!CallKinds
    <3> QED
      BY <3>1, <3>4, <1>5
  <2>5. UNCHANGED <<holder, workspaces, attached, sandbox, route>>
    BY <1>22 DEF Adapter!IntendRoute, Adapter!Save, Adapter!Keep, Adapter!Goto, Adapter!Send, Adapter!api
  <2> QED
    BY <1>1, <1>2, <1>3, <1>4, <1>5, <1>6, <1>7, <1>8, <1>9, <2>1, <2>2, <2>3, <2>4, <2>5 DEF Adapter!TypeOK
<1>23. ASSUME NEW p \in Process, Adapter!KeepGrant(p) PROVE Adapter!TypeOK'
  <2>1. binding' \in Adapter!Binding
    <3>1. binding' = [local[p] EXCEPT !.grant = TRUE]
      BY <1>23 DEF Adapter!KeepGrant, Adapter!Save
    <3>2. local[p] \in Adapter!Binding
      BY <1>4
    <3> QED
      BY <3>1, <3>2, ZenonT(60) DEF Adapter!Binding
  <2>2. at' \in [Process -> Adapter!Points]
    BY <1>23, <1>3, ZenonT(60) DEF Adapter!KeepGrant, Adapter!Save, Adapter!Keep, Adapter!Goto, Adapter!Points
  <2>3. local' \in [Process -> Adapter!Binding]
    BY <1>23, <1>4, ZenonT(60) DEF Adapter!KeepGrant, Adapter!Save, Adapter!Keep, Adapter!Goto, Adapter!Binding
  <2>4. UNCHANGED <<holder, calls, workspaces, attached, sandbox, route>>
    BY <1>23 DEF Adapter!KeepGrant, Adapter!Save, Adapter!Keep, Adapter!Goto, Adapter!api
  <2> QED
    BY <1>1, <1>2, <1>3, <1>4, <1>5, <1>6, <1>7, <1>8, <1>9, <2>1, <2>2, <2>3, <2>4 DEF Adapter!TypeOK
<1>24. ASSUME NEW p \in Process, Adapter!CheckReset(p) PROVE Adapter!TypeOK'
  <2>1. at' \in [Process -> Adapter!Points]
    BY <1>24, <1>3, ZenonT(60) DEF Adapter!CheckReset, Adapter!Goto, Adapter!Points
  <2>2. UNCHANGED <<binding, holder, local, calls, workspaces, attached, sandbox, route>>
    BY <1>24 DEF Adapter!CheckReset, Adapter!Goto, Adapter!api
  <2> QED
    BY <1>1, <1>2, <1>3, <1>4, <1>5, <1>6, <1>7, <1>8, <1>9, <2>1, <2>2 DEF Adapter!TypeOK
<1>25. ASSUME NEW p \in Process, Adapter!RevokeGrant(p) PROVE Adapter!TypeOK'
  <2>1. binding' \in Adapter!Binding
    <3>1. binding' = [local[p] EXCEPT !.grant = FALSE, !.routeIntent = TRUE]
      BY <1>25 DEF Adapter!RevokeGrant, Adapter!Save
    <3>2. local[p] \in Adapter!Binding
      BY <1>4
    <3> QED
      BY <3>1, <3>2, ZenonT(60) DEF Adapter!Binding
  <2>2. at' \in [Process -> Adapter!Points]
    BY <1>25, <1>3, ZenonT(60) DEF Adapter!RevokeGrant, Adapter!Save, Adapter!Keep, Adapter!Goto, Adapter!Points
  <2>3. local' \in [Process -> Adapter!Binding]
    BY <1>25, <1>4, ZenonT(60) DEF Adapter!RevokeGrant, Adapter!Save, Adapter!Keep, Adapter!Goto, Adapter!Binding
  <2>4. UNCHANGED <<holder, calls, workspaces, attached, sandbox, route>>
    BY <1>25 DEF Adapter!RevokeGrant, Adapter!Save, Adapter!Keep, Adapter!Goto, Adapter!api
  <2> QED
    BY <1>1, <1>2, <1>3, <1>4, <1>5, <1>6, <1>7, <1>8, <1>9, <2>1, <2>2, <2>3, <2>4 DEF Adapter!TypeOK
<1>26. ASSUME NEW p \in Process, Adapter!DeleteRoute(p) PROVE Adapter!TypeOK'
  <2>1. at' \in [Process -> Adapter!Points]
    BY <1>26, <1>3, ZenonT(60) DEF Adapter!DeleteRoute, Adapter!Goto, Adapter!Points
  <2>2. route' \in [Adapter!Generation -> Process \cup {Nobody}]
    BY <1>26, <1>9, ZenonT(60) DEF Adapter!DeleteRoute, Adapter!Goto
  <2>3. UNCHANGED <<binding, holder, local, calls, workspaces, attached, sandbox>>
    BY <1>26 DEF Adapter!DeleteRoute, Adapter!Goto, Adapter!api
  <2> QED
    BY <1>1, <1>2, <1>3, <1>4, <1>5, <1>6, <1>7, <1>8, <1>9, <2>1, <2>2, <2>3 DEF Adapter!TypeOK
<1>27. ASSUME NEW p \in Process, Adapter!ListRoutes(p) PROVE Adapter!TypeOK'
  <2>1. at' \in [Process -> Adapter!Points]
    BY <1>27, <1>3, ZenonT(60) DEF Adapter!ListRoutes, Adapter!Goto, Adapter!Points
  <2>2. UNCHANGED <<binding, holder, local, calls, workspaces, attached, sandbox, route>>
    BY <1>27 DEF Adapter!ListRoutes, Adapter!Goto, Adapter!api
  <2> QED
    BY <1>1, <1>2, <1>3, <1>4, <1>5, <1>6, <1>7, <1>8, <1>9, <2>1, <2>2 DEF Adapter!TypeOK
<1>28. ASSUME NEW p \in Process, Adapter!ResetGrant(p) PROVE Adapter!TypeOK'
  <2>1. binding' \in Adapter!Binding
    <3>1. binding' = [local[p] EXCEPT !.routeIntent = FALSE]
      BY <1>28 DEF Adapter!ResetGrant, Adapter!Save
    <3>2. local[p] \in Adapter!Binding
      BY <1>4
    <3> QED
      BY <3>1, <3>2, ZenonT(60) DEF Adapter!Binding
  <2>2. at' \in [Process -> Adapter!Points]
    BY <1>28, <1>3, ZenonT(60) DEF Adapter!ResetGrant, Adapter!Save, Adapter!Keep, Adapter!Goto, Adapter!Points
  <2>3. local' \in [Process -> Adapter!Binding]
    BY <1>28, <1>4, ZenonT(60) DEF Adapter!ResetGrant, Adapter!Save, Adapter!Keep, Adapter!Goto, Adapter!Binding
  <2>4. UNCHANGED <<holder, calls, workspaces, attached, sandbox, route>>
    BY <1>28 DEF Adapter!ResetGrant, Adapter!Save, Adapter!Keep, Adapter!Goto, Adapter!api
  <2> QED
    BY <1>1, <1>2, <1>3, <1>4, <1>5, <1>6, <1>7, <1>8, <1>9, <2>1, <2>2, <2>3, <2>4 DEF Adapter!TypeOK
<1>29. ASSUME NEW c \in calls, Adapter!CarryOut(c) PROVE Adapter!TypeOK'
  <2>1. calls' \in SUBSET Adapter!Request
    BY <1>29, <1>5, ZenonT(60) DEF Adapter!CarryOut, Adapter!Accepts, Adapter!Request, Adapter!CallKinds
  <2>2. workspaces' \in 0..2
    <3>1. workspaces' = workspaces \/ (workspaces < 2 /\ workspaces' = workspaces + 1)
      BY <1>29 DEF Adapter!CarryOut
    <3> QED
      BY <3>1, <1>6
  <2>3. attached' \in 0..MaxGenerations
    <3>1. c \in Adapter!Request
      BY <1>5
    <3>2. c.generation \in Adapter!Generation
      BY <3>1, ZenonT(60) DEF Adapter!Request
    <3>3. attached' = c.generation \/ attached' = attached
      BY <1>29 DEF Adapter!CarryOut
    <3> QED
      BY <3>2, <3>3, <1>7 DEF Adapter!Generation
  <2>4. sandbox' \in [Adapter!Generation -> {"none", "running", "stopped", "terminated"}]
    BY <1>29, <1>8, ZenonT(60) DEF Adapter!CarryOut, Adapter!Accepts
  <2>5. route' \in [Adapter!Generation -> Process \cup {Nobody}]
    <3>1. c \in Adapter!Request
      BY <1>5
    <3>2. c.by \in Process
      BY <3>1, ZenonT(60) DEF Adapter!Request
    <3>3. route' = [route EXCEPT ![c.generation] = c.by] \/ route' = route
      BY <1>29 DEF Adapter!CarryOut
    <3> QED
      BY <3>2, <3>3, <1>9, ZenonT(60)
  <2>6. UNCHANGED <<binding, holder, at, local>>
    BY <1>29 DEF Adapter!CarryOut, Adapter!Accepts, Adapter!api
  <2> QED
    BY <1>1, <1>2, <1>3, <1>4, <1>5, <1>6, <1>7, <1>8, <1>9, <2>1, <2>2, <2>3, <2>4, <2>5, <2>6 DEF Adapter!TypeOK
<1>30. ASSUME NEW g \in Adapter!Generation, Adapter!SandboxChanges(g) PROVE Adapter!TypeOK'
  <2>1. sandbox' \in [Adapter!Generation -> {"none", "running", "stopped", "terminated"}]
    BY <1>30, <1>8, ZenonT(60) DEF Adapter!SandboxChanges
  <2>2. route' \in [Adapter!Generation -> Process \cup {Nobody}]
    BY <1>30, <1>9, ZenonT(60) DEF Adapter!SandboxChanges
  <2>3. UNCHANGED <<binding, holder, at, local, calls, workspaces, attached>>
    BY <1>30 DEF Adapter!SandboxChanges, Adapter!api
  <2> QED
    BY <1>1, <1>2, <1>3, <1>4, <1>5, <1>6, <1>7, <1>8, <1>9, <2>1, <2>2, <2>3 DEF Adapter!TypeOK
<1>31. ASSUME Adapter!WorkspaceReleased PROVE Adapter!TypeOK'
  <2>1. attached' \in 0..MaxGenerations
    <3>1. attached' = 0
      BY <1>31 DEF Adapter!WorkspaceReleased
    <3> QED
      BY <3>1 DEF Adapter!AdapterBounds
  <2>2. UNCHANGED <<binding, holder, at, local, calls, workspaces, sandbox, route>>
    BY <1>31 DEF Adapter!WorkspaceReleased, Adapter!api
  <2> QED
    BY <1>1, <1>2, <1>3, <1>4, <1>5, <1>6, <1>7, <1>8, <1>9, <2>1, <2>2 DEF Adapter!TypeOK
<1>32. CASE UNCHANGED Adapter!adapterVars
  BY <1>32 DEF Adapter!adapterVars, Adapter!api, Adapter!TypeOK, AdapterInv
<1> QED
  BY <1>10, <1>11, <1>12, <1>13, <1>14, <1>15, <1>16, <1>17, <1>18, <1>19, <1>20, <1>21, <1>22, <1>23, <1>24, <1>25,
     <1>26, <1>27, <1>28, <1>29, <1>30, <1>31, <1>32 DEF Adapter!Next, Adapter!Step

LEMMA AdapterKept == ASSUME Adapter!AdapterBounds, AdapterInv, [Adapter!Next]_(Adapter!adapterVars) PROVE AdapterInv'
<1>1. /\ binding \in Adapter!Binding
      /\ holder \in Process \cup {Nobody}
      /\ at \in [Process -> Adapter!Points]
      /\ local \in [Process -> Adapter!Binding]
      /\ calls \in SUBSET Adapter!Request
      /\ workspaces \in 0..2
      /\ attached \in 0..MaxGenerations
      /\ sandbox \in [Adapter!Generation -> {"none", "running", "stopped", "terminated"}]
      /\ route \in [Adapter!Generation -> Process \cup {Nobody}]
  BY DEF AdapterInv, Adapter!TypeOK
<1>2. /\ Adapter!TypeOK /\ Bound
      /\ \A p \in Process : Holding(p) /\ Placed(p)
      /\ OneWorkspace /\ Announced
  BY DEF AdapterInv
<1>3. Adapter!TypeOK'
  BY AdapterTypeKept DEF AdapterInv
<1>4. ASSUME NEW p \in Process, Adapter!Load(p) PROVE AdapterInv'
  <2>1. CASE binding = Adapter!NoRow
    <3>1. /\ at[p] = "idle"
          /\ holder = Nobody
          /\ binding = Adapter!NoRow
      BY <1>4, <2>1 DEF Adapter!Load, Adapter!Goto, Adapter!Keep
    <3>2. holder' = p
      BY <1>4, <2>1, <1>1, <3>1 DEF Adapter!Load, Adapter!Goto, Adapter!Keep
    <3>3. local' = [local EXCEPT ![p] = binding]
      BY <1>4, <2>1 DEF Adapter!Load, Adapter!Goto, Adapter!Keep
    <3>4. /\ local'[p] = binding
          /\ \A z \in Process : z # p => local'[z] = local[z]
      BY <1>1, <3>1, <3>3 DEF Adapter!Binding
    <3>5. /\ at'[p] \in {"first", "check"}
          /\ binding.generation = 0
          /\ at'[p] = "first"
          /\ \A z \in Process : z # p => at'[z] = at[z]
      BY <1>4, <2>1, <1>1, <3>1 DEF Adapter!Load, Adapter!Goto, Adapter!Keep, Adapter!NoRow, Adapter!NewBinding
    <3>6. UNCHANGED <<binding, calls, workspaces, attached, sandbox, route>>
      BY <1>4, <2>1 DEF Adapter!Load, Adapter!Goto, Adapter!Keep, Adapter!api
    <3>7. Bound'
      BY <1>2, <3>6 DEF Bound
    <3>8. ASSUME NEW x \in Process PROVE Holding(x)'
      BY <2>1, <1>2, BindingFields, <3>1, <3>2, <3>4, <3>5, <3>6, SMTT(20) DEF Holding, Adapter!AdapterBounds
    <3>9. ASSUME NEW x \in Process PROVE Placed(x)'
      BY <2>1, <1>2, BindingFields, <3>1, <3>2, <3>4, <3>5, <3>6, SMTT(20) DEF Placed, Adapter!Generation
    <3>10. OneWorkspace'
      BY <1>2, <3>6 DEF OneWorkspace
    <3>11. Announced'
      BY <1>2, <3>6 DEF Announced, Adapter!Generation
    <3> QED
      BY <1>3, <3>7, <3>8, <3>9, <3>10, <3>11 DEF AdapterInv
  <2>2. CASE binding # Adapter!NoRow
    <3>1. /\ at[p] = "idle"
          /\ holder = Nobody
          /\ binding.generation # 0
      BY <1>4, <2>2, <1>2, BindingFields
         DEF Adapter!Load, Adapter!Goto, Adapter!Keep, Placed, Holding, Bound, Adapter!NoRow, Adapter!NewBinding
    <3>2. holder' = p
      BY <1>4, <2>2, <1>1, <3>1 DEF Adapter!Load, Adapter!Goto, Adapter!Keep
    <3>3. local' = [local EXCEPT ![p] = binding]
      BY <1>4, <2>2 DEF Adapter!Load, Adapter!Goto, Adapter!Keep
    <3>4. /\ local'[p] = binding
          /\ \A z \in Process : z # p => local'[z] = local[z]
      BY <1>1, <3>1, <3>3 DEF Adapter!Binding
    <3>5. /\ at'[p] \in {"check", "listWorkspaces", "intendSandbox"} \/ (at'[p] = "intendWorkspace" /\ ~binding.workspaceIntent) \/ (at'[p] = "getSandbox" /\ binding.workspaceId # 0 /\ binding.sandboxId # 0)
          /\ \A z \in Process : z # p => at'[z] = at[z]
      BY <1>4, <2>2, <1>1, <3>1 DEF Adapter!Load, Adapter!Goto, Adapter!Keep, Adapter!First, Adapter!AfterWorkspace
    <3>6. UNCHANGED <<binding, calls, workspaces, attached, sandbox, route>>
      BY <1>4, <2>2 DEF Adapter!Load, Adapter!Goto, Adapter!Keep, Adapter!api
    <3>7. Bound'
      BY <1>2, <3>6 DEF Bound
    <3>8. ASSUME NEW x \in Process PROVE Holding(x)'
      BY <2>2, <1>2, BindingFields, <3>1, <3>2, <3>4, <3>5, <3>6, SMTT(20) DEF Holding, Adapter!AdapterBounds
    <3>9. ASSUME NEW x \in Process PROVE Placed(x)'
      BY <2>2, <1>2, BindingFields, <3>1, <3>2, <3>4, <3>5, <3>6, SMTT(20) DEF Placed, Adapter!Generation
    <3>10. OneWorkspace'
      BY <1>2, <3>6 DEF OneWorkspace
    <3>11. Announced'
      BY <1>2, <3>6 DEF Announced, Adapter!Generation
    <3> QED
      BY <1>3, <3>7, <3>8, <3>9, <3>10, <3>11 DEF AdapterInv
  <2> QED
    BY <2>1, <2>2, <1>4 DEF Adapter!Load, Adapter!Goto, Adapter!Keep
<1>5. ASSUME NEW p \in Process, Adapter!SaveFirst(p) PROVE AdapterInv'
  <2>1. /\ at[p] = "first"
        /\ holder = p
        /\ local[p] = binding
        /\ binding.generation = 0
        /\ binding = Adapter!NoRow
        /\ ~binding.workspaceIntent
    BY <1>5, <1>2, BindingFields DEF Adapter!SaveFirst, Adapter!Save, Adapter!Keep, Adapter!Goto, Placed, Holding,
       Bound, Adapter!NoRow, Adapter!NewBinding
  <2>2. local' = [local EXCEPT ![p] = Adapter!NewBinding(1, 0)] /\ binding' = Adapter!NewBinding(1, 0)
    BY <1>5 DEF Adapter!SaveFirst, Adapter!Save, Adapter!Keep, Adapter!Goto
  <2>3. /\ local'[p] = binding'
        /\ \A z \in Process : z # p => local'[z] = local[z]
    BY <1>1, <2>1, <2>2 DEF Adapter!Binding
  <2>4. binding' = Adapter!NewBinding(1, 0)
    BY <1>5 DEF Adapter!SaveFirst, Adapter!Save, Adapter!Keep, Adapter!Goto
  <2>5. /\ binding'.generation = 1
        /\ binding'.workspaceIntent = FALSE
        /\ binding'.workspaceId = 0
        /\ binding'.sandboxIntent = FALSE
        /\ binding'.sandboxId = 0
        /\ binding'.routeIntent = FALSE
        /\ binding'.grant = FALSE
    BY <1>1, <2>1, <2>4 DEF Adapter!Binding, Adapter!NewBinding
  <2>6. at' = [at EXCEPT ![p] = Adapter!First(Adapter!NewBinding(1, 0))]
    BY <1>5 DEF Adapter!SaveFirst, Adapter!Save, Adapter!Keep, Adapter!Goto
  <2>7. /\ at'[p] = "intendWorkspace"
        /\ \A z \in Process : z # p => at'[z] = at[z]
    BY <1>1, <2>1, <2>6 DEF Adapter!First, Adapter!NewBinding
  <2>8. UNCHANGED <<holder, calls, workspaces, attached, sandbox, route>>
    BY <1>5 DEF Adapter!SaveFirst, Adapter!Save, Adapter!Keep, Adapter!Goto, Adapter!api
  <2>9. Bound'
    BY <1>2, BindingFields, <2>1, <2>3, <2>5, <2>7, <2>8, SMTT(20) DEF Bound
  <2>10. ASSUME NEW x \in Process PROVE Holding(x)'
    BY <1>2, BindingFields, <2>1, <2>3, <2>5, <2>7, <2>8, SMTT(20) DEF Holding, Adapter!AdapterBounds
  <2>11. ASSUME NEW x \in Process PROVE Placed(x)'
    BY <1>2, BindingFields, <2>1, <2>3, <2>5, <2>7, <2>8, SMTT(20) DEF Placed, Adapter!Generation
  <2>12. OneWorkspace'
    BY <1>2, BindingFields, <2>1, <2>3, <2>5, <2>7, <2>8, SMTT(20) DEF OneWorkspace
  <2>13. Announced'
    BY <1>2, BindingFields, <2>1, <2>3, <2>5, <2>7, <2>8, SMTT(20) DEF Announced, Adapter!Generation
  <2> QED
    BY <1>3, <2>9, <2>10, <2>11, <2>12, <2>13 DEF AdapterInv
<1>6. ASSUME NEW p \in Process, Adapter!GiveUp(p) PROVE AdapterInv'
  <2>1. at[p] # "idle"
    BY <1>6 DEF Adapter!GiveUp, Adapter!Keep
  <2>2. at' = [at EXCEPT ![p] = "idle"]
    BY <1>6 DEF Adapter!GiveUp, Adapter!Keep
  <2>3. /\ at'[p] = "idle"
        /\ \A z \in Process : z # p => at'[z] = at[z]
    BY <1>1, <2>1, <2>2
  <2>4. local' = [local EXCEPT ![p] = Adapter!NoRow]
    BY <1>6 DEF Adapter!GiveUp, Adapter!Keep
  <2>5. /\ local'[p] = Adapter!NoRow
        /\ \A z \in Process : z # p => local'[z] = local[z]
    BY <1>1, <2>1, <2>4 DEF Adapter!Binding
  <2>6. holder' = Nobody \/ (holder' = holder /\ holder # p)
    BY <1>6, <1>1, <2>1 DEF Adapter!GiveUp, Adapter!Keep
  <2>7. UNCHANGED <<binding, calls, workspaces, attached, sandbox, route>>
    BY <1>6 DEF Adapter!GiveUp, Adapter!Keep, Adapter!api
  <2>8. Bound'
    BY <1>2, <2>7 DEF Bound
  <2>9. ASSUME NEW x \in Process PROVE Holding(x)'
    BY <1>2, BindingFields, <2>1, <2>3, <2>5, <2>6, <2>7, SMTT(20) DEF Holding, Adapter!AdapterBounds
  <2>10. ASSUME NEW x \in Process PROVE Placed(x)'
    BY <1>2, BindingFields, <2>1, <2>3, <2>5, <2>6, <2>7, SMTT(20) DEF Placed, Adapter!Generation
  <2>11. OneWorkspace'
    BY <1>2, <2>7 DEF OneWorkspace
  <2>12. Announced'
    BY <1>2, <2>7 DEF Announced, Adapter!Generation
  <2> QED
    BY <1>3, <2>8, <2>9, <2>10, <2>11, <2>12 DEF AdapterInv
<1>7. ASSUME NEW p \in Process, Adapter!LoseConnection(p) PROVE AdapterInv'
  <2>1. holder = p
    BY <1>7 DEF Adapter!LoseConnection
  <2>2. holder' = Nobody
    BY <1>7, <1>1, <2>1 DEF Adapter!LoseConnection
  <2>3. UNCHANGED <<binding, at, local, calls, workspaces, attached, sandbox, route>>
    BY <1>7 DEF Adapter!LoseConnection, Adapter!api
  <2>4. Bound'
    BY <1>2, <2>3 DEF Bound
  <2>5. ASSUME NEW x \in Process PROVE Holding(x)'
    BY <1>2, BindingFields, <2>1, <2>2, <2>3, SMTT(20) DEF Holding, Adapter!AdapterBounds
  <2>6. ASSUME NEW x \in Process PROVE Placed(x)'
    BY <1>2, <2>3 DEF Placed, Adapter!Generation
  <2>7. OneWorkspace'
    BY <1>2, <2>3 DEF OneWorkspace
  <2>8. Announced'
    BY <1>2, <2>3 DEF Announced, Adapter!Generation
  <2> QED
    BY <1>3, <2>4, <2>5, <2>6, <2>7, <2>8 DEF AdapterInv
<1>8. ASSUME NEW p \in Process, Adapter!IntendWorkspace(p) PROVE AdapterInv'
  <2>1. /\ at[p] = "intendWorkspace"
        /\ holder = p
        /\ local[p] = binding
        /\ binding.generation # 0
        /\ ~binding.workspaceIntent
    BY <1>8, <1>2, BindingFields DEF Adapter!IntendWorkspace, Adapter!Save, Adapter!Keep, Adapter!Goto, Adapter!Send,
       Placed, Holding, Bound, Adapter!NoRow, Adapter!NewBinding
  <2>2. local' = [local EXCEPT ![p] = [local[p] EXCEPT !.workspaceIntent = TRUE]] /\ binding' = [local[p] EXCEPT !.workspaceIntent = TRUE]
    BY <1>8 DEF Adapter!IntendWorkspace, Adapter!Save, Adapter!Keep, Adapter!Goto, Adapter!Send
  <2>3. /\ local'[p] = binding'
        /\ \A z \in Process : z # p => local'[z] = local[z]
    BY <1>1, <2>1, <2>2 DEF Adapter!Binding
  <2>4. binding' = [local[p] EXCEPT !.workspaceIntent = TRUE]
    BY <1>8 DEF Adapter!IntendWorkspace, Adapter!Save, Adapter!Keep, Adapter!Goto, Adapter!Send
  <2>5. /\ binding'.generation = binding.generation
        /\ binding'.workspaceIntent = TRUE
        /\ binding'.workspaceId = binding.workspaceId
        /\ binding'.sandboxIntent = binding.sandboxIntent
        /\ binding'.sandboxId = binding.sandboxId
        /\ binding'.routeIntent = binding.routeIntent
        /\ binding'.grant = binding.grant
    BY <1>1, <2>1, <2>4 DEF Adapter!Binding
  <2>6. at' = [at EXCEPT ![p] = "createWorkspace"]
    BY <1>8 DEF Adapter!IntendWorkspace, Adapter!Save, Adapter!Keep, Adapter!Goto, Adapter!Send
  <2>7. /\ at'[p] = "createWorkspace"
        /\ \A z \in Process : z # p => at'[z] = at[z]
    BY <1>1, <2>1, <2>6
  <2>8. calls' = calls \cup {Adapter!Call(p, "createWorkspace")}
    BY <1>8 DEF Adapter!IntendWorkspace, Adapter!Save, Adapter!Keep, Adapter!Goto, Adapter!Send
  <2>9. \A c \in calls' : c \in calls \/ (c.kind = "createWorkspace" /\ c = Adapter!Call(p, "createWorkspace"))
    BY <1>1, <2>1, <2>8 DEF Adapter!Call
  <2>10. UNCHANGED <<holder, workspaces, attached, sandbox, route>>
    BY <1>8 DEF Adapter!IntendWorkspace, Adapter!Save, Adapter!Keep, Adapter!Goto, Adapter!Send, Adapter!api
  <2>11. Bound'
    BY <1>2, BindingFields, <2>1, <2>3, <2>5, <2>7, <2>9, <2>10, SMTT(20) DEF Bound
  <2>12. ASSUME NEW x \in Process PROVE Holding(x)'
    BY <1>2, BindingFields, <2>1, <2>3, <2>5, <2>7, <2>9, <2>10, SMTT(20) DEF Holding, Adapter!AdapterBounds
  <2>13. ASSUME NEW x \in Process PROVE Placed(x)'
    BY <1>2, BindingFields, <2>1, <2>3, <2>5, <2>7, <2>9, <2>10, SMTT(20) DEF Placed, Adapter!Generation
  <2>14. OneWorkspace'
    BY <1>2, BindingFields, <2>1, <2>3, <2>5, <2>7, <2>9, <2>10, SMTT(20) DEF OneWorkspace
  <2>15. Announced'
    BY <1>2, BindingFields, <2>1, <2>3, <2>5, <2>7, <2>9, <2>10, SMTT(20) DEF Announced, Adapter!Generation
  <2> QED
    BY <1>3, <2>11, <2>12, <2>13, <2>14, <2>15 DEF AdapterInv
<1>9. ASSUME NEW p \in Process, Adapter!KeepWorkspace(p) PROVE AdapterInv'
  <2>1. /\ holder = p
        /\ local[p] = binding
        /\ binding.generation # 0
    BY <1>9, <1>2, BindingFields DEF Adapter!KeepWorkspace, Adapter!Save, Adapter!Keep, Adapter!Goto, Placed,
       Holding, Bound, Adapter!NoRow, Adapter!NewBinding
  <2>2. local' = [local EXCEPT ![p] = [local[p] EXCEPT !.workspaceIntent = TRUE, !.workspaceId = 1]] /\ binding' = [local[p] EXCEPT !.workspaceIntent = TRUE, !.workspaceId = 1]
    BY <1>9 DEF Adapter!KeepWorkspace, Adapter!Save, Adapter!Keep, Adapter!Goto
  <2>3. /\ local'[p] = binding'
        /\ \A z \in Process : z # p => local'[z] = local[z]
    BY <1>1, <2>1, <2>2 DEF Adapter!Binding
  <2>4. binding' = [local[p] EXCEPT !.workspaceIntent = TRUE, !.workspaceId = 1]
    BY <1>9 DEF Adapter!KeepWorkspace, Adapter!Save, Adapter!Keep, Adapter!Goto
  <2>5. /\ binding'.generation = binding.generation
        /\ binding'.workspaceIntent = TRUE
        /\ binding'.workspaceId = 1
        /\ binding'.sandboxIntent = binding.sandboxIntent
        /\ binding'.sandboxId = binding.sandboxId
        /\ binding'.routeIntent = binding.routeIntent
        /\ binding'.grant = binding.grant
    BY <1>1, <2>1, <2>4 DEF Adapter!Binding
  <2>6. at' = [at EXCEPT ![p] = Adapter!AfterWorkspace(local[p])]
    BY <1>9 DEF Adapter!KeepWorkspace, Adapter!Save, Adapter!Keep, Adapter!Goto
  <2>7. /\ at'[p] = "intendSandbox" \/ (at'[p] = "getSandbox" /\ binding.sandboxId # 0)
        /\ \A z \in Process : z # p => at'[z] = at[z]
    BY <1>1, <2>1, <2>6 DEF Adapter!AfterWorkspace
  <2>8. UNCHANGED <<holder, calls, workspaces, attached, sandbox, route>>
    BY <1>9 DEF Adapter!KeepWorkspace, Adapter!Save, Adapter!Keep, Adapter!Goto, Adapter!api
  <2>9. Bound'
    BY <1>2, BindingFields, <2>1, <2>3, <2>5, <2>7, <2>8, SMTT(20) DEF Bound
  <2>10. ASSUME NEW x \in Process PROVE Holding(x)'
    BY <1>2, BindingFields, <2>1, <2>3, <2>5, <2>7, <2>8, SMTT(20) DEF Holding, Adapter!AdapterBounds
  <2>11. ASSUME NEW x \in Process PROVE Placed(x)'
    BY <1>2, BindingFields, <2>1, <2>3, <2>5, <2>7, <2>8, SMTT(20) DEF Placed, Adapter!Generation
  <2>12. OneWorkspace'
    BY <1>2, BindingFields, <2>1, <2>3, <2>5, <2>7, <2>8, SMTT(20) DEF OneWorkspace
  <2>13. Announced'
    BY <1>2, BindingFields, <2>1, <2>3, <2>5, <2>7, <2>8, SMTT(20) DEF Announced, Adapter!Generation
  <2> QED
    BY <1>3, <2>9, <2>10, <2>11, <2>12, <2>13 DEF AdapterInv
<1>10. ASSUME NEW p \in Process, Adapter!GetSandbox(p) PROVE AdapterInv'
  <2>1. at[p] = "getSandbox"
    BY <1>10 DEF Adapter!GetSandbox, Adapter!Goto, Adapter!Recoverable
  <2>2. /\ at'[p] = "wait" \/ (at'[p] = "getWorkspace" /\ sandbox[local[p].sandboxId] = "terminated")
        /\ \A z \in Process : z # p => at'[z] = at[z]
    BY <1>10, <1>1, <2>1 DEF Adapter!GetSandbox, Adapter!Goto, Adapter!Recoverable
  <2>3. UNCHANGED <<binding, holder, local, calls, workspaces, attached, sandbox, route>>
    BY <1>10 DEF Adapter!GetSandbox, Adapter!Goto, Adapter!Recoverable, Adapter!api
  <2>4. Bound'
    BY <1>2, <2>3 DEF Bound
  <2>5. ASSUME NEW x \in Process PROVE Holding(x)'
    BY <1>2, <2>3 DEF Holding, Adapter!AdapterBounds
  <2>6. ASSUME NEW x \in Process PROVE Placed(x)'
    BY <1>2, BindingFields, <2>1, <2>2, <2>3, SMTT(20) DEF Placed, Adapter!Generation
  <2>7. OneWorkspace'
    BY <1>2, <2>3 DEF OneWorkspace
  <2>8. Announced'
    BY <1>2, <2>3 DEF Announced, Adapter!Generation
  <2> QED
    BY <1>3, <2>4, <2>5, <2>6, <2>7, <2>8 DEF AdapterInv
<1>11. ASSUME NEW p \in Process, Adapter!GetWorkspace(p) PROVE AdapterInv'
  <2>1. at[p] = "getWorkspace"
    BY <1>11 DEF Adapter!GetWorkspace, Adapter!Goto
  <2>2. at' = [at EXCEPT ![p] = "renew"]
    BY <1>11 DEF Adapter!GetWorkspace, Adapter!Goto
  <2>3. /\ at'[p] = "renew"
        /\ \A z \in Process : z # p => at'[z] = at[z]
    BY <1>1, <2>1, <2>2
  <2>4. UNCHANGED <<binding, holder, local, calls, workspaces, attached, sandbox, route>>
    BY <1>11 DEF Adapter!GetWorkspace, Adapter!Goto, Adapter!api
  <2>5. Bound'
    BY <1>2, <2>4 DEF Bound
  <2>6. ASSUME NEW x \in Process PROVE Holding(x)'
    BY <1>2, <2>4 DEF Holding, Adapter!AdapterBounds
  <2>7. ASSUME NEW x \in Process PROVE Placed(x)'
    BY <1>2, BindingFields, <2>1, <2>3, <2>4, SMTT(20) DEF Placed, Adapter!Generation
  <2>8. OneWorkspace'
    BY <1>2, <2>4 DEF OneWorkspace
  <2>9. Announced'
    BY <1>2, <2>4 DEF Announced, Adapter!Generation
  <2> QED
    BY <1>3, <2>5, <2>6, <2>7, <2>8, <2>9 DEF AdapterInv
<1>12. ASSUME NEW p \in Process, Adapter!RenewBinding(p) PROVE AdapterInv'
  <2>1. /\ at[p] = "renew"
        /\ holder = p
        /\ local[p] = binding
        /\ binding.generation # 0
        /\ binding.workspaceId # 0
        /\ binding.sandboxId = binding.generation
        /\ sandbox[binding.generation] = "terminated"
    BY <1>12, <1>2, BindingFields DEF Adapter!RenewBinding, Adapter!Save, Adapter!Keep, Adapter!Goto, Placed,
       Holding, Bound, Adapter!NoRow, Adapter!NewBinding
  <2>2. local' = [local EXCEPT ![p] = Adapter!NewBinding(local[p].generation + 1, local[p].workspaceId)] /\ binding' = Adapter!NewBinding(local[p].generation + 1, local[p].workspaceId)
    BY <1>12 DEF Adapter!RenewBinding, Adapter!Save, Adapter!Keep, Adapter!Goto
  <2>3. /\ local'[p] = binding'
        /\ \A z \in Process : z # p => local'[z] = local[z]
    BY <1>1, <2>1, <2>2 DEF Adapter!Binding
  <2>4. binding' = Adapter!NewBinding(local[p].generation + 1, local[p].workspaceId)
    BY <1>12 DEF Adapter!RenewBinding, Adapter!Save, Adapter!Keep, Adapter!Goto
  <2>5. /\ binding'.generation = binding.generation + 1
        /\ binding'.workspaceIntent = TRUE
        /\ binding'.workspaceId = binding.workspaceId
        /\ binding'.sandboxIntent = FALSE
        /\ binding'.sandboxId = 0
        /\ binding'.routeIntent = FALSE
        /\ binding'.grant = FALSE
    BY <1>1, <2>1, <2>4 DEF Adapter!Binding, Adapter!NewBinding
  <2>6. at' = [at EXCEPT ![p] = "intendSandbox"]
    BY <1>12 DEF Adapter!RenewBinding, Adapter!Save, Adapter!Keep, Adapter!Goto
  <2>7. /\ at'[p] = "intendSandbox"
        /\ \A z \in Process : z # p => at'[z] = at[z]
    BY <1>1, <2>1, <2>6
  <2>8. UNCHANGED <<holder, calls, workspaces, attached, sandbox, route>>
    BY <1>12 DEF Adapter!RenewBinding, Adapter!Save, Adapter!Keep, Adapter!Goto, Adapter!api
  <2>9. Bound'
    BY <1>2, BindingFields, <2>1, <2>3, <2>5, <2>7, <2>8, SMTT(20) DEF Bound
  <2>10. ASSUME NEW x \in Process PROVE Holding(x)'
    BY <1>2, BindingFields, <2>1, <2>3, <2>5, <2>7, <2>8, SMTT(20) DEF Holding, Adapter!AdapterBounds
  <2>11. ASSUME NEW x \in Process PROVE Placed(x)'
    BY <1>2, BindingFields, <2>1, <2>3, <2>5, <2>7, <2>8, SMTT(20) DEF Placed, Adapter!Generation
  <2>12. OneWorkspace'
    BY <1>2, BindingFields, <2>1, <2>3, <2>5, <2>7, <2>8, SMTT(20) DEF OneWorkspace
  <2>13. Announced'
    BY <1>2, BindingFields, <2>1, <2>3, <2>5, <2>7, <2>8, SMTT(20) DEF Announced, Adapter!Generation
  <2> QED
    BY <1>3, <2>9, <2>10, <2>11, <2>12, <2>13 DEF AdapterInv
<1>13. ASSUME NEW p \in Process, Adapter!IntendSandbox(p) PROVE AdapterInv'
  <2>1. /\ at[p] = "intendSandbox"
        /\ holder = p
        /\ local[p] = binding
        /\ binding.generation # 0
    BY <1>13, <1>2, BindingFields DEF Adapter!IntendSandbox, Adapter!Save, Adapter!Keep, Adapter!Goto, Adapter!Send,
       Placed, Holding, Bound, Adapter!NoRow, Adapter!NewBinding
  <2>2. local' = [local EXCEPT ![p] = [local[p] EXCEPT !.sandboxIntent = TRUE]] /\ binding' = [local[p] EXCEPT !.sandboxIntent = TRUE]
    BY <1>13 DEF Adapter!IntendSandbox, Adapter!Save, Adapter!Keep, Adapter!Goto, Adapter!Send
  <2>3. /\ local'[p] = binding'
        /\ \A z \in Process : z # p => local'[z] = local[z]
    BY <1>1, <2>1, <2>2 DEF Adapter!Binding
  <2>4. binding' = [local[p] EXCEPT !.sandboxIntent = TRUE]
    BY <1>13 DEF Adapter!IntendSandbox, Adapter!Save, Adapter!Keep, Adapter!Goto, Adapter!Send
  <2>5. /\ binding'.generation = binding.generation
        /\ binding'.workspaceIntent = binding.workspaceIntent
        /\ binding'.workspaceId = binding.workspaceId
        /\ binding'.sandboxIntent = TRUE
        /\ binding'.sandboxId = binding.sandboxId
        /\ binding'.routeIntent = binding.routeIntent
        /\ binding'.grant = binding.grant
    BY <1>1, <2>1, <2>4 DEF Adapter!Binding
  <2>6. at' = [at EXCEPT ![p] = "createSandbox"]
    BY <1>13 DEF Adapter!IntendSandbox, Adapter!Save, Adapter!Keep, Adapter!Goto, Adapter!Send
  <2>7. /\ at'[p] = "createSandbox"
        /\ \A z \in Process : z # p => at'[z] = at[z]
    BY <1>1, <2>1, <2>6
  <2>8. calls' = calls \cup {Adapter!Call(p, "createSandbox")}
    BY <1>13 DEF Adapter!IntendSandbox, Adapter!Save, Adapter!Keep, Adapter!Goto, Adapter!Send
  <2>9. \A c \in calls' : c \in calls \/ (c.kind = "createSandbox" /\ c.generation = binding.generation)
    BY <1>1, <2>1, <2>8 DEF Adapter!Call
  <2>10. UNCHANGED <<holder, workspaces, attached, sandbox, route>>
    BY <1>13 DEF Adapter!IntendSandbox, Adapter!Save, Adapter!Keep, Adapter!Goto, Adapter!Send, Adapter!api
  <2>11. Bound'
    BY <1>2, BindingFields, <2>1, <2>3, <2>5, <2>7, <2>9, <2>10, SMTT(20) DEF Bound
  <2>12. ASSUME NEW x \in Process PROVE Holding(x)'
    BY <1>2, BindingFields, <2>1, <2>3, <2>5, <2>7, <2>9, <2>10, SMTT(20) DEF Holding, Adapter!AdapterBounds
  <2>13. ASSUME NEW x \in Process PROVE Placed(x)'
    BY <1>2, BindingFields, <2>1, <2>3, <2>5, <2>7, <2>9, <2>10, SMTT(20) DEF Placed, Adapter!Generation
  <2>14. OneWorkspace'
    BY <1>2, BindingFields, <2>1, <2>3, <2>5, <2>7, <2>9, <2>10, SMTT(20) DEF OneWorkspace
  <2>15. Announced'
    BY <1>2, BindingFields, <2>1, <2>3, <2>5, <2>7, <2>9, <2>10, SMTT(20) DEF Announced, Adapter!Generation
  <2> QED
    BY <1>3, <2>11, <2>12, <2>13, <2>14, <2>15 DEF AdapterInv
<1>14. ASSUME NEW p \in Process, Adapter!KeepSandbox(p) PROVE AdapterInv'
  <2>1. /\ at[p] = "createSandbox"
        /\ holder = p
        /\ local[p] = binding
        /\ binding.generation # 0
    BY <1>14, <1>2, BindingFields DEF Adapter!KeepSandbox, Adapter!Save, Adapter!Keep, Adapter!Goto, Placed, Holding,
       Bound, Adapter!NoRow, Adapter!NewBinding
  <2>2. local' = [local EXCEPT ![p] = [local[p] EXCEPT !.sandboxId = local[p].generation]] /\ binding' = [local[p] EXCEPT !.sandboxId = local[p].generation]
    BY <1>14 DEF Adapter!KeepSandbox, Adapter!Save, Adapter!Keep, Adapter!Goto
  <2>3. /\ local'[p] = binding'
        /\ \A z \in Process : z # p => local'[z] = local[z]
    BY <1>1, <2>1, <2>2 DEF Adapter!Binding
  <2>4. binding' = [local[p] EXCEPT !.sandboxId = local[p].generation]
    BY <1>14 DEF Adapter!KeepSandbox, Adapter!Save, Adapter!Keep, Adapter!Goto
  <2>5. /\ binding'.generation = binding.generation
        /\ binding'.workspaceIntent = binding.workspaceIntent
        /\ binding'.workspaceId = binding.workspaceId
        /\ binding'.sandboxIntent = binding.sandboxIntent
        /\ binding'.sandboxId = binding.generation
        /\ binding'.routeIntent = binding.routeIntent
        /\ binding'.grant = binding.grant
    BY <1>1, <2>1, <2>4 DEF Adapter!Binding
  <2>6. at' = [at EXCEPT ![p] = "wait"]
    BY <1>14 DEF Adapter!KeepSandbox, Adapter!Save, Adapter!Keep, Adapter!Goto
  <2>7. /\ at'[p] = "wait"
        /\ \A z \in Process : z # p => at'[z] = at[z]
    BY <1>1, <2>1, <2>6
  <2>8. UNCHANGED <<holder, calls, workspaces, attached, sandbox, route>>
    BY <1>14 DEF Adapter!KeepSandbox, Adapter!Save, Adapter!Keep, Adapter!Goto, Adapter!api
  <2>9. Bound'
    BY <1>2, BindingFields, <2>1, <2>3, <2>5, <2>7, <2>8, SMTT(20) DEF Bound
  <2>10. ASSUME NEW x \in Process PROVE Holding(x)'
    BY <1>2, BindingFields, <2>1, <2>3, <2>5, <2>7, <2>8, SMTT(20) DEF Holding, Adapter!AdapterBounds
  <2>11. ASSUME NEW x \in Process PROVE Placed(x)'
    BY <1>2, BindingFields, <2>1, <2>3, <2>5, <2>7, <2>8, SMTT(20) DEF Placed, Adapter!Generation
  <2>12. OneWorkspace'
    BY <1>2, BindingFields, <2>1, <2>3, <2>5, <2>7, <2>8, SMTT(20) DEF OneWorkspace
  <2>13. Announced'
    BY <1>2, BindingFields, <2>1, <2>3, <2>5, <2>7, <2>8, SMTT(20) DEF Announced, Adapter!Generation
  <2> QED
    BY <1>3, <2>9, <2>10, <2>11, <2>12, <2>13 DEF AdapterInv
<1>15. ASSUME NEW p \in Process, Adapter!WaitForSandbox(p) PROVE AdapterInv'
  <2>1. at[p] = "wait"
    BY <1>15 DEF Adapter!WaitForSandbox, Adapter!Goto
  <2>2. at' = [at EXCEPT ![p] = "intendRoute"]
    BY <1>15 DEF Adapter!WaitForSandbox, Adapter!Goto
  <2>3. /\ at'[p] = "intendRoute"
        /\ \A z \in Process : z # p => at'[z] = at[z]
    BY <1>1, <2>1, <2>2
  <2>4. UNCHANGED <<binding, holder, local, calls, workspaces, attached, sandbox, route>>
    BY <1>15 DEF Adapter!WaitForSandbox, Adapter!Goto, Adapter!api
  <2>5. Bound'
    BY <1>2, <2>4 DEF Bound
  <2>6. ASSUME NEW x \in Process PROVE Holding(x)'
    BY <1>2, <2>4 DEF Holding, Adapter!AdapterBounds
  <2>7. ASSUME NEW x \in Process PROVE Placed(x)'
    BY <1>2, BindingFields, <2>1, <2>3, <2>4, SMTT(20) DEF Placed, Adapter!Generation
  <2>8. OneWorkspace'
    BY <1>2, <2>4 DEF OneWorkspace
  <2>9. Announced'
    BY <1>2, <2>4 DEF Announced, Adapter!Generation
  <2> QED
    BY <1>3, <2>5, <2>6, <2>7, <2>8, <2>9 DEF AdapterInv
<1>16. ASSUME NEW p \in Process, Adapter!IntendRoute(p) PROVE AdapterInv'
  <2>1. /\ at[p] = "intendRoute"
        /\ holder = p
        /\ local[p] = binding
        /\ binding.generation # 0
    BY <1>16, <1>2, BindingFields DEF Adapter!IntendRoute, Adapter!Save, Adapter!Keep, Adapter!Goto, Adapter!Send,
       Placed, Holding, Bound, Adapter!NoRow, Adapter!NewBinding
  <2>2. local' = [local EXCEPT ![p] = [local[p] EXCEPT !.routeIntent = TRUE]] /\ binding' = [local[p] EXCEPT !.routeIntent = TRUE]
    BY <1>16 DEF Adapter!IntendRoute, Adapter!Save, Adapter!Keep, Adapter!Goto, Adapter!Send
  <2>3. /\ local'[p] = binding'
        /\ \A z \in Process : z # p => local'[z] = local[z]
    BY <1>1, <2>1, <2>2 DEF Adapter!Binding
  <2>4. binding' = [local[p] EXCEPT !.routeIntent = TRUE]
    BY <1>16 DEF Adapter!IntendRoute, Adapter!Save, Adapter!Keep, Adapter!Goto, Adapter!Send
  <2>5. /\ binding'.generation = binding.generation
        /\ binding'.workspaceIntent = binding.workspaceIntent
        /\ binding'.workspaceId = binding.workspaceId
        /\ binding'.sandboxIntent = binding.sandboxIntent
        /\ binding'.sandboxId = binding.sandboxId
        /\ binding'.routeIntent = TRUE
        /\ binding'.grant = binding.grant
    BY <1>1, <2>1, <2>4 DEF Adapter!Binding
  <2>6. at' = [at EXCEPT ![p] = "exposeRoute"]
    BY <1>16 DEF Adapter!IntendRoute, Adapter!Save, Adapter!Keep, Adapter!Goto, Adapter!Send
  <2>7. /\ at'[p] = "exposeRoute"
        /\ \A z \in Process : z # p => at'[z] = at[z]
    BY <1>1, <2>1, <2>6
  <2>8. calls' = calls \cup {Adapter!Call(p, "exposeRoute")}
    BY <1>16 DEF Adapter!IntendRoute, Adapter!Save, Adapter!Keep, Adapter!Goto, Adapter!Send
  <2>9. \A c \in calls' : c \in calls \/ (c.kind = "exposeRoute")
    BY <1>1, <2>1, <2>8 DEF Adapter!Call
  <2>10. UNCHANGED <<holder, workspaces, attached, sandbox, route>>
    BY <1>16 DEF Adapter!IntendRoute, Adapter!Save, Adapter!Keep, Adapter!Goto, Adapter!Send, Adapter!api
  <2>11. Bound'
    BY <1>2, BindingFields, <2>1, <2>3, <2>5, <2>7, <2>9, <2>10, SMTT(20) DEF Bound
  <2>12. ASSUME NEW x \in Process PROVE Holding(x)'
    BY <1>2, BindingFields, <2>1, <2>3, <2>5, <2>7, <2>9, <2>10, SMTT(20) DEF Holding, Adapter!AdapterBounds
  <2>13. ASSUME NEW x \in Process PROVE Placed(x)'
    BY <1>2, BindingFields, <2>1, <2>3, <2>5, <2>7, <2>9, <2>10, SMTT(20) DEF Placed, Adapter!Generation
  <2>14. OneWorkspace'
    BY <1>2, BindingFields, <2>1, <2>3, <2>5, <2>7, <2>9, <2>10, SMTT(20) DEF OneWorkspace
  <2>15. Announced'
    BY <1>2, BindingFields, <2>1, <2>3, <2>5, <2>7, <2>9, <2>10, SMTT(20) DEF Announced, Adapter!Generation
  <2> QED
    BY <1>3, <2>11, <2>12, <2>13, <2>14, <2>15 DEF AdapterInv
<1>17. ASSUME NEW p \in Process, Adapter!KeepGrant(p) PROVE AdapterInv'
  <2>1. /\ at[p] = "exposeRoute"
        /\ holder = p
        /\ local[p] = binding
        /\ binding.generation # 0
    BY <1>17, <1>2, BindingFields DEF Adapter!KeepGrant, Adapter!Save, Adapter!Keep, Adapter!Goto, Placed, Holding,
       Bound, Adapter!NoRow, Adapter!NewBinding
  <2>2. local' = [local EXCEPT ![p] = [local[p] EXCEPT !.grant = TRUE]] /\ binding' = [local[p] EXCEPT !.grant = TRUE]
    BY <1>17 DEF Adapter!KeepGrant, Adapter!Save, Adapter!Keep, Adapter!Goto
  <2>3. /\ local'[p] = binding'
        /\ \A z \in Process : z # p => local'[z] = local[z]
    BY <1>1, <2>1, <2>2 DEF Adapter!Binding
  <2>4. binding' = [local[p] EXCEPT !.grant = TRUE]
    BY <1>17 DEF Adapter!KeepGrant, Adapter!Save, Adapter!Keep, Adapter!Goto
  <2>5. /\ binding'.generation = binding.generation
        /\ binding'.workspaceIntent = binding.workspaceIntent
        /\ binding'.workspaceId = binding.workspaceId
        /\ binding'.sandboxIntent = binding.sandboxIntent
        /\ binding'.sandboxId = binding.sandboxId
        /\ binding'.routeIntent = binding.routeIntent
        /\ binding'.grant = TRUE
    BY <1>1, <2>1, <2>4 DEF Adapter!Binding
  <2>6. at' = [at EXCEPT ![p] = "use"]
    BY <1>17 DEF Adapter!KeepGrant, Adapter!Save, Adapter!Keep, Adapter!Goto
  <2>7. /\ at'[p] = "use"
        /\ \A z \in Process : z # p => at'[z] = at[z]
    BY <1>1, <2>1, <2>6
  <2>8. UNCHANGED <<holder, calls, workspaces, attached, sandbox, route>>
    BY <1>17 DEF Adapter!KeepGrant, Adapter!Save, Adapter!Keep, Adapter!Goto, Adapter!api
  <2>9. Bound'
    BY <1>2, BindingFields, <2>1, <2>3, <2>5, <2>7, <2>8, SMTT(20) DEF Bound
  <2>10. ASSUME NEW x \in Process PROVE Holding(x)'
    BY <1>2, BindingFields, <2>1, <2>3, <2>5, <2>7, <2>8, SMTT(20) DEF Holding, Adapter!AdapterBounds
  <2>11. ASSUME NEW x \in Process PROVE Placed(x)'
    BY <1>2, BindingFields, <2>1, <2>3, <2>5, <2>7, <2>8, SMTT(20) DEF Placed, Adapter!Generation
  <2>12. OneWorkspace'
    BY <1>2, BindingFields, <2>1, <2>3, <2>5, <2>7, <2>8, SMTT(20) DEF OneWorkspace
  <2>13. Announced'
    BY <1>2, BindingFields, <2>1, <2>3, <2>5, <2>7, <2>8, SMTT(20) DEF Announced, Adapter!Generation
  <2> QED
    BY <1>3, <2>9, <2>10, <2>11, <2>12, <2>13 DEF AdapterInv
<1>18. ASSUME NEW p \in Process, Adapter!CheckReset(p) PROVE AdapterInv'
  <2>1. at[p] = "check"
    BY <1>18 DEF Adapter!CheckReset, Adapter!Goto
  <2>2. at' = [at EXCEPT ![p] = "revoke"]
    BY <1>18 DEF Adapter!CheckReset, Adapter!Goto
  <2>3. /\ at'[p] = "revoke"
        /\ \A z \in Process : z # p => at'[z] = at[z]
    BY <1>1, <2>1, <2>2
  <2>4. UNCHANGED <<binding, holder, local, calls, workspaces, attached, sandbox, route>>
    BY <1>18 DEF Adapter!CheckReset, Adapter!Goto, Adapter!api
  <2>5. Bound'
    BY <1>2, <2>4 DEF Bound
  <2>6. ASSUME NEW x \in Process PROVE Holding(x)'
    BY <1>2, <2>4 DEF Holding, Adapter!AdapterBounds
  <2>7. ASSUME NEW x \in Process PROVE Placed(x)'
    BY <1>2, BindingFields, <2>1, <2>3, <2>4, SMTT(20) DEF Placed, Adapter!Generation
  <2>8. OneWorkspace'
    BY <1>2, <2>4 DEF OneWorkspace
  <2>9. Announced'
    BY <1>2, <2>4 DEF Announced, Adapter!Generation
  <2> QED
    BY <1>3, <2>5, <2>6, <2>7, <2>8, <2>9 DEF AdapterInv
<1>19. ASSUME NEW p \in Process, Adapter!RevokeGrant(p) PROVE AdapterInv'
  <2>1. /\ at[p] = "revoke"
        /\ holder = p
        /\ local[p] = binding
        /\ binding.generation # 0
    BY <1>19, <1>2, BindingFields DEF Adapter!RevokeGrant, Adapter!Save, Adapter!Keep, Adapter!Goto, Placed, Holding,
       Bound, Adapter!NoRow, Adapter!NewBinding
  <2>2. local' = [local EXCEPT ![p] = [local[p] EXCEPT !.grant = FALSE, !.routeIntent = TRUE]] /\ binding' = [local[p] EXCEPT !.grant = FALSE, !.routeIntent = TRUE]
    BY <1>19 DEF Adapter!RevokeGrant, Adapter!Save, Adapter!Keep, Adapter!Goto
  <2>3. /\ local'[p] = binding'
        /\ \A z \in Process : z # p => local'[z] = local[z]
    BY <1>1, <2>1, <2>2 DEF Adapter!Binding
  <2>4. binding' = [local[p] EXCEPT !.grant = FALSE, !.routeIntent = TRUE]
    BY <1>19 DEF Adapter!RevokeGrant, Adapter!Save, Adapter!Keep, Adapter!Goto
  <2>5. /\ binding'.generation = binding.generation
        /\ binding'.workspaceIntent = binding.workspaceIntent
        /\ binding'.workspaceId = binding.workspaceId
        /\ binding'.sandboxIntent = binding.sandboxIntent
        /\ binding'.sandboxId = binding.sandboxId
        /\ binding'.routeIntent = TRUE
        /\ binding'.grant = FALSE
    BY <1>1, <2>1, <2>4 DEF Adapter!Binding
  <2>6. at' = [at EXCEPT ![p] = "deleteRoute"]
    BY <1>19 DEF Adapter!RevokeGrant, Adapter!Save, Adapter!Keep, Adapter!Goto
  <2>7. /\ at'[p] = "deleteRoute"
        /\ \A z \in Process : z # p => at'[z] = at[z]
    BY <1>1, <2>1, <2>6
  <2>8. UNCHANGED <<holder, calls, workspaces, attached, sandbox, route>>
    BY <1>19 DEF Adapter!RevokeGrant, Adapter!Save, Adapter!Keep, Adapter!Goto, Adapter!api
  <2>9. Bound'
    BY <1>2, BindingFields, <2>1, <2>3, <2>5, <2>7, <2>8, SMTT(20) DEF Bound
  <2>10. ASSUME NEW x \in Process PROVE Holding(x)'
    BY <1>2, BindingFields, <2>1, <2>3, <2>5, <2>7, <2>8, SMTT(20) DEF Holding, Adapter!AdapterBounds
  <2>11. ASSUME NEW x \in Process PROVE Placed(x)'
    BY <1>2, BindingFields, <2>1, <2>3, <2>5, <2>7, <2>8, SMTT(20) DEF Placed, Adapter!Generation
  <2>12. OneWorkspace'
    BY <1>2, BindingFields, <2>1, <2>3, <2>5, <2>7, <2>8, SMTT(20) DEF OneWorkspace
  <2>13. Announced'
    BY <1>2, BindingFields, <2>1, <2>3, <2>5, <2>7, <2>8, SMTT(20) DEF Announced, Adapter!Generation
  <2> QED
    BY <1>3, <2>9, <2>10, <2>11, <2>12, <2>13 DEF AdapterInv
<1>20. ASSUME NEW p \in Process, Adapter!DeleteRoute(p) PROVE AdapterInv'
  <2>1. at[p] = "deleteRoute"
    BY <1>20 DEF Adapter!DeleteRoute, Adapter!Goto
  <2>2. at' = [at EXCEPT ![p] = "listRoutes"]
    BY <1>20 DEF Adapter!DeleteRoute, Adapter!Goto
  <2>3. /\ at'[p] = "listRoutes"
        /\ \A z \in Process : z # p => at'[z] = at[z]
    BY <1>1, <2>1, <2>2
  <2>4. UNCHANGED <<binding, holder, local, calls, workspaces, attached, sandbox>>
    BY <1>20 DEF Adapter!DeleteRoute, Adapter!Goto, Adapter!api
  <2>5. Bound'
    BY <1>2, <2>4 DEF Bound
  <2>6. ASSUME NEW x \in Process PROVE Holding(x)'
    BY <1>2, <2>4 DEF Holding, Adapter!AdapterBounds
  <2>7. ASSUME NEW x \in Process PROVE Placed(x)'
    BY <1>2, BindingFields, <2>1, <2>3, <2>4, SMTT(20) DEF Placed, Adapter!Generation
  <2>8. OneWorkspace'
    BY <1>2, <2>4 DEF OneWorkspace
  <2>9. Announced'
    BY <1>2, <2>4 DEF Announced, Adapter!Generation
  <2> QED
    BY <1>3, <2>5, <2>6, <2>7, <2>8, <2>9 DEF AdapterInv
<1>21. ASSUME NEW p \in Process, Adapter!ListRoutes(p) PROVE AdapterInv'
  <2>1. at[p] = "listRoutes"
    BY <1>21 DEF Adapter!ListRoutes, Adapter!Goto
  <2>2. at' = [at EXCEPT ![p] = "reset"]
    BY <1>21 DEF Adapter!ListRoutes, Adapter!Goto
  <2>3. /\ at'[p] = "reset"
        /\ \A z \in Process : z # p => at'[z] = at[z]
    BY <1>1, <2>1, <2>2
  <2>4. UNCHANGED <<binding, holder, local, calls, workspaces, attached, sandbox, route>>
    BY <1>21 DEF Adapter!ListRoutes, Adapter!Goto, Adapter!api
  <2>5. Bound'
    BY <1>2, <2>4 DEF Bound
  <2>6. ASSUME NEW x \in Process PROVE Holding(x)'
    BY <1>2, <2>4 DEF Holding, Adapter!AdapterBounds
  <2>7. ASSUME NEW x \in Process PROVE Placed(x)'
    BY <1>2, BindingFields, <2>1, <2>3, <2>4, SMTT(20) DEF Placed, Adapter!Generation
  <2>8. OneWorkspace'
    BY <1>2, <2>4 DEF OneWorkspace
  <2>9. Announced'
    BY <1>2, <2>4 DEF Announced, Adapter!Generation
  <2> QED
    BY <1>3, <2>5, <2>6, <2>7, <2>8, <2>9 DEF AdapterInv
<1>22. ASSUME NEW p \in Process, Adapter!ResetGrant(p) PROVE AdapterInv'
  <2>1. /\ at[p] = "reset"
        /\ holder = p
        /\ local[p] = binding
        /\ binding.generation # 0
    BY <1>22, <1>2, BindingFields DEF Adapter!ResetGrant, Adapter!Save, Adapter!Keep, Adapter!Goto, Placed, Holding,
       Bound, Adapter!NoRow, Adapter!NewBinding
  <2>2. local' = [local EXCEPT ![p] = [local[p] EXCEPT !.routeIntent = FALSE]] /\ binding' = [local[p] EXCEPT !.routeIntent = FALSE]
    BY <1>22 DEF Adapter!ResetGrant, Adapter!Save, Adapter!Keep, Adapter!Goto
  <2>3. /\ local'[p] = binding'
        /\ \A z \in Process : z # p => local'[z] = local[z]
    BY <1>1, <2>1, <2>2 DEF Adapter!Binding
  <2>4. binding' = [local[p] EXCEPT !.routeIntent = FALSE]
    BY <1>22 DEF Adapter!ResetGrant, Adapter!Save, Adapter!Keep, Adapter!Goto
  <2>5. /\ binding'.generation = binding.generation
        /\ binding'.workspaceIntent = binding.workspaceIntent
        /\ binding'.workspaceId = binding.workspaceId
        /\ binding'.sandboxIntent = binding.sandboxIntent
        /\ binding'.sandboxId = binding.sandboxId
        /\ binding'.routeIntent = FALSE
        /\ binding'.grant = binding.grant
    BY <1>1, <2>1, <2>4 DEF Adapter!Binding
  <2>6. at' = [at EXCEPT ![p] = "use"]
    BY <1>22 DEF Adapter!ResetGrant, Adapter!Save, Adapter!Keep, Adapter!Goto
  <2>7. /\ at'[p] = "use"
        /\ \A z \in Process : z # p => at'[z] = at[z]
    BY <1>1, <2>1, <2>6
  <2>8. UNCHANGED <<holder, calls, workspaces, attached, sandbox, route>>
    BY <1>22 DEF Adapter!ResetGrant, Adapter!Save, Adapter!Keep, Adapter!Goto, Adapter!api
  <2>9. Bound'
    BY <1>2, BindingFields, <2>1, <2>3, <2>5, <2>7, <2>8, SMTT(20) DEF Bound
  <2>10. ASSUME NEW x \in Process PROVE Holding(x)'
    BY <1>2, BindingFields, <2>1, <2>3, <2>5, <2>7, <2>8, SMTT(20) DEF Holding, Adapter!AdapterBounds
  <2>11. ASSUME NEW x \in Process PROVE Placed(x)'
    BY <1>2, BindingFields, <2>1, <2>3, <2>5, <2>7, <2>8, SMTT(20) DEF Placed, Adapter!Generation
  <2>12. OneWorkspace'
    BY <1>2, BindingFields, <2>1, <2>3, <2>5, <2>7, <2>8, SMTT(20) DEF OneWorkspace
  <2>13. Announced'
    BY <1>2, BindingFields, <2>1, <2>3, <2>5, <2>7, <2>8, SMTT(20) DEF Announced, Adapter!Generation
  <2> QED
    BY <1>3, <2>9, <2>10, <2>11, <2>12, <2>13 DEF AdapterInv
<1>23. ASSUME NEW c \in calls, Adapter!CarryOut(c) PROVE AdapterInv'
  <2>1. CASE Adapter!Accepts(c)
    <3>1. /\ c \in calls
          /\ c \in Adapter!Request
          /\ c.kind = "createSandbox"
          /\ sandbox[c.generation] = "none"
      BY <1>23, <2>1, <1>2, BindingFields
         DEF Adapter!CarryOut, Adapter!Accepts, Placed, Holding, Bound, Adapter!NoRow, Adapter!NewBinding
    <3>2. calls' \subseteq calls
      BY <1>23, <2>1, <1>1, <3>1 DEF Adapter!CarryOut, Adapter!Accepts
    <3>3. sandbox' = [sandbox EXCEPT ![c.generation] = "running"]
      BY <1>23, <2>1 DEF Adapter!CarryOut, Adapter!Accepts, Adapter!Accepts
    <3>4. /\ sandbox'[c.generation] = "running"
          /\ \A z \in Adapter!Generation : z # c.generation => sandbox'[z] = sandbox[z]
      BY <1>1, <3>1, <3>3 DEF Adapter!Request
    <3>5. workspaces' = workspaces
      BY <1>23, <2>1, <1>1, <3>1 DEF Adapter!CarryOut, Adapter!Accepts
    <3>6. UNCHANGED <<binding, holder, at, local>>
      BY <1>23, <2>1 DEF Adapter!CarryOut, Adapter!Accepts, Adapter!api
    <3>7. Bound'
      BY <1>2, <3>6 DEF Bound
    <3>8. ASSUME NEW x \in Process PROVE Holding(x)'
      BY <1>2, <3>6 DEF Holding, Adapter!AdapterBounds
    <3>9. ASSUME NEW x \in Process PROVE Placed(x)'
      BY <2>1, <1>2, BindingFields, <3>1, <3>2, <3>4, <3>5, <3>6, SMTT(20) DEF Placed, Adapter!Generation
    <3>10. OneWorkspace'
      BY <2>1, <1>2, BindingFields, <3>1, <3>2, <3>4, <3>5, <3>6, SMTT(20) DEF OneWorkspace
    <3>11. Announced'
      BY <2>1, <1>2, BindingFields, <3>1, <3>2, <3>4, <3>5, <3>6, SMTT(20) DEF Announced, Adapter!Generation
    <3> QED
      BY <1>3, <3>7, <3>8, <3>9, <3>10, <3>11 DEF AdapterInv
  <2>2. CASE ~Adapter!Accepts(c)
    <3>1. c \in calls
      BY <1>23, <2>2 DEF Adapter!CarryOut, Adapter!Accepts
    <3>2. calls' = calls \ {c}
      BY <1>23, <2>2, <1>1, <3>1 DEF Adapter!CarryOut, Adapter!Accepts
    <3>3. workspaces' = workspaces \/ (c.kind = "createWorkspace" /\ workspaces' = workspaces + 1)
      BY <1>23, <2>2, <1>1, <3>1 DEF Adapter!CarryOut, Adapter!Accepts
    <3>4. sandbox' = sandbox
      BY <1>23, <2>2, <1>1, <3>1 DEF Adapter!CarryOut, Adapter!Accepts
    <3>5. UNCHANGED <<binding, holder, at, local>>
      BY <1>23, <2>2 DEF Adapter!CarryOut, Adapter!Accepts, Adapter!api
    <3>6. Bound'
      BY <1>2, <3>5 DEF Bound
    <3>7. ASSUME NEW x \in Process PROVE Holding(x)'
      BY <1>2, <3>5 DEF Holding, Adapter!AdapterBounds
    <3>8. ASSUME NEW x \in Process PROVE Placed(x)'
      BY <2>2, <1>2, BindingFields, <3>1, <3>2, <3>3, <3>4, <3>5, SMTT(20) DEF Placed, Adapter!Generation
    <3>9. OneWorkspace'
      BY <2>2, <1>2, BindingFields, <3>1, <3>2, <3>3, <3>4, <3>5, SMTT(20) DEF OneWorkspace
    <3>10. Announced'
      BY <2>2, <1>2, BindingFields, <3>1, <3>2, <3>3, <3>4, <3>5, SMTT(20) DEF Announced, Adapter!Generation
    <3> QED
      BY <1>3, <3>6, <3>7, <3>8, <3>9, <3>10 DEF AdapterInv
  <2> QED
    BY <2>1, <2>2, <1>23 DEF Adapter!CarryOut, Adapter!Accepts
<1>24. ASSUME NEW g \in Adapter!Generation, Adapter!SandboxChanges(g) PROVE AdapterInv'
  <2>1. sandbox[g] \in {"running", "stopped"}
    BY <1>24 DEF Adapter!SandboxChanges
  <2>2. /\ sandbox'[g] \in {"running", "stopped", "terminated"}
        /\ \A z \in Adapter!Generation : z # g => sandbox'[z] = sandbox[z]
    BY <1>24, <1>1, <2>1 DEF Adapter!SandboxChanges
  <2>3. UNCHANGED <<binding, holder, at, local, calls, workspaces, attached>>
    BY <1>24 DEF Adapter!SandboxChanges, Adapter!api
  <2>4. Bound'
    BY <1>2, <2>3 DEF Bound
  <2>5. ASSUME NEW x \in Process PROVE Holding(x)'
    BY <1>2, <2>3 DEF Holding, Adapter!AdapterBounds
  <2>6. ASSUME NEW x \in Process PROVE Placed(x)'
    BY <1>2, BindingFields, <2>1, <2>2, <2>3, SMTT(20) DEF Placed, Adapter!Generation
  <2>7. OneWorkspace'
    BY <1>2, <2>3 DEF OneWorkspace
  <2>8. Announced'
    BY <1>2, BindingFields, <2>1, <2>2, <2>3, SMTT(20) DEF Announced, Adapter!Generation
  <2> QED
    BY <1>3, <2>4, <2>5, <2>6, <2>7, <2>8 DEF AdapterInv
<1>25. ASSUME Adapter!WorkspaceReleased PROVE AdapterInv'
  <2>1. attached # 0
    BY <1>25 DEF Adapter!WorkspaceReleased
  <2>2. UNCHANGED <<binding, holder, at, local, calls, workspaces, sandbox, route>>
    BY <1>25 DEF Adapter!WorkspaceReleased, Adapter!api
  <2>3. Bound'
    BY <1>2, <2>2 DEF Bound
  <2>4. ASSUME NEW x \in Process PROVE Holding(x)'
    BY <1>2, <2>2 DEF Holding, Adapter!AdapterBounds
  <2>5. ASSUME NEW x \in Process PROVE Placed(x)'
    BY <1>2, <2>2 DEF Placed, Adapter!Generation
  <2>6. OneWorkspace'
    BY <1>2, <2>2 DEF OneWorkspace
  <2>7. Announced'
    BY <1>2, <2>2 DEF Announced, Adapter!Generation
  <2> QED
    BY <1>3, <2>3, <2>4, <2>5, <2>6, <2>7 DEF AdapterInv
<1>26. CASE UNCHANGED Adapter!adapterVars
  BY <1>2, <1>3, <1>26 DEF Adapter!adapterVars, Adapter!api, AdapterInv, Bound, Holding, Adapter!AdapterBounds,
     Placed, Adapter!Generation, OneWorkspace, Announced
<1> QED
  BY <1>4, <1>5, <1>6, <1>7, <1>8, <1>9, <1>10, <1>11, <1>12, <1>13, <1>14, <1>15, <1>16, <1>17, <1>18, <1>19, <1>20,
     <1>21, <1>22, <1>23, <1>24, <1>25, <1>26 DEF Adapter!Next, Adapter!Step

LEMMA AdapterInvariant == ASSUME Adapter!AdapterBounds PROVE Adapter!Spec => []AdapterInv
<1>1. Adapter!Init => AdapterInv
  <2> SUFFICES ASSUME Adapter!Init PROVE AdapterInv
    OBVIOUS
  <2>1. /\ binding = Adapter!NoRow /\ holder = Nobody
        /\ at = [p \in Process |-> "idle"] /\ local = [p \in Process |-> Adapter!NoRow]
        /\ calls = {} /\ workspaces = 0 /\ attached = 0
        /\ sandbox = [g \in Adapter!Generation |-> "none"] /\ route = [g \in Adapter!Generation |-> Nobody]
    BY DEF Adapter!Init
  <2>2. Adapter!TypeOK
    BY <2>1, BindingRows DEF Adapter!TypeOK, Adapter!Points, Adapter!AdapterBounds
  <2>3. Bound
    BY <2>1 DEF Bound, Adapter!NoRow, Adapter!NewBinding
  <2>4. \A p \in Process : Holding(p) /\ Placed(p)
    BY <2>1 DEF Holding, Placed
  <2>5. OneWorkspace /\ Announced
    BY <2>1 DEF OneWorkspace, Announced
  <2> QED
    BY <2>2, <2>3, <2>4, <2>5 DEF AdapterInv
<1> QED
  BY <1>1, AdapterKept, PTL DEF Adapter!Spec

--------------------------------------------------------------------------------
(* The types of the rows, and the bounds of the counters.                   *)

(* The rows of the component, each in the set TypeOK names for it.          *)
LeaseRow == [status : {"running", "terminated"}, expires : Lease!Time, provider : Lease!Time]
EffectRow == [kind : {"none", "renew", "delete"}, id : 0..MaxEffects,
              at : {"settled", "intent", "dispatched", "acknowledged", "uncertain"}, target : Lease!Time]
NativeRow == [alive : BOOLEAN, deadline : Lease!Time, renewals : SUBSET Lease!Request]
RenewalRow == [at : {"idle", "get", "dispatch", "answer", "finish", "wait", "fail"},
            effect : 0..MaxEffects, seen : Lease!Time]
WatchRow == [at : {"idle", "lease", "apply", "recover"}, version : 0..MaxEffects, alive : BOOLEAN, seen : Lease!Time]

LEMMA LeaseRows ==
    Lease!TypeOK <=> /\ now \in 0..MaxTime /\ lease \in LeaseRow /\ effect \in EffectRow /\ native \in NativeRow
               /\ client \in [Client -> RenewalRow] /\ watch \in WatchRow
               /\ promised \in Lease!Time /\ asked \in Lease!Time /\ undercut \in BOOLEAN
  BY DEF Lease!TypeOK, LeaseRow, EffectRow, NativeRow, RenewalRow, WatchRow

(* Rows that are made anew. *)
LEMMA FreshRows ==
    ASSUME Lease!LeaseBounds
    PROVE  /\ \A n \in 0..MaxEffects : Lease!NoEffect(n) \in EffectRow
           /\ Lease!IdleClient \in RenewalRow /\ Lease!IdleWatch \in WatchRow
           /\ 0..MaxTime \subseteq Lease!Time /\ 0 \in Lease!Time /\ 0 \in 0..MaxEffects
<1>1. 0..MaxTime \subseteq Lease!Time /\ 0 \in Lease!Time /\ 0 \in 0..MaxEffects
  BY DEF Lease!LeaseBounds, Lease!Time
<1>2. \A n \in 0..MaxEffects : Lease!NoEffect(n) \in EffectRow
  BY <1>1, ZenonT(60) DEF Lease!NoEffect, EffectRow, Lease!None
<1>3. Lease!IdleClient \in RenewalRow /\ Lease!IdleWatch \in WatchRow
  BY <1>1, ZenonT(60) DEF Lease!IdleClient, Lease!IdleWatch, RenewalRow, WatchRow, Lease!None
<1> QED
  BY <1>1, <1>2, <1>3

(* Deadlines are compared, never computed, but for a renewal's target.      *)
LEMMA DeadlinesTyped ==
    ASSUME Lease!LeaseBounds, Lease!TypeOK, NEW a \in Lease!Time, NEW b \in Lease!Time
    PROVE  Lease!LeaseMax(a, b) \in Lease!Time /\ Lease!LeaseMin(a, b) \in Lease!Time /\ Lease!effectiveDeadline(a) \in Lease!Time
<1>1. lease.expires \in Lease!Time
  BY LeaseRows DEF LeaseRow
<1> QED
  BY <1>1 DEF Lease!LeaseMax, Lease!LeaseMin, Lease!effectiveDeadline

LEMMA BeginTyped ==
    ASSUME Lease!LeaseBounds, Lease!TypeOK, NEW kind \in {"renew", "delete"}, Lease!Begin(kind)
    PROVE  effect' \in EffectRow /\ effect'.id \in 0..MaxEffects
<1>1. effect.id \in 0..MaxEffects
  BY LeaseRows DEF EffectRow
<1>2. effect.id + 1 \in 0..MaxEffects
  BY <1>1 DEF Lease!Begin, Lease!LeaseBounds
<1>3. effect' \in EffectRow
  BY <1>2, FreshRows, ZenonT(60) DEF Lease!Begin, EffectRow, Lease!None
<1> QED
  BY <1>2, <1>3 DEF Lease!Begin

(* A renewal's own step: what it knows, what it writes. *)
LEMMA RenewalTyped ==
    ASSUME Lease!LeaseBounds, Lease!TypeOK, NEW c \in Client,
           \/ Lease!AdmitRenewal(c) \/ Lease!Coalesce(c) \/ Lease!ReadRuntime(c) \/ Lease!Dispatch(c) \/ Lease!Answer(c)
           \/ Lease!FinishRenewal(c) \/ Lease!FailRenewal(c) \/ Lease!CoalescedAnswer(c) \/ Lease!Crash(c)
    PROVE  Lease!TypeOK'
<1>1. /\ now \in 0..MaxTime /\ lease \in LeaseRow /\ effect \in EffectRow /\ native \in NativeRow
      /\ client \in [Client -> RenewalRow] /\ watch \in WatchRow /\ promised \in Lease!Time /\ asked \in Lease!Time
      /\ client[c] \in RenewalRow /\ undercut \in BOOLEAN
  BY LeaseRows
<1>2. /\ effect.id \in 0..MaxEffects /\ effect.target \in Lease!Time /\ lease.expires \in Lease!Time
      /\ native.deadline \in Lease!Time /\ client[c].seen \in Lease!Time
  BY <1>1 DEF EffectRow, LeaseRow, NativeRow, RenewalRow
<1>3. UNCHANGED <<now, watch, undercut>>
  BY DEF Lease!AdmitRenewal, Lease!Coalesce, Lease!ReadRuntime, Lease!Dispatch, Lease!Answer, Lease!FinishRenewal,
     Lease!FailRenewal, Lease!CoalescedAnswer, Lease!Crash, Lease!history
<1>4. \A step \in {"get", "dispatch", "answer", "finish", "wait", "fail"} :
         /\ [client[c] EXCEPT !.at = step] \in RenewalRow
         /\ [client EXCEPT ![c].at = step] \in [Client -> RenewalRow]
  BY <1>1, ZenonT(60) DEF RenewalRow
<1>5. [client EXCEPT ![c] = Lease!IdleClient] \in [Client -> RenewalRow]
  BY <1>1, FreshRows, ZenonT(60)
<1>6. \A step \in {"dispatched", "acknowledged", "uncertain"} : [effect EXCEPT !.at = step] \in EffectRow
  BY <1>1, ZenonT(60) DEF EffectRow
<1>7. CASE Lease!AdmitRenewal(c)
  <2>1. effect' \in EffectRow /\ effect'.id \in 0..MaxEffects
    BY <1>7, BeginTyped DEF Lease!AdmitRenewal
  <2>2. [at |-> "get", effect |-> effect'.id, seen |-> Lease!None] \in RenewalRow
    BY <2>1, FreshRows, ZenonT(60) DEF RenewalRow, Lease!None
  <2>3. client' \in [Client -> RenewalRow]
    BY <1>1, <1>7, <2>2, ZenonT(60) DEF Lease!AdmitRenewal
  <2> QED
    BY <1>1, <1>3, <1>7, <2>1, <2>3, LeaseRows
       DEF Lease!AdmitRenewal, Lease!history, Lease!TypeOK, EffectRow, RenewalRow, LeaseRow, NativeRow, WatchRow
<1>8. CASE Lease!Coalesce(c)
  <2>2. [at |-> "wait", effect |-> effect.id, seen |-> Lease!None] \in RenewalRow
    BY <1>2, FreshRows, ZenonT(60) DEF RenewalRow, Lease!None
  <2>3. client' \in [Client -> RenewalRow]
    BY <1>1, <1>8, <2>2, ZenonT(60) DEF Lease!Coalesce
  <2> QED
    BY <1>1, <1>3, <1>8, <2>3
       DEF Lease!Coalesce, Lease!history, Lease!TypeOK, EffectRow, RenewalRow, LeaseRow, NativeRow, WatchRow
<1>9. CASE Lease!ReadRuntime(c)
  <2> DEFINE wanted == Lease!LeaseMax(now + Ttl, Lease!effectiveDeadline(native.deadline))
  <2>1. CASE /\ wanted <= MaxTime
             /\ effect' = IF Lease!Owns(c) THEN [effect EXCEPT !.target = wanted] ELSE effect
             /\ client' = [client EXCEPT ![c].at = "dispatch", ![c].seen = wanted]
             /\ asked' = Lease!LeaseMax(asked, wanted)
    <3>1. Lease!effectiveDeadline(native.deadline) \in Lease!Time
      BY <1>2, DeadlinesTyped
    <3>2. wanted \in Lease!Time
      <4>1. wanted \in Nat
        BY <1>1, <3>1 DEF Lease!LeaseMax, Lease!Time, Lease!LeaseBounds
      <4> HIDE DEF wanted
      <4> QED
        BY <2>1, <4>1 DEF Lease!Time, Lease!LeaseBounds
    <3> HIDE DEF wanted
    <3>3. asked' \in Lease!Time
      BY <1>1, <2>1, <3>2, DeadlinesTyped
    <3>4. [effect EXCEPT !.target = wanted] \in EffectRow
      BY <1>1, <3>2, ZenonT(60) DEF EffectRow
    <3>5. effect' \in EffectRow
      BY <1>1, <2>1, <3>4
    <3>6. [client EXCEPT ![c].at = "dispatch", ![c].seen = wanted] \in [Client -> RenewalRow]
      <4>1. [client EXCEPT ![c].at = "dispatch"] \in [Client -> RenewalRow]
        BY <1>4
      <4>2. \A f \in [Client -> RenewalRow] : [f EXCEPT ![c].seen = wanted] \in [Client -> RenewalRow]
        BY <3>2, ZenonT(60) DEF RenewalRow
      <4> QED
        BY <4>1, <4>2, ZenonT(60)
    <3>7. client' \in [Client -> RenewalRow]
      BY <2>1, <3>6
    <3>8. UNCHANGED <<lease, native, promised>>
      BY <1>9 DEF Lease!ReadRuntime
    <3> QED
      BY <1>1, <1>3, <3>3, <3>5, <3>7, <3>8 DEF Lease!TypeOK, EffectRow, RenewalRow, LeaseRow, NativeRow, WatchRow
  <2>2. CASE client' = [client EXCEPT ![c].at = "fail"] /\ UNCHANGED <<effect, asked>>
    <3>1. client' \in [Client -> RenewalRow]
      BY <1>4, <2>2
    <3>2. UNCHANGED <<lease, native, promised, effect, asked>>
      BY <1>9, <2>2 DEF Lease!ReadRuntime
    <3> QED
      BY <1>1, <1>3, <3>1, <3>2 DEF Lease!TypeOK, EffectRow, RenewalRow, LeaseRow, NativeRow, WatchRow
  <2> HIDE DEF wanted
  <2> QED
    BY <1>9, <2>1, <2>2 DEF Lease!ReadRuntime, wanted
<1>10. CASE Lease!Dispatch(c)
  <2>0. Lease!Sent(c) \in Lease!Request
    BY <1>1 DEF Lease!Sent, Lease!Request, RenewalRow
  <2>1. [native EXCEPT !.renewals = @ \cup {Lease!Sent(c)}] \in NativeRow
    <3>1. native.renewals \cup {Lease!Sent(c)} \in SUBSET Lease!Request
      BY <1>1, <2>0 DEF NativeRow
    <3> QED
      BY <1>1, <3>1, ZenonT(60) DEF NativeRow
  <2>2. client' \in [Client -> RenewalRow] /\ effect' \in EffectRow /\ native' \in NativeRow
    BY <1>1, <1>4, <1>6, <1>10, <2>1 DEF Lease!Dispatch
  <2>3. UNCHANGED <<lease, promised, asked>>
    BY <1>10 DEF Lease!Dispatch, Lease!history
  <2> QED
    BY <1>1, <1>3, <2>2, <2>3 DEF Lease!TypeOK, EffectRow, RenewalRow, LeaseRow, NativeRow, WatchRow
<1>11. CASE Lease!Answer(c)
  <2>1. client' \in [Client -> RenewalRow] /\ effect' \in EffectRow
    BY <1>1, <1>4, <1>5, <1>6, <1>11 DEF Lease!Answer
  <2>2. UNCHANGED <<lease, native, promised, asked>>
    BY <1>11 DEF Lease!Answer, Lease!history
  <2> QED
    BY <1>1, <1>3, <2>1, <2>2 DEF Lease!TypeOK, EffectRow, RenewalRow, LeaseRow, NativeRow, WatchRow
<1>12. CASE Lease!FinishRenewal(c)
  <2>1. Lease!NoEffect(effect.id) \in EffectRow
    BY <1>2, FreshRows
  <2>2. Lease!LeaseMax(promised, effect.target) \in Lease!Time
    BY <1>1, <1>2, DeadlinesTyped
  <2>3. [lease EXCEPT !.expires = effect.target, !.provider = effect.target] \in LeaseRow
    BY <1>1, <1>2, ZenonT(60) DEF LeaseRow
  <2>4. client' \in [Client -> RenewalRow] /\ effect' \in EffectRow /\ lease' \in LeaseRow /\ promised' \in Lease!Time
    BY <1>1, <1>5, <1>6, <1>12, <2>1, <2>2, <2>3 DEF Lease!FinishRenewal, Lease!PersistDeadline
  <2>5. UNCHANGED <<native, asked>>
    BY <1>12 DEF Lease!FinishRenewal
  <2> QED
    BY <1>1, <1>3, <2>4, <2>5 DEF Lease!TypeOK, EffectRow, RenewalRow, LeaseRow, NativeRow, WatchRow
<1>13. CASE Lease!FailRenewal(c)
  <2>1. Lease!NoEffect(effect.id) \in EffectRow
    BY <1>2, FreshRows
  <2>2. client' \in [Client -> RenewalRow] /\ effect' \in EffectRow
    BY <1>1, <1>5, <1>13, <2>1 DEF Lease!FailRenewal
  <2>3. UNCHANGED <<lease, native, promised, asked>>
    BY <1>13 DEF Lease!FailRenewal, Lease!history
  <2> QED
    BY <1>1, <1>3, <2>2, <2>3 DEF Lease!TypeOK, EffectRow, RenewalRow, LeaseRow, NativeRow, WatchRow
<1>14. CASE Lease!CoalescedAnswer(c)
  <2>1. Lease!LeaseMax(promised, lease.expires) \in Lease!Time
    BY <1>1, <1>2, DeadlinesTyped
  <2>2. client' \in [Client -> RenewalRow] /\ promised' \in Lease!Time
    BY <1>1, <1>5, <1>14, <2>1 DEF Lease!CoalescedAnswer
  <2>3. UNCHANGED <<lease, native, effect, asked>>
    BY <1>14 DEF Lease!CoalescedAnswer
  <2> QED
    BY <1>1, <1>3, <2>2, <2>3 DEF Lease!TypeOK, EffectRow, RenewalRow, LeaseRow, NativeRow, WatchRow
<1>15. CASE Lease!Crash(c)
  <2>1. client' \in [Client -> RenewalRow]
    BY <1>5, <1>15 DEF Lease!Crash
  <2>2. UNCHANGED <<lease, native, effect, promised, asked>>
    BY <1>15 DEF Lease!Crash, Lease!history
  <2> QED
    BY <1>1, <1>3, <2>1, <2>2 DEF Lease!TypeOK, EffectRow, RenewalRow, LeaseRow, NativeRow, WatchRow
<1> QED
  BY <1>7, <1>8, <1>9, <1>10, <1>11, <1>12, <1>13, <1>14, <1>15

(* The scheduler's, the provider's and time's. *)
LEMMA SchedulerTyped ==
    ASSUME Lease!LeaseBounds, Lease!TypeOK,
           \/ Lease!ReadLease \/ Lease!Look \/ Lease!ApplyLease \/ Lease!CancelUndispatched \/ Lease!ReadRenewal \/ Lease!FinishObservedRenewal
           \/ Lease!WatchFails \/ Lease!DeleteRuntime \/ Lease!NativeExpiry \/ Lease!Tick
           \/ \E r \in native.renewals : Lease!PerformRenewal(r)
    PROVE  Lease!TypeOK'
<1>1. /\ now \in 0..MaxTime /\ lease \in LeaseRow /\ effect \in EffectRow /\ native \in NativeRow
      /\ client \in [Client -> RenewalRow] /\ watch \in WatchRow /\ promised \in Lease!Time /\ asked \in Lease!Time
      /\ undercut \in BOOLEAN
  BY LeaseRows
<1>2. /\ effect.id \in 0..MaxEffects /\ effect.target \in Lease!Time /\ native.deadline \in Lease!Time /\ native.alive \in BOOLEAN
      /\ native.renewals \subseteq Lease!Request /\ watch.seen \in Lease!Time
  BY <1>1 DEF EffectRow, NativeRow, WatchRow
<1>10. \A r \in native.renewals :
          Lease!PerformRenewal(r) => UNCHANGED <<now, lease, effect, client, watch, promised, asked>>
  BY DEF Lease!PerformRenewal
<1>3. UNCHANGED <<client, promised, asked>> /\ undercut' \in BOOLEAN
  <2>1. ASSUME NEW r \in native.renewals, Lease!PerformRenewal(r)
        PROVE  UNCHANGED <<client, promised, asked>> /\ undercut' \in BOOLEAN
    BY <1>1, <2>1, Zenon DEF Lease!PerformRenewal
  <2> QED
    BY <1>1, <2>1
       DEF Lease!ReadLease, Lease!Look, Lease!ApplyLease, Lease!CancelUndispatched, Lease!ReadRenewal, Lease!FinishObservedRenewal,
           Lease!WatchFails, Lease!DeleteRuntime, Lease!NativeExpiry, Lease!Tick, Lease!history
<1>4. now' \in 0..MaxTime
  BY <1>1, <1>10 DEF Lease!ReadLease, Lease!Look, Lease!ApplyLease, Lease!CancelUndispatched, Lease!ReadRenewal,
     Lease!FinishObservedRenewal, Lease!WatchFails,
         Lease!DeleteRuntime, Lease!NativeExpiry, Lease!Tick, Lease!LeaseBounds
<1>5. Lease!NoEffect(effect.id) \in EffectRow /\ Lease!IdleWatch \in WatchRow
  BY <1>2, FreshRows
<1>6. watch' \in WatchRow
  <2>1. [Lease!IdleWatch EXCEPT !.at = "lease", !.version = effect.id] \in WatchRow
    BY <1>2, <1>5, ZenonT(60) DEF WatchRow
  <2>2. [watch EXCEPT !.at = "apply", !.alive = native.alive, !.seen = native.deadline] \in WatchRow
    BY <1>1, <1>2, ZenonT(60) DEF WatchRow
  <2>3. [at |-> "recover", version |-> effect.id, alive |-> native.alive, seen |-> native.deadline] \in WatchRow
    BY <1>2, ZenonT(60) DEF WatchRow
  <2> QED
    BY <1>1, <1>5, <1>10, <2>1, <2>2, <2>3
       DEF Lease!ReadLease, Lease!Look, Lease!ApplyLease, Lease!CancelUndispatched, Lease!ReadRenewal, Lease!FinishObservedRenewal, Lease!WatchFails,
           Lease!DeleteRuntime, Lease!NativeExpiry, Lease!Tick
<1>7. native' \in NativeRow
  <2>1. [native EXCEPT !.alive = FALSE] \in NativeRow
    BY <1>1, ZenonT(60) DEF NativeRow
  <2>2. ASSUME NEW r \in native.renewals, Lease!PerformRenewal(r) PROVE native' \in NativeRow
    <3>1. r.target \in Lease!Time
      BY <1>2 DEF Lease!Request
    <3>2. native' = [native EXCEPT !.renewals = @ \ {r}, !.deadline = r.target]
      BY <2>2 DEF Lease!PerformRenewal
    <3> QED
      BY <1>1, <3>1, <3>2 DEF NativeRow
  <2> QED
    BY <1>1, <2>1, <2>2
       DEF Lease!ReadLease, Lease!Look, Lease!ApplyLease, Lease!CancelUndispatched, Lease!ReadRenewal, Lease!FinishObservedRenewal, Lease!WatchFails,
           Lease!DeleteRuntime, Lease!NativeExpiry, Lease!Tick
<1>8. lease' \in LeaseRow
  <2>1. [lease EXCEPT !.status = "terminated"] \in LeaseRow
    BY <1>1, ZenonT(60) DEF LeaseRow
  <2>2. [lease EXCEPT !.expires = effect.target, !.provider = effect.target] \in LeaseRow
    BY <1>1, <1>2, ZenonT(60) DEF LeaseRow
  <2>3. [lease EXCEPT !.expires = Lease!effectiveDeadline(watch.seen), !.provider = watch.seen] \in LeaseRow
    <3>1. Lease!effectiveDeadline(watch.seen) \in Lease!Time
      BY <1>2, DeadlinesTyped
    <3> QED
      BY <1>1, <1>2, <3>1, ZenonT(60) DEF LeaseRow
  <2> QED
    BY <1>1, <1>10, <2>1, <2>2, <2>3
       DEF Lease!ReadLease, Lease!Look, Lease!ApplyLease, Lease!Apply, Lease!CancelUndispatched, Lease!ReadRenewal, Lease!FinishObservedRenewal, Lease!PersistDeadline,
           Lease!WatchFails, Lease!DeleteRuntime, Lease!NativeExpiry, Lease!Tick
<1>9. effect' \in EffectRow
  <2>1. Lease!Begin("delete") => effect' \in EffectRow
    BY BeginTyped
  <2> QED
    BY <1>1, <1>5, <1>10, <2>1
       DEF Lease!ReadLease, Lease!Look, Lease!ApplyLease, Lease!Apply, Lease!CancelUndispatched, Lease!ReadRenewal, Lease!FinishObservedRenewal,
           Lease!WatchFails, Lease!DeleteRuntime, Lease!NativeExpiry, Lease!Tick
<1> QED
  BY <1>1, <1>3, <1>4, <1>6, <1>7, <1>8, <1>9 DEF Lease!TypeOK, EffectRow, RenewalRow, LeaseRow, NativeRow, WatchRow

LEMMA LeaseTypeInvariant == ASSUME Lease!LeaseBounds, Ttl <= MaxTime + MinLease PROVE Lease!Spec => []Lease!TypeOK
<1>1. Lease!Init => Lease!TypeOK
  <2> SUFFICES ASSUME Lease!Init PROVE Lease!TypeOK
    OBVIOUS
  <2>1. Ttl \in Lease!Time /\ Lease!LeaseMax(Ttl, MinLease) \in Lease!Time
    BY DEF Lease!LeaseBounds, Lease!Time, Lease!LeaseMax
  <2>2. lease \in LeaseRow /\ native \in NativeRow
    BY <2>1, FreshRows, ZenonT(60) DEF Lease!Init, LeaseRow, NativeRow, Lease!None
  <2>3. effect \in EffectRow /\ watch \in WatchRow /\ client \in [Client -> RenewalRow]
    BY FreshRows, ZenonT(60) DEF Lease!Init
  <2>4. now \in 0..MaxTime /\ promised \in Lease!Time /\ asked \in Lease!Time
    BY <2>1 DEF Lease!Init, Lease!LeaseBounds
  <2>5. undercut \in BOOLEAN
    BY Zenon DEF Lease!Init
  <2> QED
    BY <2>2, <2>3, <2>4, <2>5, LeaseRows
<1>2. Lease!TypeOK /\ [Lease!Next]_(Lease!leaseVars) => Lease!TypeOK'
  <2> SUFFICES ASSUME Lease!TypeOK, [Lease!Next]_(Lease!leaseVars) PROVE Lease!TypeOK'
    OBVIOUS
  <2>1. CASE UNCHANGED Lease!leaseVars
    BY <2>1 DEF Lease!leaseVars, Lease!TypeOK
  <2> QED
    BY <2>1, RenewalTyped, SchedulerTyped DEF Lease!Next
<1> QED
  BY <1>1, <1>2, PTL DEF Lease!Spec
================================================================================
