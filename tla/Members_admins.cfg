CONSTANTS
    Admin = {a1, a2}
    Invitee = u1
    Login = {g1}
    MaxInvitations = 1
    MaxMemberships = 2
SPECIFICATION Spec
INVARIANTS
    OrganizationKeepsAnAdmin
CHECK_DEADLOCK FALSE
