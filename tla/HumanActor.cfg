SPECIFICATION Spec
CONSTANTS
    Subjects = {s1, s2}
    Names = {n1, n2}
    Roles = {admin, viewer}
    Admin = admin
    Requests = {r1, r2, r3}
SYMMETRY Symmetry
INVARIANTS
    IdentitiesAndActorsPair
    OneActorPerSubject
    FailuresAreGenuine
    RoleChangesTakeEffect
