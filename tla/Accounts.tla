------------------------------ MODULE Accounts ------------------------------
(***************************************************************************)
(* Accounts: POST /auth/register (src/modules/auth), POST /users           *)
(* (src/modules/users) and the password check of POST /auth/login.  Both   *)
(* creations ask whether the name or the email is taken and then insert;   *)
(* bcrypt runs in between, and other instances insert meanwhile.           *)
(*                                                                         *)
(* An account is named by the request that creates it, and so is its       *)
(* password.  The password whose hash is DUMMY_HASH is one more.           *)
(* Requests are validated: trimmed, emails in lower case.                  *)
(***************************************************************************)
EXTENDS Naturals, FiniteSets

CONSTANTS
    Registers,  \* POST /auth/register
    Creates,    \* POST /users: an account without a password
    Logins,     \* POST /auth/login
    Names, Emails,
    None,       \* no account
    Guard,      \* the password of DUMMY_HASH
    MaxFaults   \* bound: statements that fail, and replies that are lost

Requests == Registers \cup Creates

VARIABLES
    pc,
    name, email,  \* of each request to create an account
    rows,         \* committed rows of users
    login,        \* login[l]: the email presented and whose password it is
    found,        \* found[l]: the account that findByEmail returned
    faults

input == <<name, email, login>>
vars  == <<pc, input, rows, found, faults>>

CreateStage == {"idle", "insert", "created", "lost", "conflict", "failed"}
LoginStage  == {"idle", "compare", "welcome", "denied", "failed"}

TypeOK ==
    /\ pc \in [Requests \cup Logins -> CreateStage \cup LoginStage]
    /\ \A o \in Requests : pc[o] \in CreateStage
    /\ \A l \in Logins : pc[l] \in LoginStage
    /\ name \in [Requests -> Names] /\ email \in [Requests -> Emails]
    /\ login \in [Logins -> Emails \X (Registers \cup {None, Guard})]
    /\ rows \in SUBSET Requests /\ found \in [Logins -> Requests \cup {None}]
    /\ faults \in 0 .. MaxFaults

Init ==
    /\ pc = [o \in Requests \cup Logins |-> "idle"]
    /\ name \in [Requests -> Names] /\ email \in [Requests -> Emails]
    /\ login \in [Logins -> Emails \X (Registers \cup {None, Guard})]
    /\ rows = {} /\ found = [l \in Logins |-> None] /\ faults = 0

Goto(o, s) == pc' = [pc EXCEPT ![o] = s]

Fault == faults < MaxFaults /\ faults' = faults + 1

\* The rows that hold the name or the email of request o.
Holders(o) == {r \in rows : r # o /\ (name[r] = name[o] \/ email[r] = email[o])}

----------------------------------------------------------------------------
\* existsByEmailOrUsername, the same in both modules.
CheckFree(o) ==
    /\ pc[o] = "idle"
    /\ Goto(o, IF Holders(o) # {} THEN "conflict" ELSE "insert")
    /\ UNCHANGED <<input, rows, found, faults>>

\* Mutant: the table has no UNIQUE constraints.
Insert_Unchecked(o) ==
    /\ pc[o] = "insert"
    /\ rows' = rows \cup {o}
    /\ \/ Goto(o, "created") /\ UNCHANGED faults
       \/ Goto(o, "lost") /\ Fault
    /\ UNCHANGED <<input, found>>

\* Mutant: every failed INSERT is reported as a conflict.
RequestFails_AsConflict(o) ==
    /\ pc[o] \in {"idle", "insert"}
    /\ Fault
    /\ Goto(o, "conflict")
    /\ UNCHANGED <<input, rows, found>>

\* createUser and create: the INSERT, whose UNIQUE constraints decide.  Its reply may
\* be lost.
Insert(o) ==
    /\ pc[o] = "insert" /\ Holders(o) = {}
    /\ rows' = rows \cup {o}
    /\ \/ Goto(o, "created") /\ UNCHANGED faults
       \/ Goto(o, "lost") /\ Fault
    /\ UNCHANGED <<input, found>>

\* Error 23505 becomes the same 409 as the check.
Violation(o) ==
    /\ pc[o] = "insert" /\ Holders(o) # {}
    /\ Goto(o, "conflict")
    /\ UNCHANGED <<input, rows, found, faults>>

\* Any other error.
RequestFails(o) ==
    /\ pc[o] \in {"idle", "insert"}
    /\ Fault
    /\ Goto(o, "failed")
    /\ UNCHANGED <<input, rows, found>>

\* findByEmail.
FindByEmail(l) ==
    /\ pc[l] = "idle"
    /\ \/ \E r \in rows : email[r] = login[l][1] /\ found' = [found EXCEPT ![l] = r]
       \/ (\A r \in rows : email[r] # login[l][1]) /\ UNCHANGED found
    /\ Goto(l, "compare")
    /\ UNCHANGED <<input, rows, faults>>

\* The password that opens hash user?.passwordHash ?? DUMMY_HASH: that of the account,
\* or Guard if there is no account or it has no password.
PasswordOf(a) == IF a \in Registers THEN a ELSE Guard

\* Mutant: an unknown email is not refused.
Matches_NoUser(l) == login[l][2] = PasswordOf(found[l])

\* There is an account, and bcrypt.compare finds the hash of the password presented.
Matches(l) == found[l] # None /\ login[l][2] = PasswordOf(found[l])

Compare(l) ==
    /\ pc[l] = "compare"
    /\ Goto(l, IF Matches(l) THEN "welcome" ELSE "denied")
    /\ UNCHANGED <<input, rows, found, faults>>

LoginFails(l) ==
    /\ pc[l] = "idle"
    /\ Fault
    /\ Goto(l, "failed")
    /\ UNCHANGED <<input, rows, found>>

Next ==
    \/ \E o \in Requests : CheckFree(o) \/ Insert(o) \/ Violation(o) \/ RequestFails(o)
    \/ \E l \in Logins : FindByEmail(l) \/ Compare(l) \/ LoginFails(l)

Spec == Init /\ [][Next]_vars

----------------------------------------------------------------------------
\* Properties.

\* However registrations race, a name and an email belong to one account; who is
\* answered 201 has it, and who is answered 409 lost it to an account that exists.
AccountsExclusive ==
    /\ \A r \in rows : Holders(r) = {}
    /\ \A o \in Requests :
        /\ pc[o] \in {"created", "lost"} <=> o \in rows
        /\ pc[o] = "conflict" => Holders(o) # {}

\* A login succeeds only for the account that has the email, and only with the password
\* that was registered with it.  An account of POST /users has none: it is compared with
\* DUMMY_HASH like an unknown email, but is there, so the password of DUMMY_HASH, and
\* no other, logs in to it.
LoginsOwned ==
    \A l \in Logins : pc[l] = "welcome" =>
        \E r \in rows :
            /\ email[r] = login[l][1]
            /\ r \in Registers => login[l][2] = r
            /\ r \in Creates => login[l][2] = Guard
=============================================================================
