---------------------------- MODULE Organisation ----------------------------
(***************************************************************************)
(* Organisations, their managers and the manager invites, as the requests  *)
(* of auth.py, dashboard_router.py and the Playspace management and        *)
(* account deletion services change them (one database per product).       *)
(*                                                                         *)
(* A person is an e-mail address: users.email, manager_profiles.email and  *)
(* accounts.email are unique columns, so each person has at most one row   *)
(* of each table.  A request is a transaction at READ COMMITTED: a first   *)
(* step that selects rows and applies the guards (a request the guards     *)
(* refuse changes nothing and is left out), then a step that writes,       *)
(* against whatever the database holds by then, and commits.  Only the     *)
(* transfer of ownership and the deletion of an account lock what they     *)
(* read, row by row.  A request remembers which rows it loaded: a row that *)
(* another transaction deleted leaves the set, and a new row for the same  *)
(* person is not the one it loaded.                                        *)
(***************************************************************************)
EXTENDS Naturals, FiniteSets

CONSTANTS
    Persons,    \* e-mail addresses of managers and invitees
    Accounts,   \* identities for rows of accounts (bound: one per signup)
    Invites,    \* identities for rows of manager_invites
    OrgRequests,\* bound: how many requests are in progress at a time
    MaxAddresses,\* bound: how many addresses managers enter for organisations
    Slots,      \* secondary managers an organisation may have (YEE)
    Nobody,     \* no such row
    Unlinked    \* a user row whose account_id is null

ASSUME OrganisationAssumption ==
    /\ Nobody \notin Persons \cup Accounts \cup Invites
    /\ Unlinked \notin Accounts \cup {Nobody}
    /\ Slots \in Nat
    /\ MaxAddresses \in Nat

VARIABLES
    product,    \* which product's database this is
    user,       \* user[p]: users.account_id of p's row, Unlinked, or Nobody
    profile,    \* profile[p]: p's row of manager_profiles, or NoProfile
    account,    \* account[a]: accounts.email of a, Nobody while there is no row
    named,      \* <<a, e>>: a's managers once entered e as its address (not stored)
    invite,     \* invite[i]: a row of manager_invites, or NoInvite
    request     \* request[r]: the transaction r has open, or Idle

tables == <<product, user, profile, account, named, invite>>
orgVars == <<tables, request>>

-----------------------------------------------------------------------------
(* Rows and requests *)

NoProfile == [account |-> Nobody, linked |-> FALSE, primary |-> FALSE]
ProfileRows == [account : Accounts, linked : BOOLEAN, primary : BOOLEAN]

NoInvite == [account |-> Nobody, email |-> Nobody, by |-> Nobody,
             accepted |-> FALSE, expired |-> FALSE]
InviteRows == [account : Accounts, email : Persons, by : Persons,
               accepted : BOOLEAN, expired : BOOLEAN]

UserRow(p) == <<"user", p>>
ProfileRow(p) == <<"profile", p>>
InviteRow(i) == <<"invite", i>>
Rows == {"user", "profile"} \X Persons \cup {"invite"} \X Invites

\* op: the operation (and stage, where it locks); by: the actor; about: the
\* person it concerns; acct: the account it read or chose; rows: loaded rows.
Idle == [op |-> "idle", by |-> Nobody, about |-> Nobody, acct |-> Nobody, rows |-> {}]
Ops == {"idle", "found", "spin off", "found again", "rename", "me",
        "approve", "address", "invite", "revoke", "resend", "accept new", "accept known", "remove",
        "transfer user", "transfer own", "transfer both", "delete user", "delete own"}

Request(op, by, about, acct, rows) ==
    [op |-> op, by |-> by, about |-> about, acct |-> acct, rows |-> rows]

OrgTypeOK ==
    /\ product \in {"yee", "playspace"}
    /\ user \in [Persons -> Accounts \cup {Unlinked, Nobody}]
    /\ profile \in [Persons -> ProfileRows \cup {NoProfile}]
    /\ account \in [Accounts -> Persons \cup {Nobody}]
    /\ named \in SUBSET (Accounts \X Persons)
    /\ invite \in [Invites -> InviteRows \cup {NoInvite}]
    /\ request \in [OrgRequests ->
            [op : Ops, by : Persons \cup {Nobody}, about : Persons \cup {Nobody},
             acct : Accounts \cup {Unlinked, Nobody}, rows : SUBSET Rows]]

\* An empty database.
OrgInit ==
    /\ product \in {"yee", "playspace"}
    /\ user = [p \in Persons |-> Nobody]
    /\ profile = [p \in Persons |-> NoProfile]
    /\ account = [a \in Accounts |-> Nobody]
    /\ named = {}
    /\ invite = [i \in Invites |-> NoInvite]
    /\ request = [r \in OrgRequests |-> Idle]

\* SELECT ... FOR UPDATE: a row belongs to the open transaction that locked
\* it, and whoever wants to change it waits.
Locking == {"transfer user", "transfer own", "transfer both", "delete user", "delete own"}
Free(r, row) ==
    \A q \in OrgRequests \ {r} : request[q].op \in Locking => row \notin request[q].rows

Begin(r, x) ==
    /\ request[r] = Idle
    /\ request' = [request EXCEPT ![r] = x]
    /\ UNCHANGED tables

\* The commit of r, which deletes the rows in gone.
Commit(r, gone) ==
    request' = [q \in OrgRequests |->
        IF q = r THEN Idle ELSE [request[q] EXCEPT !.rows = @ \ gone]]

\* A late guard, a constraint, a missing row (StaleDataError) or a lost
\* connection: the transaction is rolled back.
RollBack(r) ==
    /\ request[r] # Idle
    /\ request' = [request EXCEPT ![r] = Idle]
    /\ UNCHANGED tables

-----------------------------------------------------------------------------
(* The manager profile of a user, repaired on every way in *)

HasPrimary(a) == \E p \in Persons : profile[p].account = a /\ profile[p].primary

\* _ensure_manager_profile_for_user answers 409, or the unique e-mail does:
\* the person's row belongs to another organisation.
Elsewhere(prof, a) == prof # NoProfile /\ prof.account # a

\* (Definitions named ..._Bug are mistakes the properties below would notice:
\* here, a profile inserted without its organisation.)
Ensured_Bug(prof, a, preferPrimary) ==
    IF prof = NoProfile
    THEN [account |-> Nobody, linked |-> TRUE, primary |-> preferPrimary /\ ~HasPrimary(a)]
    ELSE [prof EXCEPT !.linked = TRUE]

\* The row it leaves behind otherwise: inserted, linked, or promoted when the
\* organisation has no other primary manager.
Ensured(prof, a, preferPrimary) ==
    IF prof = NoProfile
    THEN [account |-> a, linked |-> TRUE, primary |-> preferPrimary /\ ~HasPrimary(a)]
    ELSE [prof EXCEPT !.linked = TRUE, !.primary = @ \/ (preferPrimary /\ ~HasPrimary(a))]

IsPrimary(p) == profile[p].linked /\ profile[p].primary

\* _require_primary_manager
LeadsAs(p, a) == user[p] = a /\ IsPrimary(p) /\ profile[p].account = a

-----------------------------------------------------------------------------
(* Signing up *)

NewAccount(a) == account[a] = Nobody

\* The account that carries a person's address, if there is one.
AccountOf(p) ==
    IF \E a \in Accounts : account[a] = p THEN CHOOSE a \in Accounts : account[a] = p ELSE Nobody

\* No user has this address.  An organisation that still carries it is joined
\* in Playspace, and stops the signup in YEE.
SignupStart(r, p) ==
    /\ user[p] = Nobody
    /\ product = "yee" => AccountOf(p) = Nobody
    /\ Begin(r, Request("found", p, p, AccountOf(p), {}))

\* YEE: a verified manager asks for an organisation of his own and confirms
\* that this takes him out of his present one.
SignupAgainStart(r, p) ==
    /\ product = "yee" /\ user[p] # Nobody
    /\ \/ /\ user[p] = Unlinked
          /\ Begin(r, Request("found again", p, p, Nobody, {}))
       \/ /\ user[p] # Unlinked
          /\ profile[p] # NoProfile /\ profile[p].linked /\ ~profile[p].primary
          /\ Begin(r, Request("spin off", p, p, profile[p].account,
                    {ProfileRow(p)} \cup
                    {InviteRow(i) : i \in {j \in Invites : /\ invite[j].email = p
                                                          /\ invite[j].account = profile[p].account}}))
       \/ /\ user[p] # Unlinked /\ ~profile[p].linked
          /\ account[user[p]] # p
          /\ Begin(r, Request("rename", p, p, user[p], {}))

\* The organisation a signup leads to.  The insert fails on its unique
\* address when another account has it by now.
Founded(a, p) == NewAccount(a) /\ AccountOf(p) = Nobody
SignupHome(a, p, found) == IF found = Nobody THEN Founded(a, p) ELSE a = found

\* Somebody else's signup with the address may have been faster.
SignupFound(r, p, a) ==
    /\ SignupHome(a, p, request[r].acct)
    /\ user[p] = Nobody
    /\ ~Elsewhere(profile[p], a)
    /\ account' = [account EXCEPT ![a] = p]
    /\ user' = [user EXCEPT ![p] = a]
    /\ profile' = [profile EXCEPT ![p] = Ensured(profile[p], a, TRUE)]
    /\ Commit(r, {})
    /\ UNCHANGED <<product, named, invite>>

\* The invites and the profile it loaded go; whatever stands in their place
\* stays.  The account column of the user is overwritten either way.
SignupSpinOff(r, p, a) ==
    LET gone == request[r].rows
        left == IF ProfileRow(p) \in gone THEN NoProfile ELSE profile[p] IN
    /\ Founded(a, p)
    /\ ~Elsewhere(left, a)
    /\ account' = [account EXCEPT ![a] = p]
    /\ user' = [user EXCEPT ![p] = a]
    /\ profile' = [profile EXCEPT ![p] = Ensured(left, a, TRUE)]
    /\ invite' = [i \in Invites |-> IF InviteRow(i) \in gone THEN NoInvite ELSE invite[i]]
    /\ Commit(r, gone)
    /\ UNCHANGED <<product, named>>

SignupFoundAgain(r, p, a) ==
    /\ Founded(a, p)
    /\ ~Elsewhere(profile[p], a)
    /\ account' = [account EXCEPT ![a] = p]
    /\ user' = [user EXCEPT ![p] = a]
    /\ profile' = [profile EXCEPT ![p] = Ensured(profile[p], a, TRUE)]
    /\ Commit(r, {})
    /\ UNCHANGED <<product, named, invite>>

\* A member without a profile keeps his organisation, which only changes its
\* name, and gets a profile in it; so does one who signs in.
RepairProfile(r, p, a) ==
    /\ ~Elsewhere(profile[p], a)
    /\ Free(r, ProfileRow(p))
    /\ profile' = [profile EXCEPT ![p] = Ensured(profile[p], a, TRUE)]
    /\ Commit(r, {})
    /\ UNCHANGED <<product, user, account, named, invite>>

Signup(r) ==
    LET x == request[r] IN
    \/ \E a \in Accounts :
        \/ x.op = "found" /\ SignupFound(r, x.by, a)
        \/ x.op = "found again" /\ SignupFoundAgain(r, x.by, a)
        \/ x.op = "spin off" /\ SignupSpinOff(r, x.by, a)
    \* Its second look at the profile: a linked one would be a spin-off.
    \/ x.op = "rename" /\ ~profile[x.by].linked /\ RepairProfile(r, x.by, x.acct)

-----------------------------------------------------------------------------
(* Sessions, and the administrator's approval *)

\* login and GET /me load the user, and repair the profile later on.
MeStart(r, p) ==
    /\ user[p] \in Accounts
    /\ Begin(r, Request("me", p, p, user[p], {UserRow(p)}))

Me(r) ==
    LET x == request[r] IN
    /\ x.op = "me"
    /\ UserRow(x.by) \in x.rows
    /\ RepairProfile(r, x.by, x.acct)

\* users/approve puts a manager into the organisation the administrator names.
ApproveStart(r, p, a) ==
    /\ product = "yee" /\ user[p] # Nobody /\ account[a] # Nobody
    /\ Begin(r, Request("approve", Nobody, p, a, {UserRow(p)}))

Approve(r) ==
    LET x == request[r] IN
    /\ x.op = "approve"
    /\ ~Elsewhere(profile[x.about], x.acct)
    /\ user' = [user EXCEPT ![x.about] = x.acct]
    /\ profile' = [profile EXCEPT ![x.about] = Ensured(profile[x.about], x.acct, TRUE)]
    /\ Commit(r, {})
    /\ UNCHANGED <<product, account, named, invite>>

\* Playspace: a manager edits the address of his organisation, to any that no
\* other organisation has.
AddressStart(r, m, e) ==
    /\ product = "playspace" /\ user[m] \in Accounts
    /\ Cardinality(named) < MaxAddresses
    /\ \A a \in Accounts : account[a] # e
    /\ Begin(r, Request("address", m, e, user[m], {}))

Address(r) ==
    LET x == request[r] IN
    /\ x.op = "address"
    /\ \A a \in Accounts \ {x.acct} : account[a] # x.about
    /\ account' = [account EXCEPT ![x.acct] = x.about]
    /\ named' = named \cup {<<x.acct, x.about>>}
    /\ Commit(r, {})
    /\ UNCHANGED <<product, user, profile, invite>>

-----------------------------------------------------------------------------
(* Manager invites *)

Secondaries(a) == {p \in Persons : profile[p].account = a /\ ~profile[p].primary}

Pending(i, a, e) == /\ invite[i].account = a /\ invite[i].email = e
                    /\ ~invite[i].accepted /\ ~invite[i].expired

\* Only an address without a user is invited, by a primary manager, once at a
\* time; YEE keeps a placeholder profile for it, which takes a slot.
InviteStart(r, m, e) ==
    LET a == user[m] IN
    /\ LeadsAs(m, a)
    /\ user[e] = Nobody
    /\ profile[e] = NoProfile \/ (profile[e].account = a /\ ~profile[e].linked)
    /\ product = "yee" /\ profile[e] = NoProfile => Cardinality(Secondaries(a)) < Slots
    /\ \A i \in Invites : ~Pending(i, a, e)
    /\ Begin(r, Request("invite", m, e, a,
                {UserRow(m)} \cup IF profile[e] = NoProfile THEN {} ELSE {ProfileRow(e)}))

\* The invite refers to its sender's row, and the placeholder's address may
\* have been taken since.
Invite(r, i) ==
    LET x == request[r]
        placeholder == [account |-> x.acct, linked |-> FALSE, primary |-> FALSE] IN
    /\ x.op = "invite" /\ invite[i] = NoInvite
    /\ UserRow(x.by) \in x.rows /\ Free(r, UserRow(x.by))
    /\ \/ product = "playspace" /\ UNCHANGED profile
       \/ /\ product = "yee" /\ ProfileRow(x.about) \notin x.rows
          /\ profile[x.about] = NoProfile
          /\ profile' = [profile EXCEPT ![x.about] = placeholder]
       \/ /\ product = "yee" /\ ProfileRow(x.about) \in x.rows
          /\ UNCHANGED profile
    /\ invite' = [invite EXCEPT ![i] = [account |-> x.acct, email |-> x.about, by |-> x.by,
                                        accepted |-> FALSE, expired |-> FALSE]]
    /\ Commit(r, {})
    /\ UNCHANGED <<product, user, account, named>>

\* revoke_manager_invite and resend_manager_invite look at a pending invite.
RevokeStart(r, m, i) ==
    LET e == invite[i].email
        a == invite[i].account IN
    /\ invite[i] # NoInvite /\ ~invite[i].accepted
    /\ LeadsAs(m, a)
    /\ Begin(r, Request("revoke", m, e, a,
                {InviteRow(i)} \cup
                IF product = "yee" /\ profile[e].account = a
                     /\ ~profile[e].linked /\ ~profile[e].primary
                THEN {ProfileRow(e)} ELSE {}))

\* What it loaded is deleted, whatever has become of it meanwhile.
Revoke(r) ==
    LET gone == request[r].rows IN
    /\ request[r].op = "revoke"
    /\ invite' = [i \in Invites |-> IF InviteRow(i) \in gone THEN NoInvite ELSE invite[i]]
    /\ profile' = [p \in Persons |-> IF ProfileRow(p) \in gone THEN NoProfile ELSE profile[p]]
    /\ Commit(r, gone)
    /\ UNCHANGED <<product, user, account, named>>

ResendStart(r, m, i) ==
    /\ invite[i] # NoInvite /\ ~invite[i].accepted
    /\ LeadsAs(m, invite[i].account)
    /\ Begin(r, Request("resend", m, invite[i].email, invite[i].account, {InviteRow(i)}))

\* A new token and seven more days; the update must find the row.
Resend(r, i) ==
    /\ request[r].op = "resend" /\ InviteRow(i) \in request[r].rows
    /\ invite' = [invite EXCEPT ![i].expired = FALSE]
    /\ Commit(r, {})
    /\ UNCHANGED <<product, user, profile, account, named>>

\* The seven days of an invite run out.
Expire(i) ==
    /\ invite[i] # NoInvite /\ ~invite[i].expired
    /\ invite' = [invite EXCEPT ![i].expired = TRUE]
    /\ UNCHANGED <<product, user, profile, account, named, request>>

\* The bearer of a valid token: a new user, or one who lost his organisation.
AcceptStart(r, i) ==
    LET e == invite[i].email IN
    /\ invite[i] # NoInvite /\ ~invite[i].accepted /\ ~invite[i].expired
    /\ \/ /\ user[e] = Nobody
          /\ Begin(r, Request("accept new", e, e, invite[i].account, {InviteRow(i)}))
       \/ /\ user[e] = Unlinked
          /\ Begin(r, Request("accept known", e, e, invite[i].account,
                    {InviteRow(i), UserRow(e)}))

\* The user is inserted or moved, his profile repaired, and the invite is
\* stamped: an update that fails when the invite has been deleted.
Accept(r, i) ==
    LET x == request[r]
        e == x.by IN
    /\ InviteRow(i) \in x.rows
    /\ \/ x.op = "accept new" /\ user[e] = Nobody
       \/ x.op = "accept known"
    /\ ~Elsewhere(profile[e], x.acct)
    /\ user' = [user EXCEPT ![e] = x.acct]
    /\ profile' = [profile EXCEPT ![e] = Ensured(profile[e], x.acct, FALSE)]
    /\ invite' = [invite EXCEPT ![i].accepted = TRUE]
    /\ Commit(r, {})
    /\ UNCHANGED <<product, account, named>>

-----------------------------------------------------------------------------
(* Leaving *)

\* YEE: the primary manager removes a secondary one, or a placeholder, with
\* the invites for the address.
RemoveStart(r, m, p) ==
    LET a == profile[p].account IN
    /\ product = "yee" /\ profile[p] # NoProfile /\ ~profile[p].primary
    /\ LeadsAs(m, a)
    /\ Begin(r, Request("remove", m, p, a,
                {ProfileRow(p)}
                  \cup (IF profile[p].linked THEN {UserRow(p)} ELSE {})
                  \cup {InviteRow(i) : i \in {j \in Invites : /\ invite[j].account = a
                                                            /\ invite[j].email = p}}))

RemoveManager(r) ==
    LET x == request[r]
        gone == x.rows \ {UserRow(x.about)} IN
    /\ x.op = "remove"
    /\ invite' = [i \in Invites |-> IF InviteRow(i) \in gone THEN NoInvite ELSE invite[i]]
    /\ profile' = [p \in Persons |-> IF ProfileRow(p) \in gone THEN NoProfile ELSE profile[p]]
    /\ user' = IF UserRow(x.about) \in x.rows
               THEN [user EXCEPT ![x.about] = Unlinked] ELSE user
    /\ Commit(r, gone)
    /\ UNCHANGED <<product, account, named>>

\* Playspace: the primary manager hands over, locking his user row, his
\* profile and the successor's profile in this order.
TransferStart(r, m, s) ==
    /\ product = "playspace" /\ user[m] # Nobody /\ Free(r, UserRow(m))
    /\ Begin(r, Request("transfer user", m, s, Nobody, {UserRow(m)}))

\* (A mistake: ownership is checked only at the end.)
TransferOwn_Bug(r) ==
    LET x == request[r] IN
    /\ x.op = "transfer user" /\ Free(r, ProfileRow(x.by))
    /\ request' = [request EXCEPT ![r] = Request("transfer own", x.by, x.about,
                        profile[x.by].account, x.rows \cup {ProfileRow(x.by)})]
    /\ UNCHANGED tables

TransferOwn(r) ==
    LET x == request[r] IN
    /\ x.op = "transfer user" /\ Free(r, ProfileRow(x.by))
    /\ IsPrimary(x.by)
    /\ request' = [request EXCEPT ![r] = Request("transfer own", x.by, x.about,
                        profile[x.by].account, x.rows \cup {ProfileRow(x.by)})]
    /\ UNCHANGED tables

\* (A mistake: the successor is read without FOR UPDATE.)
TransferBoth_Bug(r) ==
    LET x == request[r] IN
    /\ x.op = "transfer own"
    /\ x.about # x.by
    /\ profile[x.about].linked /\ profile[x.about].account = x.acct
    /\ request' = [request EXCEPT ![r].op = "transfer both"]
    /\ UNCHANGED tables

TransferBoth(r) ==
    LET x == request[r] IN
    /\ x.op = "transfer own" /\ Free(r, ProfileRow(x.about))
    /\ x.about # x.by
    /\ profile[x.about].linked /\ profile[x.about].account = x.acct
    /\ request' = [request EXCEPT ![r] = Request("transfer both", x.by, x.about, x.acct,
                        x.rows \cup {ProfileRow(x.about)})]
    /\ UNCHANGED tables

\* (A mistake: the organisation keeps the address of its former owner.)
Transfer_Bug(r) ==
    LET x == request[r] IN
    /\ x.op = "transfer both"
    /\ profile' = [profile EXCEPT ![x.by].primary = FALSE, ![x.about].primary = TRUE]
    /\ Commit(r, {})
    /\ UNCHANGED <<product, user, account, named, invite>>

\* The account takes the successor's address, unless another one has it.
Transfer(r) ==
    LET x == request[r] IN
    /\ x.op = "transfer both"
    /\ \A a \in Accounts \ {x.acct} : account[a] # x.about
    /\ profile' = [profile EXCEPT ![x.by].primary = FALSE, ![x.about].primary = TRUE]
    /\ account' = [account EXCEPT ![x.acct] = x.about]
    /\ Commit(r, {})
    /\ UNCHANGED <<product, user, named, invite>>

\* Playspace: a manager deletes his own account.
DeleteStart(r, m) ==
    /\ product = "playspace" /\ user[m] # Nobody /\ Free(r, UserRow(m))
    /\ Begin(r, Request("delete user", m, m, Nobody, {UserRow(m)}))

DeleteOwn(r) ==
    LET x == request[r] IN
    /\ x.op = "delete user" /\ Free(r, ProfileRow(x.by))
    /\ profile[x.by].linked /\ ~profile[x.by].primary
    /\ request' = [request EXCEPT ![r] = Request("delete own", x.by, x.by,
                        profile[x.by].account, x.rows \cup {ProfileRow(x.by)})]
    /\ UNCHANGED tables

\* (A mistake: the user row stays.)
Delete_Bug(r) ==
    LET p == request[r].by IN
    /\ request[r].op = "delete own"
    /\ profile' = [profile EXCEPT ![p] = NoProfile]
    /\ Commit(r, {ProfileRow(p)})
    /\ UNCHANGED <<product, user, account, named, invite>>

\* His invites, sent or received, go with him.
Delete(r) ==
    LET x == request[r]
        p == x.by
        gone == {i \in Invites : invite[i].by = p \/ invite[i].email = p} IN
    /\ x.op = "delete own"
    /\ invite' = [i \in Invites |-> IF i \in gone THEN NoInvite ELSE invite[i]]
    /\ profile' = [profile EXCEPT ![p] = NoProfile]
    /\ user' = [user EXCEPT ![p] = Nobody]
    /\ Commit(r, {UserRow(p), ProfileRow(p)} \cup {InviteRow(i) : i \in gone})
    /\ UNCHANGED <<product, account, named>>

-----------------------------------------------------------------------------
(* The whole *)

OrgStart(r) ==
    \/ \E p \in Persons :
        \/ SignupStart(r, p)
        \/ SignupAgainStart(r, p)
        \/ MeStart(r, p)
        \/ DeleteStart(r, p)
        \/ \E a \in Accounts : ApproveStart(r, p, a)
        \/ \E m \in Persons : InviteStart(r, m, p) \/ RemoveStart(r, m, p)
                             \/ TransferStart(r, m, p) \/ AddressStart(r, m, p)
        \/ \E i \in Invites : RevokeStart(r, p, i) \/ ResendStart(r, p, i)
    \/ \E i \in Invites : AcceptStart(r, i)

OrgStep(r) ==
    \/ Signup(r) \/ Me(r) \/ Approve(r) \/ Address(r) \/ Revoke(r) \/ RemoveManager(r)
    \/ \E i \in Invites : Invite(r, i) \/ Resend(r, i) \/ Accept(r, i)
    \/ TransferOwn(r) \/ TransferBoth(r) \/ Transfer(r)
    \/ DeleteOwn(r) \/ Delete(r)

OrgNext ==
    \/ \E r \in OrgRequests : OrgStart(r) \/ OrgStep(r) \/ RollBack(r)
    \/ \E i \in Invites : Expire(i)

OrgSpec == OrgInit /\ [][OrgNext]_orgVars

-----------------------------------------------------------------------------
(* Properties *)

\* Every organisation keeps exactly one accountable owner
\* (transfer_primary_manager), whatever transfers, deletions, removals and
\* repairs race: one linked primary profile and, in Playspace, a member's.
OneAccountableOwner ==
    \A a \in Accounts : account[a] # Nobody =>
        \E p \in Persons :
            /\ profile[p].account = a /\ IsPrimary(p)
            /\ product = "playspace" => user[p] = a
            /\ \A q \in Persons \ {p} : profile[q].account = a => ~profile[q].primary

\* A Playspace manager's profile, which carries his rights, is always in the
\* organisation his user row names.
MembersHaveTheirProfile ==
    product = "playspace" =>
        \A p \in Persons :
            /\ user[p] \in Accounts => profile[p].linked /\ profile[p].account = user[p]
            /\ user[p] \notin Accounts => profile[p] = NoProfile

\* Nobody enters an organisation that exists but by an invite of it to his
\* address, not revoked by then, by the administrator, or by a signup with
\* the address its managers entered as its own: above all not by signing up
\* with an address that it carries from its signup or a transfer.
EntryByInvitation ==
    [][\A p \in Persons :
            user'[p] \in Accounts /\ user'[p] # user[p] /\ account[user'[p]] # Nobody =>
                \/ \E i \in Invites : invite[i].email = p /\ invite[i].account = user'[p]
                \/ \E r \in OrgRequests : request[r].op = "approve" /\ request[r].about = p
                \/ <<user'[p], p>> \in named]_orgVars

\* The row r waits for in its next step.
Wants(r) ==
    LET x == request[r] IN
    IF x.op \in {"transfer user", "delete user", "me", "rename"} THEN {ProfileRow(x.by)}
    ELSE IF x.op = "transfer own" THEN {ProfileRow(x.about)}
    ELSE IF x.op = "invite" THEN {UserRow(x.by)}
    ELSE {}

WaitsFor(r, q) == request[q].op \in Locking /\ Wants(r) \cap request[q].rows # {}

\* A transfer to somebody of another organisation locks his profile before
\* it answers 404.
Abroad(r) == /\ request[r].op = "transfer own"
             /\ profile[request[r].about].account # request[r].acct

\* Transfers inside an organisation and deletions never wait for each other
\* in a circle: in any set of them, one waits for no other.  (Two owners who
\* name each other as successors across organisations do: the database ends
\* one of the two.)
NoCircularWait ==
    \A S \in SUBSET {r \in OrgRequests : ~Abroad(r)} :
        S = {} \/ \E r \in S : \A q \in S \ {r} : ~WaitsFor(r, q)
=============================================================================
