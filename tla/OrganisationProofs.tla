-------------------------- MODULE OrganisationProofs --------------------------
(***************************************************************************)
(* What holds of organisations and their managers for any number of        *)
(* persons, organisations, invites and overlapping requests.               *)
(*                                                                         *)
(* The invariant OrgInv adds to the properties what an open request rests  *)
(* on (Sound: where it leads, what it has loaded, what it has locked),     *)
(* that locks are exclusive, and where an organisation's address comes     *)
(* from.  Most steps are Quiet: they found and hand over nothing, and the  *)
(* parts of the invariant follow from what Quiet says of each table.  The  *)
(* two other kinds, Founding and HandingOver, have lemmas of their own.    *)
(***************************************************************************)
EXTENDS Organisation, TLAPS

-----------------------------------------------------------------------------
(* Rows *)

\* The names of rows are different for different rows.
LEMMA RowNames ==
  /\ \A p, q : UserRow(p) = UserRow(q) <=> p = q
  /\ \A p, q : ProfileRow(p) = ProfileRow(q) <=> p = q
  /\ \A p, q : InviteRow(p) = InviteRow(q) <=> p = q
  /\ \A p, q : UserRow(p) # ProfileRow(q) /\ UserRow(p) # InviteRow(q) /\ ProfileRow(p) # InviteRow(q)
  /\ \A p \in Persons : UserRow(p) \in Rows /\ ProfileRow(p) \in Rows
  /\ \A i \in Invites : InviteRow(i) \in Rows
BY DEF UserRow, ProfileRow, InviteRow, Rows

\* A row is not the mark for its absence.
LEMMA MembersAreRows ==
  /\ Nobody \notin Accounts /\ Unlinked \notin Accounts /\ Nobody \notin Persons /\ Unlinked # Nobody
  /\ \A x \in ProfileRows : x # NoProfile /\ x.account \in Accounts /\ x.account # Nobody
                            /\ x.linked \in BOOLEAN /\ x.primary \in BOOLEAN
  /\ \A x \in InviteRows : x # NoInvite /\ x.account \in Accounts /\ x.email \in Persons
  /\ NoProfile.account = Nobody /\ ~NoProfile.primary /\ ~NoProfile.linked
  /\ NoInvite.account = Nobody /\ NoInvite.email = Nobody
BY OrganisationAssumption DEF ProfileRows, NoProfile, InviteRows, NoInvite

\* The profile of a way in: the one that is there, linked, or a new one; it
\* is the primary manager's if it was or if the organisation lacks one.
LEMMA EnsuredRow ==
  ASSUME NEW prof \in ProfileRows \cup {NoProfile}, NEW a \in Accounts, NEW prefer \in BOOLEAN,
         ~Elsewhere(prof, a)
  PROVE  /\ Ensured(prof, a, prefer) \in ProfileRows
         /\ Ensured(prof, a, prefer).account = a
         /\ Ensured(prof, a, prefer).linked
         /\ prefer /\ ~HasPrimary(a) => Ensured(prof, a, prefer).primary
         /\ HasPrimary(a) \/ ~prefer => (Ensured(prof, a, prefer).primary <=> prof.primary)
<1> DEFINE prime == prefer /\ ~HasPrimary(a)
<1>1. prime \in BOOLEAN
  BY DEF HasPrimary
<1>2. CASE prof = NoProfile
  <2>1. Ensured(prof, a, prefer) = [account |-> a, linked |-> TRUE, primary |-> prime]
    BY <1>2 DEF Ensured
  <2> HIDE DEF prime
  <2>2. Ensured(prof, a, prefer) \in ProfileRows /\ Ensured(prof, a, prefer).account = a
        /\ Ensured(prof, a, prefer).linked /\ Ensured(prof, a, prefer).primary = prime
    BY <1>1, <2>1 DEF ProfileRows
  <2>3. QED
    BY <1>2, <2>2, MembersAreRows DEF prime
<1>3. CASE prof # NoProfile
  <2>1. prof \in ProfileRows /\ prof.account = a
    BY <1>3 DEF Elsewhere
  <2>2. PICK b \in BOOLEAN : b = (prof.primary \/ prime)
    BY <1>1, <2>1 DEF ProfileRows
  <2>3. Ensured(prof, a, prefer) = [prof EXCEPT !.linked = TRUE, !.primary = b]
    BY <1>3, <2>2 DEF Ensured
  <2> HIDE DEF prime
  <2>4. /\ [prof EXCEPT !.linked = TRUE, !.primary = b] \in ProfileRows
        /\ [prof EXCEPT !.linked = TRUE, !.primary = b].account = prof.account
        /\ [prof EXCEPT !.linked = TRUE, !.primary = b].linked
        /\ [prof EXCEPT !.linked = TRUE, !.primary = b].primary = b
    BY <2>1 DEF ProfileRows
  <2>5. QED
    BY <2>1, <2>2, <2>3, <2>4 DEF prime
<1>4. QED
  BY <1>2, <1>3

-----------------------------------------------------------------------------
(* The invariant *)

\* Who a request is of and about, and what each product's requests can be.
Actors(x) ==
  /\ x.op \notin {"idle", "approve"} => x.by \in Persons
  /\ x.op # "idle" => x.about \in Persons
  /\ product = "playspace" =>
        x.op \notin {"found again", "spin off", "rename", "approve", "accept known", "remove"}
  /\ product = "yee" => x.op \notin Locking

\* The organisation that a request leads to exists; a sign-up joins one only
\* by an address that its managers entered.
Destined(x) ==
  /\ x.op \in {"me", "rename", "approve", "address", "invite", "accept new", "accept known"} =>
        x.acct \in Accounts /\ account[x.acct] # Nobody
  /\ x.op = "found" /\ x.acct # Nobody =>
        /\ product = "playspace" /\ x.acct \in Accounts /\ account[x.acct] # Nobody
        /\ <<x.acct, x.by>> \in named

\* The rows that a request has loaded are what it found, as far as that matters.
Loaded(x) ==
  /\ \A p \in Persons : ProfileRow(p) \in x.rows => profile[p] # NoProfile
  /\ x.op \in {"spin off", "revoke", "remove"} =>
        \A p \in Persons : ProfileRow(p) \in x.rows => product = "yee" /\ ~profile[p].primary
  /\ x.op = "revoke" => \A p \in Persons : UserRow(p) \notin x.rows
  /\ x.op = "me" /\ product = "playspace" /\ UserRow(x.by) \in x.rows => user[x.by] = x.acct
  /\ x.op \in {"accept new", "accept known"} =>
        \A i \in Invites : InviteRow(i) \in x.rows =>
            invite[i].email = x.by /\ invite[i].account = x.acct

\* The rows that a transfer or a deletion has locked, and what it found there.
Held(x) ==
  /\ x.op \in {"transfer user", "delete user"} => x.rows = {UserRow(x.by)}
  /\ x.op \in {"transfer own", "delete own"} => x.rows = {UserRow(x.by), ProfileRow(x.by)}
  /\ x.op = "transfer both" => x.rows = {UserRow(x.by), ProfileRow(x.by), ProfileRow(x.about)}
  /\ x.op \in {"transfer own", "transfer both"} => IsPrimary(x.by) /\ profile[x.by].account = x.acct
  /\ x.op = "transfer both" =>
        x.about # x.by /\ profile[x.about].linked /\ profile[x.about].account = x.acct
  /\ x.op = "delete own" => profile[x.by].linked /\ ~profile[x.by].primary

Sound(x) == Actors(x) /\ Destined(x) /\ Loaded(x) /\ Held(x)

RequestsSound == \A r \in OrgRequests : Sound(request[r])

\* No row is locked twice.
LocksApart ==
  \A r \in OrgRequests : request[r].op \in Locking => \A row \in request[r].rows : Free(r, row)

\* Users, profiles and invites are of organisations that exist.
OfExisting ==
  /\ \A p \in Persons : user[p] \in Accounts => account[user[p]] # Nobody
  /\ \A p \in Persons : profile[p] # NoProfile => account[profile[p].account] # Nobody
  /\ \A i \in Invites : invite[i] # NoInvite => account[invite[i].account] # Nobody

\* A Playspace organisation carries the address of its owner, or one that its
\* managers entered.
Addresses ==
  product = "playspace" =>
    /\ \A p \in Persons : user[p] # Unlinked
    /\ \A a \in Accounts : account[a] # Nobody =>
          \/ <<a, account[a]>> \in named
          \/ LeadsAs(account[a], a)

OrgInv ==
  /\ OrgTypeOK /\ RequestsSound /\ LocksApart
  /\ OfExisting /\ Addresses
  /\ OneAccountableOwner /\ MembersHaveTheirProfile

\* An organisation has a primary manager.
LEMMA OwnersArePrimary ==
  ASSUME OneAccountableOwner
  PROVE  \A a \in Accounts : account[a] # Nobody => HasPrimary(a)
BY DEF OneAccountableOwner, HasPrimary, IsPrimary

-----------------------------------------------------------------------------
(* What a step that founds and hands over nothing does to each table when it *)
(* commits and deletes the rows `gone`.                                      *)

ProfileMoves(p, gone) ==
  \/ profile'[p] = profile[p]
  \/ /\ profile[p] # NoProfile
     /\ profile'[p] \in ProfileRows /\ profile'[p].account = profile[p].account
     /\ profile'[p].linked
     /\ profile'[p].primary <=> profile[p].primary
  \/ /\ profile[p] = NoProfile
     /\ profile'[p] \in ProfileRows /\ ~profile'[p].primary
     /\ account[profile'[p].account] # Nobody
     /\ product = "playspace" => profile'[p].linked /\ user'[p] = profile'[p].account
  \/ /\ profile'[p] = NoProfile /\ ProfileRow(p) \in gone
     /\ ~profile[p].primary
     /\ product = "playspace" => user'[p] = Nobody

UserMoves(p, gone) ==
  \/ user'[p] = user[p]
  \/ /\ product = "yee" /\ user'[p] \in Accounts \cup {Unlinked}
     /\ user'[p] \in Accounts => account[user'[p]] # Nobody
  \/ /\ product = "playspace" /\ user[p] = Nobody
     /\ user'[p] \in Accounts /\ account[user'[p]] # Nobody
     /\ profile'[p] \in ProfileRows /\ profile'[p].account = user'[p] /\ profile'[p].linked
  \/ /\ product = "playspace" /\ UserRow(p) \in gone
     /\ user'[p] = Nobody /\ profile'[p] = NoProfile /\ ~profile[p].primary

AccountMoves(a) ==
  \/ account'[a] = account[a]
  \/ account[a] # Nobody /\ account'[a] \in Persons /\ <<a, account'[a]>> \in named'

InviteMoves(i, gone) ==
  \/ invite'[i] = invite[i]
  \/ invite'[i] = NoInvite /\ InviteRow(i) \in gone
  \/ /\ invite'[i] \in InviteRows /\ account[invite'[i].account] # Nobody
     /\ invite[i] # NoInvite =>
          invite'[i].email = invite[i].email /\ invite'[i].account = invite[i].account

\* A table is a function throughout.
Tabled ==
  /\ user' = [p \in Persons |-> user'[p]]
  /\ profile' = [p \in Persons |-> profile'[p]]
  /\ account' = [a \in Accounts |-> account'[a]]
  /\ invite' = [i \in Invites |-> invite'[i]]

Quiet(gone) ==
  /\ product' = product
  /\ Tabled
  /\ named \subseteq named' /\ named' \subseteq Accounts \X Persons
  /\ \A p \in Persons : ProfileMoves(p, gone) /\ UserMoves(p, gone)
  /\ \A a \in Accounts : AccountMoves(a)
  /\ \A i \in Invites : InviteMoves(i, gone)

\* Rows that somebody else has locked stay.
Respects(r, gone) ==
  \A p \in Persons :
     /\ profile'[p] # profile[p] /\ profile[p] # NoProfile => product = "yee" \/ Free(r, ProfileRow(p))
     /\ ProfileRow(p) \in gone => product = "yee" \/ Free(r, ProfileRow(p))
     /\ UserRow(p) \in gone => product = "yee" \/ Free(r, UserRow(p))

TablesTyped ==
  /\ product \in {"yee", "playspace"}
  /\ user \in [Persons -> Accounts \cup {Unlinked, Nobody}]
  /\ profile \in [Persons -> ProfileRows \cup {NoProfile}]
  /\ account \in [Accounts -> Persons \cup {Nobody}]
  /\ named \in SUBSET (Accounts \X Persons)
  /\ invite \in [Invites -> InviteRows \cup {NoInvite}]

\* A quiet step keeps the tables' types.
LEMMA QuietTypes ==
  ASSUME OrgTypeOK, NEW gone, Quiet(gone)
  PROVE  TablesTyped'
<1>1. \A p \in Persons : user'[p] \in Accounts \cup {Unlinked, Nobody}
  BY DEF Quiet, UserMoves, OrgTypeOK
<1>2. \A p \in Persons : profile'[p] \in ProfileRows \cup {NoProfile}
  BY DEF Quiet, ProfileMoves, OrgTypeOK
<1>3. \A a \in Accounts : account'[a] \in Persons \cup {Nobody}
  BY DEF Quiet, AccountMoves, OrgTypeOK
<1>4. \A i \in Invites : invite'[i] \in InviteRows \cup {NoInvite}
  BY DEF Quiet, InviteMoves, OrgTypeOK
<1>5. user' \in [Persons -> Accounts \cup {Unlinked, Nobody}]
  BY <1>1 DEF Quiet, Tabled
<1>6. profile' \in [Persons -> ProfileRows \cup {NoProfile}]
  BY <1>2 DEF Quiet, Tabled
<1>7. account' \in [Accounts -> Persons \cup {Nobody}]
  BY <1>3 DEF Quiet, Tabled
<1>8. invite' \in [Invites -> InviteRows \cup {NoInvite}]
  BY <1>4 DEF Quiet, Tabled
<1>9. product' \in {"yee", "playspace"} /\ named' \subseteq Accounts \X Persons
  BY DEF Quiet, OrgTypeOK
<1>10. QED
  BY <1>5, <1>6, <1>7, <1>8, <1>9 DEF TablesTyped

\* It leaves nothing that refers to an organisation that does not exist:
\* no step deletes one.
LEMMA QuietExisting ==
  ASSUME OrgTypeOK, OfExisting, NEW gone, Quiet(gone)
  PROVE  OfExisting'
<1>1. \A a \in Accounts : account[a] # Nobody => account'[a] # Nobody
  BY MembersAreRows DEF Quiet, AccountMoves
<1>2. \A p \in Persons : user'[p] \in Accounts => account[user'[p]] # Nobody
  BY MembersAreRows DEF Quiet, UserMoves, OfExisting
<1>3. \A p \in Persons : profile'[p] # NoProfile =>
         profile'[p].account \in Accounts /\ account[profile'[p].account] # Nobody
  BY MembersAreRows DEF Quiet, ProfileMoves, OfExisting, OrgTypeOK
<1>4. \A i \in Invites : invite'[i] # NoInvite =>
         invite'[i].account \in Accounts /\ account[invite'[i].account] # Nobody
  BY MembersAreRows DEF Quiet, InviteMoves, OfExisting, OrgTypeOK
<1>5. QED
  BY <1>1, <1>2, <1>3, <1>4 DEF OfExisting

\* It moves the row of a Playspace user and his profile together.
LEMMA QuietMembers ==
  ASSUME OrgTypeOK, MembersHaveTheirProfile, NEW gone, Quiet(gone)
  PROVE  MembersHaveTheirProfile'
<1>1. SUFFICES ASSUME product = "playspace", NEW p \in Persons
               PROVE  /\ user'[p] \in Accounts => profile'[p].linked /\ profile'[p].account = user'[p]
                      /\ user'[p] \notin Accounts => profile'[p] = NoProfile
  BY DEF MembersHaveTheirProfile, Quiet
<1>2. /\ user[p] \in Accounts => profile[p].linked /\ profile[p].account = user[p]
      /\ user[p] \notin Accounts => profile[p] = NoProfile
  BY <1>1 DEF MembersHaveTheirProfile
<1>3. ProfileMoves(p, gone) /\ UserMoves(p, gone)
  BY DEF Quiet
<1>4. QED
  BY <1>1, <1>2, <1>3, MembersAreRows DEF ProfileMoves, UserMoves

\* The primary profiles stay as they are.
LEMMA QuietPrimaries ==
  ASSUME OrgTypeOK, MembersHaveTheirProfile, NEW gone, Quiet(gone), NEW p \in Persons
  PROVE  /\ profile'[p].primary <=> profile[p].primary
         /\ profile[p].primary =>
              /\ profile'[p].account = profile[p].account
              /\ profile[p].linked => profile'[p].linked
              /\ product = "playspace" => user'[p] = user[p]
<1>1. ProfileMoves(p, gone) /\ UserMoves(p, gone)
  BY DEF Quiet
<1>2. product = "playspace" /\ user[p] = Nobody => profile[p] = NoProfile
  BY MembersAreRows DEF MembersHaveTheirProfile
<1>3. product \in {"yee", "playspace"}
  BY DEF OrgTypeOK
<1>4. profile'[p].primary <=> profile[p].primary
  BY <1>1, MembersAreRows DEF ProfileMoves
<1>5. ASSUME profile[p].primary
      PROVE  /\ profile'[p].account = profile[p].account
             /\ profile[p].linked => profile'[p].linked
  BY <1>1, <1>5, MembersAreRows DEF ProfileMoves
<1>6. ASSUME profile[p].primary, product = "playspace"
      PROVE  user'[p] = user[p]
  BY <1>1, <1>2, <1>6, MembersAreRows DEF UserMoves
<1>7. QED
  BY <1>4, <1>5, <1>6

\* It keeps every organisation's owner, because it keeps the primary profiles.
LEMMA QuietOwners ==
  ASSUME OrgTypeOK, OneAccountableOwner, MembersHaveTheirProfile, OfExisting, NEW gone, Quiet(gone)
  PROVE  OneAccountableOwner'
<1>1. SUFFICES ASSUME NEW a \in Accounts, account'[a] # Nobody
               PROVE  \E p \in Persons :
                        /\ profile'[p].account = a /\ profile'[p].linked /\ profile'[p].primary
                        /\ product = "playspace" => user'[p] = a
                        /\ \A q \in Persons \ {p} : profile'[q].account = a => ~profile'[q].primary
  BY DEF OneAccountableOwner, IsPrimary, Quiet
<1>2. account[a] # Nobody
  BY <1>1 DEF Quiet, AccountMoves
<1>3. PICK p \in Persons :
         /\ profile[p].account = a /\ profile[p].linked /\ profile[p].primary
         /\ product = "playspace" => user[p] = a
         /\ \A q \in Persons \ {p} : profile[q].account = a => ~profile[q].primary
  BY <1>2 DEF OneAccountableOwner, IsPrimary
<1>4. \A q \in Persons \ {p} : profile'[q].account = a => ~profile'[q].primary
  BY <1>3, QuietPrimaries
<1>5. QED
  BY <1>3, <1>4, QuietPrimaries

\* It changes an address only to one that managers entered, and leaves the
\* owners whose address an organisation carries in place.
LEMMA QuietAddresses ==
  ASSUME OrgTypeOK, Addresses, MembersHaveTheirProfile, NEW gone, Quiet(gone)
  PROVE  Addresses'
<1>1. SUFFICES ASSUME product = "playspace"
               PROVE  /\ \A p \in Persons : user'[p] # Unlinked
                      /\ \A a \in Accounts : account'[a] # Nobody =>
                            \/ <<a, account'[a]>> \in named'
                            \/ /\ user'[account'[a]] = a /\ profile'[account'[a]].linked
                               /\ profile'[account'[a]].primary /\ profile'[account'[a]].account = a
  BY DEF Addresses, LeadsAs, IsPrimary, Quiet
<1>2. \A p \in Persons : user'[p] # Unlinked
  BY <1>1, MembersAreRows DEF Quiet, UserMoves, Addresses
<1>3. ASSUME NEW a \in Accounts, account'[a] # Nobody, <<a, account'[a]>> \notin named'
      PROVE  /\ user'[account'[a]] = a /\ profile'[account'[a]].linked
             /\ profile'[account'[a]].primary /\ profile'[account'[a]].account = a
  <2>1. account'[a] = account[a] /\ <<a, account[a]>> \notin named /\ account[a] \in Persons
    BY <1>3 DEF Quiet, AccountMoves, OrgTypeOK
  <2>2. LeadsAs(account[a], a)
    BY <1>1, <1>3, <2>1 DEF Addresses
  <2>3. QED
    BY <1>1, <2>1, <2>2, QuietPrimaries DEF LeadsAs, IsPrimary
<1>4. QED
  BY <1>2, <1>3

-----------------------------------------------------------------------------
(* Requests while others commit *)

\* What a commit that deletes the rows `gone` leaves to those that loaded rows.
Keeps(gone) ==
  /\ product' = product /\ named \subseteq named'
  /\ \A a \in Accounts : account[a] # Nobody => account'[a] # Nobody
  /\ \A p \in Persons :
       product = "playspace" /\ user[p] \in Accounts /\ user'[p] # user[p] => UserRow(p) \in gone
  /\ \A p \in Persons : profile[p] # NoProfile /\ ProfileRow(p) \notin gone =>
       profile'[p] # NoProfile /\ (product = "yee" /\ ~profile[p].primary => ~profile'[p].primary)
  /\ \A i \in Invites : invite[i] # NoInvite /\ InviteRow(i) \notin gone =>
       invite'[i].email = invite[i].email /\ invite'[i].account = invite[i].account

\* It changes what others have loaded only where it deletes the row.
LEMMA QuietKeeps ==
  ASSUME OrgTypeOK, NEW gone, Quiet(gone)
  PROVE  Keeps(gone)
<1>1. \A a \in Accounts : account[a] # Nobody => account'[a] # Nobody
  BY MembersAreRows DEF Quiet, AccountMoves
<1>2. \A p \in Persons :
        product = "playspace" /\ user[p] \in Accounts /\ user'[p] # user[p] => UserRow(p) \in gone
  BY MembersAreRows DEF Quiet, UserMoves
<1>3. \A p \in Persons : profile[p] # NoProfile /\ ProfileRow(p) \notin gone =>
        profile'[p] # NoProfile /\ (product = "yee" /\ ~profile[p].primary => ~profile'[p].primary)
  BY MembersAreRows DEF Quiet, ProfileMoves
<1>4. \A i \in Invites : invite[i] # NoInvite /\ InviteRow(i) \notin gone =>
        invite'[i].email = invite[i].email /\ invite'[i].account = invite[i].account
  BY DEF Quiet, InviteMoves
<1>5. QED
  BY <1>1, <1>2, <1>3, <1>4 DEF Keeps, Quiet

\* A request x that loses the rows `gone` from what it has loaded becomes y.
LEMMA SoundStays ==
  ASSUME OrgTypeOK, NEW gone, Keeps(gone),
         NEW x, x.op \in Ops, Sound(x),
         NEW y, y.op = x.op, y.by = x.by, y.about = x.about, y.acct = x.acct, y.rows = x.rows \ gone,
         x.op \in Locking => /\ x.rows \cap gone = {}
                             /\ \A p \in Persons : ProfileRow(p) \in x.rows => profile'[p] = profile[p]
  PROVE  Sound(y)'
<1>1. Actors(y)'
  BY DEF Sound, Actors, Keeps
<1>2. Destined(y)'
  BY DEF Sound, Destined, Keeps
<1>3. Loaded(y)'
  <2>1. Actors(x) /\ Loaded(x) /\ Destined(x)
    BY DEF Sound
  <2>2. \A p \in Persons : ProfileRow(p) \in y.rows => profile'[p] # NoProfile
    BY <2>1 DEF Loaded, Keeps
  <2>3. y.op \in {"spin off", "revoke", "remove"} =>
          \A p \in Persons : ProfileRow(p) \in y.rows => product' = "yee" /\ ~profile'[p].primary
    BY <2>1 DEF Loaded, Keeps
  <2>4. y.op = "revoke" => \A p \in Persons : UserRow(p) \notin y.rows
    BY <2>1 DEF Loaded
  <2>5. y.op = "me" /\ product' = "playspace" /\ UserRow(y.by) \in y.rows => user'[y.by] = y.acct
    BY <2>1 DEF Loaded, Keeps, Actors, Destined
  <2>6. y.op \in {"accept new", "accept known"} =>
          \A i \in Invites : InviteRow(i) \in y.rows =>
              invite'[i].email = y.by /\ invite'[i].account = y.acct
    BY <2>1, MembersAreRows DEF Loaded, Keeps, Actors
  <2>7. QED
    BY <2>2, <2>3, <2>4, <2>5, <2>6 DEF Loaded, UserRow, ProfileRow, InviteRow
<1>4. Held(y)'
  <2>1. CASE x.op \notin Locking
    BY <2>1 DEF Held, Locking
  <2>2. CASE x.op \in Locking
    <3>1. y.rows = x.rows
      BY <2>2
    <3>2. x.by \in Persons /\ x.about \in Persons /\ Held(x)
      BY <2>2 DEF Sound, Actors, Locking
    <3>3. x.op \in {"transfer own", "transfer both", "delete own"} => profile'[x.by] = profile[x.by]
      BY <2>2, <3>2 DEF Held
    <3>4. x.op = "transfer both" => profile'[x.about] = profile[x.about]
      BY <2>2, <3>2 DEF Held
    <3>5. /\ x.op \in {"transfer user", "delete user"} => y.rows = {UserRow(x.by)}
          /\ x.op \in {"transfer own", "delete own"} => y.rows = {UserRow(x.by), ProfileRow(x.by)}
          /\ x.op = "transfer both" => y.rows = {UserRow(x.by), ProfileRow(x.by), ProfileRow(x.about)}
      BY <3>1, <3>2 DEF Held
    <3>6. x.op \in {"transfer own", "transfer both"} =>
            profile'[x.by].linked /\ profile'[x.by].primary /\ profile'[x.by].account = x.acct
      BY <3>2, <3>3 DEF Held, IsPrimary
    <3>7. x.op = "transfer both" =>
            x.about # x.by /\ profile'[x.about].linked /\ profile'[x.about].account = x.acct
      BY <3>2, <3>4 DEF Held
    <3>8. x.op = "delete own" => profile'[x.by].linked /\ ~profile'[x.by].primary
      BY <3>2, <3>3 DEF Held
    <3>9. QED
      BY <3>5, <3>6, <3>7, <3>8 DEF Held, IsPrimary, UserRow, ProfileRow
  <2>3. QED
    BY <2>1, <2>2
<1>5. QED
  BY <1>1, <1>2, <1>3, <1>4 DEF Sound

\* A request as a record.
RequestRecords ==
  [op : Ops, by : Persons \cup {Nobody}, about : Persons \cup {Nobody},
   acct : Accounts \cup {Unlinked, Nobody}, rows : SUBSET Rows]

\* A request that loses rows keeps everything else.
LEMMA RequestFields ==
  ASSUME NEW x \in RequestRecords, NEW gone
  PROVE  /\ [x EXCEPT !.rows = x.rows \ gone] \in RequestRecords
         /\ [x EXCEPT !.rows = x.rows \ gone].op = x.op
         /\ [x EXCEPT !.rows = x.rows \ gone].by = x.by
         /\ [x EXCEPT !.rows = x.rows \ gone].about = x.about
         /\ [x EXCEPT !.rows = x.rows \ gone].acct = x.acct
         /\ [x EXCEPT !.rows = x.rows \ gone].rows = x.rows \ gone
<1>1. x.rows \ gone \in SUBSET Rows
  BY DEF RequestRecords
<1>2. PICK rest \in SUBSET Rows : rest = x.rows \ gone
  BY <1>1
<1>3. QED
  BY <1>2 DEF RequestRecords

\* A request that is over has nothing left that could be wrong.
LEMMA IdleIsSound ==
  /\ Idle \in RequestRecords
  /\ Sound(Idle) /\ Sound(Idle)'
BY DEF Idle, RequestRecords, Ops, Sound, Actors, Destined, Loaded, Held, Locking

\* The requests after the commit of r.
LEMMA CommitStep ==
  ASSUME OrgTypeOK, RequestsSound, LocksApart,
         NEW r \in OrgRequests, NEW gone, Commit(r, gone), Keeps(gone), Respects(r, gone)
  PROVE  /\ request' \in [OrgRequests -> RequestRecords]
         /\ RequestsSound' /\ LocksApart'
<1> DEFINE left(q) == [request[q] EXCEPT !.rows = request[q].rows \ gone]
<1>1. request \in [OrgRequests -> RequestRecords]
  BY DEF OrgTypeOK, RequestRecords
<1>2. request' = [q \in OrgRequests |-> IF q = r THEN Idle ELSE left(q)]
  BY DEF Commit
<1>3. ASSUME NEW q \in OrgRequests
      PROVE  left(q) \in RequestRecords /\ left(q).op = request[q].op /\ left(q).by = request[q].by
             /\ left(q).about = request[q].about /\ left(q).acct = request[q].acct
             /\ left(q).rows = request[q].rows \ gone
  BY <1>1, RequestFields
<1> HIDE DEF left
<1>4. request' \in [OrgRequests -> RequestRecords]
  BY <1>2, <1>3, IdleIsSound
<1>5. \A q \in OrgRequests \ {r} : request'[q] = left(q)
  BY <1>2
<1>6. request'[r] = Idle
  BY <1>2
<1>7. ASSUME NEW q \in OrgRequests \ {r}
      PROVE  \E y : y = request'[q] /\ Sound(y)'
  <2>1. PICK x : x = request[q] /\ x \in RequestRecords /\ Sound(x)
    BY <1>1 DEF RequestsSound
  <2>2. PICK y : y = left(q)
    OBVIOUS
  <2>3. y.op = x.op /\ y.by = x.by /\ y.about = x.about /\ y.acct = x.acct /\ y.rows = x.rows \ gone
    BY <1>3, <2>1, <2>2
  <2>4. ASSUME x.op \in Locking
        PROVE  /\ x.rows \cap gone = {}
               /\ \A p \in Persons : ProfileRow(p) \in x.rows => profile'[p] = profile[p]
    <3>1. product = "playspace" /\ x.by \in Persons /\ x.about \in Persons
      BY <2>1, <2>4 DEF Sound, Actors, OrgTypeOK, Locking
    <3>2. \A row : Free(r, row) => row \notin x.rows
      BY <2>1, <2>4 DEF Free
    <3>3. \A row \in x.rows : \E p \in Persons : row = UserRow(p) \/ row = ProfileRow(p)
      BY <2>1, <2>4, <3>1 DEF Sound, Held, Locking
    <3>4. \A p \in Persons : ProfileRow(p) \in x.rows => profile[p] # NoProfile
      BY <2>1 DEF Sound, Loaded
    <3>5. QED
      BY <3>1, <3>2, <3>3, <3>4 DEF Respects
  <2>5. x.op \in Ops
    BY <2>1 DEF RequestRecords
  <2>6. Sound(y)'
    BY <2>1, <2>3, <2>4, <2>5, SoundStays
  <2>7. QED
    BY <1>5, <2>2, <2>6
<1>8. \E y : y = request'[r] /\ Sound(y)'
  BY <1>6, IdleIsSound
<1>9. RequestsSound'
  BY <1>7, <1>8 DEF RequestsSound
<1>10. LocksApart'
  <2>1. SUFFICES ASSUME NEW q \in OrgRequests, request'[q].op \in Locking, NEW row \in request'[q].rows,
                        NEW o \in OrgRequests \ {q}, request'[o].op \in Locking
                 PROVE  row \notin request'[o].rows
    BY DEF LocksApart, Free, Locking
  <2>2. q # r /\ o # r
    <3>1. Idle.op \notin Locking
      BY DEF Idle, Locking
    <3>2. QED
      BY <1>6, <2>1, <3>1
  <2>3. /\ request[q].op \in Locking /\ row \in request[q].rows
        /\ request[o].op \in Locking /\ request'[o].rows \subseteq request[o].rows
    BY <1>3, <1>5, <2>1, <2>2
  <2>4. QED
    BY <2>3 DEF LocksApart, Free
<1>11. QED
  BY <1>4, <1>9, <1>10

\* A step that founds and hands over nothing keeps the invariant.
LEMMA QuietStep ==
  ASSUME OrgInv, NEW r \in OrgRequests, NEW gone, Commit(r, gone), Quiet(gone), Respects(r, gone)
  PROVE  OrgInv'
<1>1. TablesTyped' /\ OfExisting' /\ MembersHaveTheirProfile' /\ OneAccountableOwner' /\ Addresses'
  BY QuietTypes, QuietExisting, QuietMembers, QuietOwners, QuietAddresses DEF OrgInv
<1>2. /\ request' \in [OrgRequests -> RequestRecords]
      /\ RequestsSound' /\ LocksApart'
  BY QuietKeeps, CommitStep DEF OrgInv
<1>3. OrgTypeOK'
  BY <1>1, <1>2 DEF OrgTypeOK, TablesTyped, RequestRecords
<1>4. QED
  BY <1>1, <1>2, <1>3 DEF OrgInv

-----------------------------------------------------------------------------
(* Founding and handing over *)

\* The person p founds the organisation a.
Founding(p, a, gone) ==
  /\ product' = product /\ named' = named
  /\ account[a] = Nobody /\ account' = [account EXCEPT ![a] = p]
  /\ user' = [user EXCEPT ![p] = a]
  /\ profile' = [profile EXCEPT ![p] = [account |-> a, linked |-> TRUE, primary |-> TRUE]]
  /\ ~profile[p].primary
  /\ product = "playspace" => user[p] = Nobody
  /\ profile[p] # NoProfile => ProfileRow(p) \in gone
  /\ \A i \in Invites : invite'[i] = invite[i] \/ (invite'[i] = NoInvite /\ InviteRow(i) \in gone)
  /\ invite' = [i \in Invites |-> invite'[i]]

\* The transfer of the organisation a from m to s.
HandingOver(m, s, a) ==
  /\ m # s /\ IsPrimary(m) /\ profile[m].account = a
  /\ profile[s].linked /\ profile[s].account = a
  /\ account' = [account EXCEPT ![a] = s]
  /\ profile' = [profile EXCEPT ![m].primary = FALSE, ![s].primary = TRUE]
  /\ UNCHANGED <<product, user, named, invite>>

\* Founding keeps every part of the invariant that is about the tables: the
\* new organisation has had no manager, and its founder leaves no other as owner.
LEMMA FoundingTables ==
  ASSUME OrgInv, NEW p \in Persons, NEW a \in Accounts, NEW gone, Founding(p, a, gone)
  PROVE  TablesTyped' /\ OfExisting' /\ MembersHaveTheirProfile' /\ OneAccountableOwner' /\ Addresses'
<1>1. PICK own : own = [account |-> a, linked |-> TRUE, primary |-> TRUE]
  OBVIOUS
<1>2. own \in ProfileRows /\ own.account = a /\ own.linked /\ own.primary
  BY <1>1 DEF ProfileRows
<1>3. /\ user'[p] = a /\ profile'[p] = own /\ account'[a] = p
      /\ \A q \in Persons \ {p} : user'[q] = user[q] /\ profile'[q] = profile[q]
      /\ \A b \in Accounts \ {a} : account'[b] = account[b]
  BY <1>1 DEF Founding, OrgInv, OrgTypeOK
<1>4. TablesTyped'
  <2>1. user' \in [Persons -> Accounts \cup {Unlinked, Nobody}]
    BY DEF Founding, OrgInv, OrgTypeOK
  <2>2. profile' \in [Persons -> ProfileRows \cup {NoProfile}]
    BY <1>1, <1>2 DEF Founding, OrgInv, OrgTypeOK
  <2>3. account' \in [Accounts -> Persons \cup {Nobody}]
    BY DEF Founding, OrgInv, OrgTypeOK
  <2>4. invite' \in [Invites -> InviteRows \cup {NoInvite}]
    BY DEF Founding, OrgInv, OrgTypeOK
  <2>5. product' \in {"yee", "playspace"} /\ named' \in SUBSET (Accounts \X Persons)
    BY DEF Founding, OrgInv, OrgTypeOK
  <2>6. QED
    BY <2>1, <2>2, <2>3, <2>4, <2>5 DEF TablesTyped
<1>5. \A b \in Accounts : account[b] # Nobody => b # a /\ account'[b] = account[b]
  BY <1>3 DEF Founding
<1>6. \A q \in Persons : profile[q].account # a
  BY MembersAreRows DEF OrgInv, OfExisting, Founding, OrgTypeOK
<1>7. OfExisting'
  <2>1. \A q \in Persons : user'[q] \in Accounts => account'[user'[q]] # Nobody
    BY <1>3, <1>5, MembersAreRows DEF OrgInv, OfExisting
  <2>2. \A q \in Persons : profile'[q] # NoProfile => account'[profile'[q].account] # Nobody
    BY <1>2, <1>3, <1>5, MembersAreRows DEF OrgInv, OfExisting, OrgTypeOK
  <2>3. \A i \in Invites : invite'[i] # NoInvite => account'[invite'[i].account] # Nobody
    BY <1>5, MembersAreRows DEF OrgInv, OfExisting, OrgTypeOK, Founding
  <2>4. QED
    BY <2>1, <2>2, <2>3 DEF OfExisting
<1>8. MembersHaveTheirProfile'
  BY <1>2, <1>3 DEF OrgInv, MembersHaveTheirProfile, Founding
<1>9. OneAccountableOwner'
  <2>1. SUFFICES ASSUME NEW b \in Accounts, account'[b] # Nobody
                 PROVE  \E o \in Persons :
                          /\ profile'[o].account = b /\ profile'[o].linked /\ profile'[o].primary
                          /\ product = "playspace" => user'[o] = b
                          /\ \A q \in Persons \ {o} : profile'[q].account = b => ~profile'[q].primary
    BY DEF OneAccountableOwner, IsPrimary, Founding
  <2>2. CASE b = a
    BY <1>2, <1>3, <1>6, <2>2
  <2>3. CASE b # a
    <3>1. account[b] # Nobody
      BY <1>3, <2>1, <2>3
    <3>2. PICK o \in Persons :
             /\ profile[o].account = b /\ profile[o].linked /\ profile[o].primary
             /\ product = "playspace" => user[o] = b
             /\ \A q \in Persons \ {o} : profile[q].account = b => ~profile[q].primary
      BY <3>1 DEF OrgInv, OneAccountableOwner, IsPrimary
    <3>3. o # p
      BY <3>2 DEF Founding
    <3>4. \A q \in Persons \ {o} : profile'[q].account = b => ~profile'[q].primary
      BY <1>2, <1>3, <2>3, <3>2
    <3>5. QED
      BY <1>3, <3>2, <3>3, <3>4
  <2>4. QED
    BY <2>2, <2>3
<1>10. Addresses'
  <2>1. SUFFICES ASSUME product = "playspace"
                 PROVE  /\ \A q \in Persons : user'[q] # Unlinked
                        /\ \A b \in Accounts : account'[b] # Nobody =>
                              \/ <<b, account'[b]>> \in named'
                              \/ /\ user'[account'[b]] = b /\ profile'[account'[b]].linked
                                 /\ profile'[account'[b]].primary /\ profile'[account'[b]].account = b
    BY DEF Addresses, LeadsAs, IsPrimary, Founding
  <2>2. \A q \in Persons : user'[q] # Unlinked
    BY <1>3, <2>1, MembersAreRows DEF OrgInv, Addresses
  <2>3. ASSUME NEW b \in Accounts, account'[b] # Nobody, b # a
        PROVE  \/ <<b, account'[b]>> \in named'
               \/ /\ user'[account'[b]] = b /\ profile'[account'[b]].linked
                  /\ profile'[account'[b]].primary /\ profile'[account'[b]].account = b
    <3>1. account'[b] = account[b] /\ account[b] # Nobody /\ account[b] \in Persons
      BY <1>3, <2>3 DEF OrgInv, OrgTypeOK
    <3>2. <<b, account[b]>> \in named \/ LeadsAs(account[b], b)
      BY <2>1, <3>1 DEF OrgInv, Addresses
    <3>3. LeadsAs(account[b], b) => account[b] # p
      BY DEF LeadsAs, IsPrimary, Founding
    <3>4. QED
      BY <1>3, <3>1, <3>2, <3>3 DEF LeadsAs, IsPrimary, Founding
  <2>4. QED
    BY <1>2, <1>3, <2>2, <2>3
<1>11. QED
  BY <1>4, <1>7, <1>8, <1>9, <1>10

\* A sign-up that founds an organisation keeps the invariant.
LEMMA FoundingStep ==
  ASSUME OrgInv, NEW r \in OrgRequests, NEW p \in Persons, NEW a \in Accounts, NEW gone,
         Commit(r, gone), Founding(p, a, gone), product = "playspace" => gone = {}
  PROVE  OrgInv'
<1>1. PICK own : own = [account |-> a, linked |-> TRUE, primary |-> TRUE]
  OBVIOUS
<1>2. own \in ProfileRows /\ own # NoProfile
  BY <1>1, MembersAreRows DEF ProfileRows
<1>3. /\ user'[p] = a /\ profile'[p] = own /\ account'[a] = p
      /\ \A q \in Persons \ {p} : user'[q] = user[q] /\ profile'[q] = profile[q]
      /\ \A b \in Accounts \ {a} : account'[b] = account[b]
  BY <1>1 DEF Founding, OrgInv, OrgTypeOK
<1>4. Keeps(gone)
  <2>1. \A b \in Accounts : account[b] # Nobody => account'[b] # Nobody
    BY <1>3 DEF Founding
  <2>2. \A q \in Persons :
          product = "playspace" /\ user[q] \in Accounts /\ user'[q] # user[q] => UserRow(q) \in gone
    BY <1>3, MembersAreRows DEF Founding
  <2>3. \A q \in Persons : profile[q] # NoProfile /\ ProfileRow(q) \notin gone => profile'[q] = profile[q]
    BY <1>3 DEF Founding
  <2>4. \A i \in Invites : invite[i] # NoInvite /\ InviteRow(i) \notin gone =>
          invite'[i].email = invite[i].email /\ invite'[i].account = invite[i].account
    BY DEF Founding
  <2>5. QED
    BY <2>1, <2>2, <2>3, <2>4 DEF Keeps, Founding
<1>5. Respects(r, gone)
  <2>1. ASSUME NEW q \in Persons, product = "playspace", profile'[q] # profile[q]
        PROVE  profile[q] = NoProfile
    BY <1>3, <2>1 DEF Founding
  <2>2. product \in {"yee", "playspace"}
    BY DEF OrgInv, OrgTypeOK
  <2>3. QED
    BY <2>1, <2>2 DEF Respects
<1>6. TablesTyped' /\ OfExisting' /\ MembersHaveTheirProfile' /\ OneAccountableOwner' /\ Addresses'
  BY FoundingTables
<1>7. /\ request' \in [OrgRequests -> RequestRecords]
      /\ RequestsSound' /\ LocksApart'
  BY <1>4, <1>5, CommitStep DEF OrgInv
<1>8. OrgTypeOK'
  BY <1>6, <1>7 DEF OrgTypeOK, TablesTyped, RequestRecords
<1>9. QED
  BY <1>6, <1>7, <1>8 DEF OrgInv

\* The two profiles that a transfer changes.
LEMMA HandedOver ==
  ASSUME OrgInv, NEW m \in Persons, NEW s \in Persons, NEW a \in Accounts, HandingOver(m, s, a)
  PROVE  /\ profile'[m] \in ProfileRows /\ profile'[m].account = a /\ profile'[m].linked /\ ~profile'[m].primary
         /\ profile'[s] \in ProfileRows /\ profile'[s].account = a /\ profile'[s].linked /\ profile'[s].primary
         /\ \A q \in Persons \ {m, s} : profile'[q] = profile[q]
         /\ profile' \in [Persons -> ProfileRows \cup {NoProfile}]
         /\ profile[m] \in ProfileRows /\ profile[s] \in ProfileRows
<1>1. profile[m] \in ProfileRows /\ profile[s] \in ProfileRows
  BY MembersAreRows DEF HandingOver, IsPrimary, OrgInv, OrgTypeOK
<1>2. PICK x : x = [profile[m] EXCEPT !.primary = FALSE]
  OBVIOUS
<1>3. PICK y : y = [profile[s] EXCEPT !.primary = TRUE]
  OBVIOUS
<1>4. x \in ProfileRows /\ x.account = profile[m].account /\ x.linked = profile[m].linked /\ ~x.primary
  BY <1>1, <1>2 DEF ProfileRows
<1>5. y \in ProfileRows /\ y.account = profile[s].account /\ y.linked = profile[s].linked /\ y.primary
  BY <1>1, <1>3 DEF ProfileRows
<1>6. profile'[m] = x /\ profile'[s] = y /\ \A q \in Persons \ {m, s} : profile'[q] = profile[q]
  BY <1>2, <1>3 DEF HandingOver, OrgInv, OrgTypeOK
<1>7. profile' = [q \in Persons |-> profile'[q]]
  BY DEF HandingOver, OrgInv, OrgTypeOK
<1>8. \A q \in Persons : profile'[q] \in ProfileRows \cup {NoProfile}
  BY <1>4, <1>5, <1>6 DEF OrgInv, OrgTypeOK
<1>9. profile' \in [Persons -> ProfileRows \cup {NoProfile}]
  BY <1>7, <1>8
<1>10. profile[m].linked /\ profile[m].account = a /\ profile[s].linked /\ profile[s].account = a
  BY DEF HandingOver, IsPrimary
<1>11. QED
  BY <1>1, <1>4, <1>5, <1>6, <1>9, <1>10

\* So does a transfer: the former owner is the only other primary manager,
\* and the organisation takes the address of the new one.
LEMMA HandingOverTables ==
  ASSUME OrgInv, NEW m \in Persons, NEW s \in Persons, NEW a \in Accounts, HandingOver(m, s, a),
         product = "playspace"
  PROVE  TablesTyped' /\ OfExisting' /\ MembersHaveTheirProfile' /\ OneAccountableOwner' /\ Addresses'
<1>0. /\ profile'[m] \in ProfileRows /\ profile'[m].account = a /\ profile'[m].linked /\ ~profile'[m].primary
      /\ profile'[s] \in ProfileRows /\ profile'[s].account = a /\ profile'[s].linked /\ profile'[s].primary
      /\ \A q \in Persons \ {m, s} : profile'[q] = profile[q]
      /\ profile' \in [Persons -> ProfileRows \cup {NoProfile}]
      /\ profile[m] \in ProfileRows /\ profile[s] \in ProfileRows
      /\ profile[m].account = a /\ profile[s].account = a
  BY HandedOver DEF HandingOver
<1>1. account[a] # Nobody
  BY <1>0, MembersAreRows DEF OrgInv, OfExisting, HandingOver
<1>2. /\ account'[a] = s /\ s # Nobody
      /\ \A b \in Accounts \ {a} : account'[b] = account[b]
  BY MembersAreRows DEF HandingOver, OrgInv, OrgTypeOK
<1>3. TablesTyped'
  <2>1. account' \in [Accounts -> Persons \cup {Nobody}]
    BY DEF HandingOver, OrgInv, OrgTypeOK
  <2>2. QED
    BY <2>1, <1>0 DEF TablesTyped, HandingOver, OrgInv, OrgTypeOK
<1>4. \A b \in Accounts : account'[b] # Nobody <=> account[b] # Nobody
  BY <1>1, <1>2
<1>5. \A q \in Persons : profile'[q] # NoProfile =>
         profile[q] # NoProfile /\ profile[q] \in ProfileRows /\ profile'[q].account = profile[q].account
  <2>1. ASSUME NEW q \in Persons, profile'[q] # NoProfile
        PROVE  profile[q] # NoProfile /\ profile[q] \in ProfileRows /\ profile'[q].account = profile[q].account
    <3>1. CASE q = m
      BY <1>0, <3>1, MembersAreRows
    <3>2. CASE q = s
      BY <1>0, <3>2, MembersAreRows
    <3>3. CASE q \notin {m, s}
      BY <1>0, <2>1, <3>3 DEF OrgInv, OrgTypeOK
    <3>4. QED
      BY <3>1, <3>2, <3>3
  <2>2. QED
    BY <2>1
<1>6. OfExisting'
  <2>1. \A q \in Persons : user'[q] \in Accounts => account'[user'[q]] # Nobody
    BY <1>4 DEF OrgInv, OfExisting, HandingOver
  <2>2. \A q \in Persons : profile'[q] # NoProfile => account'[profile'[q].account] # Nobody
    BY <1>4, <1>5, MembersAreRows DEF OrgInv, OfExisting
  <2>3. \A i \in Invites : invite'[i] # NoInvite => account'[invite'[i].account] # Nobody
    BY <1>4, MembersAreRows DEF OrgInv, OfExisting, HandingOver, OrgTypeOK
  <2>4. QED
    BY <2>1, <2>2, <2>3 DEF OfExisting
<1>7. user[m] = a /\ user[s] = a
  BY <1>0, MembersAreRows DEF OrgInv, MembersHaveTheirProfile, HandingOver
<1>8. MembersHaveTheirProfile'
  <2>1. ASSUME NEW q \in Persons
        PROVE  /\ user'[q] \in Accounts => profile'[q].linked /\ profile'[q].account = user'[q]
               /\ user'[q] \notin Accounts => profile'[q] = NoProfile
    <3>0. user' = user
      BY DEF HandingOver
    <3>1. CASE q \in {m, s}
      <4>1. user'[q] = a /\ profile'[q].linked /\ profile'[q].account = a
        BY <1>0, <1>7, <3>0, <3>1
      <4>2. QED
        BY <4>1
    <3>2. CASE q \notin {m, s}
      BY <3>2, <1>0 DEF HandingOver, OrgInv, MembersHaveTheirProfile
    <3>3. QED
      BY <3>1, <3>2
  <2>2. QED
    BY <2>1 DEF MembersHaveTheirProfile
<1>9. \A q \in Persons \ {m} : profile[q].account = a => ~profile[q].primary
  <2>1. PICK o \in Persons :
           /\ profile[o].account = a
           /\ \A q \in Persons \ {o} : profile[q].account = a => ~profile[q].primary
    BY <1>1 DEF OrgInv, OneAccountableOwner
  <2>2. o = m
    BY <2>1 DEF HandingOver, IsPrimary
  <2>3. QED
    BY <2>1, <2>2
<1>10. OneAccountableOwner'
  <2>1. SUFFICES ASSUME NEW b \in Accounts, account'[b] # Nobody
                 PROVE  \E o \in Persons :
                          /\ profile'[o].account = b /\ profile'[o].linked /\ profile'[o].primary
                          /\ product = "playspace" => user'[o] = b
                          /\ \A q \in Persons \ {o} : profile'[q].account = b => ~profile'[q].primary
    BY DEF OneAccountableOwner, IsPrimary, HandingOver
  <2>2. CASE b = a
    <3>1. \A q \in Persons \ {s} : profile'[q].account = a => ~profile'[q].primary
      BY <1>9, <1>0
    <3>2. user'[s] = a
      BY <1>7 DEF HandingOver
    <3>3. QED
      BY <2>2, <3>1, <3>2, <1>0
  <2>3. CASE b # a
    <3>1. PICK o \in Persons :
             /\ profile[o].account = b /\ profile[o].linked /\ profile[o].primary
             /\ product = "playspace" => user[o] = b
             /\ \A q \in Persons \ {o} : profile[q].account = b => ~profile[q].primary
      BY <1>4, <2>1 DEF OrgInv, OneAccountableOwner, IsPrimary
    <3>2. o \notin {m, s}
      BY <2>3, <3>1 DEF HandingOver
    <3>3. \A q \in Persons \ {o} : profile'[q].account = b => ~profile'[q].primary
      BY <2>3, <3>1, <1>0
    <3>4. profile'[o] = profile[o] /\ user'[o] = user[o]
      BY <3>2, <1>0 DEF HandingOver
    <3>5. QED
      BY <3>1, <3>3, <3>4
  <2>4. QED
    BY <2>2, <2>3
<1>11. Addresses'
  <2>1. ASSUME NEW b \in Accounts, account'[b] # Nobody, <<b, account'[b]>> \notin named'
        PROVE  /\ user'[account'[b]] = b /\ profile'[account'[b]].linked
               /\ profile'[account'[b]].primary /\ profile'[account'[b]].account = b
    <3>1. CASE b = a
      <4>1. account'[b] = s /\ user'[s] = b
        BY <1>2, <1>7, <3>1 DEF HandingOver
      <4>2. QED
        BY <1>0, <3>1, <4>1
    <3>2. CASE b # a
      <4>1. account'[b] = account[b] /\ account[b] \in Persons /\ account[b] # Nobody
        BY <1>2, <2>1, <3>2 DEF OrgInv, OrgTypeOK
      <4>2. LeadsAs(account[b], b)
        BY <2>1, <4>1 DEF OrgInv, Addresses, HandingOver
      <4>3. account[b] \notin {m, s}
        BY <3>2, <4>2 DEF LeadsAs, HandingOver
      <4>4. profile'[account[b]] = profile[account[b]]
        BY <4>1, <4>3, <1>0
      <4>5. QED
        BY <4>1, <4>2, <4>4 DEF LeadsAs, IsPrimary, HandingOver
    <3>3. QED
      BY <3>1, <3>2
  <2>2. \A q \in Persons : user'[q] # Unlinked
    BY DEF OrgInv, Addresses, HandingOver
  <2>3. QED
    BY <2>1, <2>2 DEF Addresses, LeadsAs, IsPrimary
<1>12. QED
  BY <1>3, <1>6, <1>8, <1>10, <1>11

\* A transfer that holds both profiles keeps the invariant.
LEMMA HandingOverStep ==
  ASSUME OrgInv, NEW r \in OrgRequests, NEW m \in Persons, NEW s \in Persons, NEW a \in Accounts,
         Commit(r, {}), HandingOver(m, s, a), product = "playspace",
         Free(r, ProfileRow(m)), Free(r, ProfileRow(s))
  PROVE  OrgInv'
<1>1. account[a] # Nobody
  BY HandedOver, MembersAreRows DEF OrgInv, OfExisting, HandingOver
<1>2. Keeps({})
  <2>1. \A b \in Accounts : account[b] # Nobody => account'[b] # Nobody
    BY MembersAreRows DEF HandingOver, OrgInv, OrgTypeOK
  <2>2. \A q \in Persons : profile[q] # NoProfile => profile'[q] # NoProfile
    BY HandedOver, MembersAreRows
  <2>3. QED
    BY <2>1, <2>2 DEF Keeps, HandingOver
<1>3. Respects(r, {})
  BY HandedOver DEF Respects
<1>4. TablesTyped' /\ OfExisting' /\ MembersHaveTheirProfile' /\ OneAccountableOwner' /\ Addresses'
  BY HandingOverTables
<1>5. /\ request' \in [OrgRequests -> RequestRecords]
      /\ RequestsSound' /\ LocksApart'
  BY <1>2, <1>3, CommitStep DEF OrgInv
<1>6. OrgTypeOK'
  BY <1>4, <1>5 DEF OrgTypeOK, TablesTyped, RequestRecords
<1>7. QED
  BY <1>4, <1>5, <1>6 DEF OrgInv

-----------------------------------------------------------------------------
(* The steps that only read and lock *)

\* A request x that begins or goes on with what it has read.
LEMMA ReadingStep ==
  ASSUME OrgInv, NEW r \in OrgRequests, NEW x \in RequestRecords, UNCHANGED tables,
         request' = [request EXCEPT ![r] = x], Sound(x),
         x.op \in Locking => \A row \in x.rows : Free(r, row)
  PROVE  OrgInv'
<1>1. request \in [OrgRequests -> RequestRecords]
  BY DEF OrgInv, OrgTypeOK, RequestRecords
<1>2. request'[r] = x /\ \A q \in OrgRequests \ {r} : request'[q] = request[q]
  BY <1>1
<1>3. request' \in [OrgRequests -> RequestRecords]
  BY <1>1
<1>4. OrgTypeOK'
  BY <1>3 DEF OrgInv, OrgTypeOK, RequestRecords, tables
<1>5. /\ product' = product /\ user' = user /\ profile' = profile
      /\ account' = account /\ named' = named /\ invite' = invite
  BY DEF tables
<1>6. OfExisting' /\ Addresses' /\ OneAccountableOwner' /\ MembersHaveTheirProfile'
  BY <1>5 DEF OrgInv, OfExisting, Addresses, LeadsAs, IsPrimary, OneAccountableOwner, MembersHaveTheirProfile
<1>7. ASSUME NEW y, Sound(y)
      PROVE  Sound(y)'
  BY <1>5, <1>7 DEF Sound, Actors, Destined, Loaded, Held, IsPrimary, UserRow, ProfileRow, InviteRow, Locking
<1>8. ASSUME NEW q \in OrgRequests
      PROVE  \E y : y = request'[q] /\ Sound(y)'
  <2>1. PICK y : y = request'[q] /\ Sound(y)
    BY <1>2 DEF OrgInv, RequestsSound
  <2>2. QED
    BY <1>7, <2>1
<1>9. RequestsSound'
  BY <1>8 DEF RequestsSound
<1>10. LocksApart'
  <2>1. SUFFICES ASSUME NEW q \in OrgRequests, request'[q].op \in Locking, NEW row \in request'[q].rows,
                        NEW o \in OrgRequests \ {q}, request'[o].op \in Locking
                 PROVE  row \notin request'[o].rows
    BY DEF LocksApart, Free, Locking
  <2>2. CASE q = r
    BY <1>2, <2>1, <2>2 DEF Free
  <2>3. CASE q # r /\ o = r
    BY <1>2, <2>1, <2>3 DEF Free
  <2>4. CASE q # r /\ o # r
    BY <1>2, <2>1, <2>4 DEF OrgInv, LocksApart, Free
  <2>5. QED
    BY <2>2, <2>3, <2>4
<1>11. QED
  BY <1>4, <1>6, <1>9, <1>10 DEF OrgInv

\* The same of a request that is given by its parts.
LEMMA BeginStep ==
  ASSUME OrgInv, NEW r \in OrgRequests, UNCHANGED tables,
         NEW op \in Ops, NEW by \in Persons \cup {Nobody}, NEW about \in Persons,
         NEW acct \in Accounts \cup {Unlinked, Nobody}, NEW rows \in SUBSET Rows,
         NEW x, x = Request(op, by, about, acct, rows),
         request' = [request EXCEPT ![r] = x], Sound(x),
         op \in Locking => \A row \in rows : Free(r, row)
  PROVE  OrgInv'
<1>1. x \in RequestRecords /\ x.op = op /\ x.rows = rows
  BY DEF Request, RequestRecords
<1>2. QED
  BY <1>1, ReadingStep

\* A first sign-up.  An organisation carries the address of somebody who is no
\* user only if its managers entered it.
LEMMA SignupStartStep ==
  ASSUME OrgInv, NEW r \in OrgRequests, NEW p \in Persons, SignupStart(r, p)
  PROVE  OrgInv'
<1> DEFINE a == AccountOf(p)
<1>1. (a \in Accounts /\ account[a] = p) \/ a = Nobody
  BY DEF AccountOf
<1>2. UNCHANGED tables /\ request' = [request EXCEPT ![r] = Request("found", p, p, a, {})]
  BY DEF SignupStart, Begin
<1>3. a # Nobody => product = "playspace" /\ a \in Accounts /\ account[a] = p /\ user[p] = Nobody
  BY <1>1 DEF SignupStart, OrgInv, OrgTypeOK
<1> HIDE DEF a
<1>4. a # Nobody => <<a, p>> \in named /\ account[a] # Nobody
  BY <1>3, MembersAreRows DEF OrgInv, Addresses, LeadsAs
<1>5. PICK x : x = Request("found", p, p, a, {})
  OBVIOUS
<1>6. x.op = "found" /\ x.by = p /\ x.about = p /\ x.acct = a /\ x.rows = {}
  BY <1>5 DEF Request
<1>7. Sound(x)
  BY <1>3, <1>4, <1>6 DEF Sound, Actors, Destined, Loaded, Held, Locking
<1>8. "found" \in Ops /\ "found" \notin Locking /\ a \in Accounts \cup {Unlinked, Nobody}
  BY <1>3 DEF Ops, Locking
<1>9. QED
  BY <1>2, <1>5, <1>7, <1>8, BeginStep

\* A sign-up by a manager who has an account (YEE).
LEMMA SignupAgainStartStep ==
  ASSUME OrgInv, NEW r \in OrgRequests, NEW p \in Persons, SignupAgainStart(r, p)
  PROVE  OrgInv'
<1>1. UNCHANGED tables /\ product = "yee"
  BY DEF SignupAgainStart, Begin
<1>2. CASE request' = [request EXCEPT ![r] = Request("found again", p, p, Nobody, {})]
  <2>1. PICK x : x = Request("found again", p, p, Nobody, {})
    OBVIOUS
  <2>2. x.op = "found again" /\ x.by = p /\ x.about = p /\ x.acct = Nobody /\ x.rows = {}
    BY <2>1 DEF Request
  <2>3. Sound(x)
    BY <1>1, <2>2 DEF Sound, Actors, Destined, Loaded, Held, Locking
  <2>4. "found again" \in Ops /\ "found again" \notin Locking
    BY DEF Ops, Locking
  <2>5. QED
    BY <1>1, <1>2, <2>1, <2>3, <2>4, BeginStep
<1>3. ASSUME NEW rows, rows = {ProfileRow(p)} \cup
                    {InviteRow(i) : i \in {j \in Invites : /\ invite[j].email = p
                                                          /\ invite[j].account = profile[p].account}},
             profile[p] # NoProfile, profile[p].linked, ~profile[p].primary,
             request' = [request EXCEPT ![r] = Request("spin off", p, p, profile[p].account, rows)]
      PROVE  OrgInv'
  <2>1. PICK x : x = Request("spin off", p, p, profile[p].account, rows)
    OBVIOUS
  <2>2. x.op = "spin off" /\ x.by = p /\ x.about = p /\ x.rows = rows
    BY <2>1 DEF Request
  <2>3. /\ \A q \in Persons : ProfileRow(q) \in rows => q = p
        /\ rows \in SUBSET Rows
    <3>1. \A row \in rows : row = ProfileRow(p) \/ \E i \in Invites : row = InviteRow(i)
      BY <1>3
    <3>2. \A q \in Persons : ProfileRow(q) \in rows => q = p
      BY <3>1, RowNames
    <3>3. \A row \in rows : row \in Rows
      BY <3>1, RowNames
    <3>4. QED
      BY <3>2, <3>3
  <2>4. Sound(x)
    BY <1>1, <1>3, <2>2, <2>3 DEF Sound, Actors, Destined, Loaded, Held, Locking
  <2>5. "spin off" \in Ops /\ "spin off" \notin Locking /\ profile[p].account \in Accounts
    BY <1>3, MembersAreRows DEF Ops, Locking, OrgInv, OrgTypeOK
  <2>6. QED
    BY <1>1, <1>3, <2>1, <2>3, <2>4, <2>5, BeginStep
<1>4. ASSUME user[p] # Unlinked, user[p] # Nobody,
             request' = [request EXCEPT ![r] = Request("rename", p, p, user[p], {})]
      PROVE  OrgInv'
  <2>1. PICK x : x = Request("rename", p, p, user[p], {})
    OBVIOUS
  <2>2. x.op = "rename" /\ x.by = p /\ x.about = p /\ x.acct = user[p] /\ x.rows = {}
    BY <2>1 DEF Request
  <2>3. user[p] \in Accounts /\ account[user[p]] # Nobody
    BY <1>4 DEF OrgInv, OrgTypeOK, OfExisting
  <2>4. Sound(x)
    BY <1>1, <2>2, <2>3 DEF Sound, Actors, Destined, Loaded, Held, Locking
  <2>5. "rename" \in Ops /\ "rename" \notin Locking
    BY DEF Ops, Locking
  <2>6. QED
    BY <1>1, <1>4, <2>1, <2>3, <2>4, <2>5, BeginStep
<1>5. QED
  BY <1>2, <1>3, <1>4 DEF SignupAgainStart, Begin

\* A session.
LEMMA MeStartStep ==
  ASSUME OrgInv, NEW r \in OrgRequests, NEW p \in Persons, MeStart(r, p)
  PROVE  OrgInv'
<1>1. PICK x : x = Request("me", p, p, user[p], {UserRow(p)})
  OBVIOUS
<1>2. UNCHANGED tables /\ request' = [request EXCEPT ![r] = x] /\ user[p] \in Accounts
  BY <1>1 DEF MeStart, Begin
<1>3. x.op = "me" /\ x.by = p /\ x.about = p /\ x.acct = user[p] /\ x.rows = {UserRow(p)}
  BY <1>1 DEF Request
<1>4. account[user[p]] # Nobody /\ \A q \in Persons : ProfileRow(q) \notin x.rows
  BY <1>2, <1>3, RowNames DEF OrgInv, OfExisting
<1>5. Sound(x)
  BY <1>2, <1>3, <1>4 DEF Sound, Actors, Destined, Loaded, Held, Locking
<1>6. "me" \in Ops /\ "me" \notin Locking /\ {UserRow(p)} \in SUBSET Rows
  BY RowNames DEF Ops, Locking
<1>7. QED
  BY <1>1, <1>2, <1>5, <1>6, BeginStep

\* An approval by the administrator.
LEMMA ApproveStartStep ==
  ASSUME OrgInv, NEW r \in OrgRequests, NEW p \in Persons, NEW a \in Accounts, ApproveStart(r, p, a)
  PROVE  OrgInv'
<1>1. PICK x : x = Request("approve", Nobody, p, a, {UserRow(p)})
  OBVIOUS
<1>2. UNCHANGED tables /\ request' = [request EXCEPT ![r] = x] /\ product = "yee" /\ account[a] # Nobody
  BY <1>1 DEF ApproveStart, Begin
<1>3. x.op = "approve" /\ x.by = Nobody /\ x.about = p /\ x.acct = a /\ x.rows = {UserRow(p)}
  BY <1>1 DEF Request
<1>4. \A q \in Persons : ProfileRow(q) \notin x.rows
  BY <1>3, RowNames
<1>5. Sound(x)
  BY <1>2, <1>3, <1>4 DEF Sound, Actors, Destined, Loaded, Held, Locking
<1>6. "approve" \in Ops /\ "approve" \notin Locking /\ {UserRow(p)} \in SUBSET Rows
  BY RowNames DEF Ops, Locking
<1>7. QED
  BY <1>1, <1>2, <1>5, <1>6, BeginStep

\* A new address for an organisation.
LEMMA AddressStartStep ==
  ASSUME OrgInv, NEW r \in OrgRequests, NEW m \in Persons, NEW e \in Persons, AddressStart(r, m, e)
  PROVE  OrgInv'
<1>1. PICK x : x = Request("address", m, e, user[m], {})
  OBVIOUS
<1>2. UNCHANGED tables /\ request' = [request EXCEPT ![r] = x] /\ user[m] \in Accounts
  BY <1>1 DEF AddressStart, Begin
<1>3. x.op = "address" /\ x.by = m /\ x.about = e /\ x.acct = user[m] /\ x.rows = {}
  BY <1>1 DEF Request
<1>4. account[user[m]] # Nobody
  BY <1>2 DEF OrgInv, OfExisting
<1>5. Sound(x)
  BY <1>2, <1>3, <1>4 DEF Sound, Actors, Destined, Loaded, Held, Locking
<1>6. "address" \in Ops /\ "address" \notin Locking
  BY DEF Ops, Locking
<1>7. QED
  BY <1>1, <1>2, <1>5, <1>6, BeginStep

\* Who leads an organisation leads one that exists.
LEMMA LeadersHaveOne ==
  ASSUME OrgInv, NEW m \in Persons, NEW a, LeadsAs(m, a)
  PROVE  a \in Accounts /\ account[a] # Nobody
<1>1. profile[m] # NoProfile /\ profile[m].account = a
  BY MembersAreRows DEF LeadsAs, IsPrimary
<1>2. QED
  BY <1>1, MembersAreRows DEF OrgInv, OrgTypeOK, OfExisting

\* An invitation; it may find a placeholder, never a member's profile.
LEMMA InviteStartStep ==
  ASSUME OrgInv, NEW r \in OrgRequests, NEW m \in Persons, NEW e \in Persons, InviteStart(r, m, e)
  PROVE  OrgInv'
<1>1. PICK rows : rows = {UserRow(m)} \cup IF profile[e] = NoProfile THEN {} ELSE {ProfileRow(e)}
  OBVIOUS
<1>2. PICK x : x = Request("invite", m, e, user[m], rows)
  OBVIOUS
<1>3. UNCHANGED tables /\ request' = [request EXCEPT ![r] = x] /\ LeadsAs(m, user[m])
  BY <1>1, <1>2 DEF InviteStart, Begin
<1>4. x.op = "invite" /\ x.by = m /\ x.about = e /\ x.acct = user[m] /\ x.rows = rows
  BY <1>2 DEF Request
<1>5. user[m] \in Accounts /\ account[user[m]] # Nobody
  BY <1>3, LeadersHaveOne
<1>6. rows \in SUBSET Rows /\ \A q \in Persons : ProfileRow(q) \in rows => profile[q] # NoProfile
  BY <1>1, RowNames
<1>7. Sound(x)
  BY <1>4, <1>5, <1>6 DEF Sound, Actors, Destined, Loaded, Held, Locking
<1>8. "invite" \in Ops /\ "invite" \notin Locking
  BY DEF Ops, Locking
<1>9. QED
  BY <1>2, <1>3, <1>5, <1>6, <1>7, <1>8, BeginStep

\* A revocation, which loads the placeholder with the invite.
LEMMA RevokeStartStep ==
  ASSUME OrgInv, NEW r \in OrgRequests, NEW m \in Persons, NEW i \in Invites, RevokeStart(r, m, i)
  PROVE  OrgInv'
<1> DEFINE e == invite[i].email
           a == invite[i].account
<1>1. PICK rows : rows = {InviteRow(i)} \cup
                IF product = "yee" /\ profile[e].account = a
                     /\ ~profile[e].linked /\ ~profile[e].primary
                THEN {ProfileRow(e)} ELSE {}
  OBVIOUS
<1>2. PICK x : x = Request("revoke", m, e, a, rows)
  OBVIOUS
<1>3. UNCHANGED tables /\ request' = [request EXCEPT ![r] = x] /\ invite[i] # NoInvite
  BY <1>1, <1>2 DEF RevokeStart, Begin
<1>4. x.op = "revoke" /\ x.by = m /\ x.about = e /\ x.acct = a /\ x.rows = rows
  BY <1>2 DEF Request
<1>5. e \in Persons /\ a \in Accounts
  BY <1>3, MembersAreRows DEF OrgInv, OrgTypeOK
<1>6. rows \in SUBSET Rows
  BY <1>1, <1>5, RowNames
<1>7. \A q \in Persons : UserRow(q) \notin rows
  BY <1>1, RowNames
<1>8. \A q \in Persons : ProfileRow(q) \in rows =>
         product = "yee" /\ ~profile[q].primary /\ profile[q] # NoProfile
  BY <1>1, <1>5, RowNames, MembersAreRows
<1>9. Sound(x)
  BY <1>4, <1>5, <1>7, <1>8 DEF Sound, Actors, Destined, Loaded, Held, Locking
<1>10. "revoke" \in Ops /\ "revoke" \notin Locking
  BY DEF Ops, Locking
<1>11. QED
  BY <1>2, <1>3, <1>5, <1>6, <1>9, <1>10, BeginStep

\* Another mail for an invite.
LEMMA ResendStartStep ==
  ASSUME OrgInv, NEW r \in OrgRequests, NEW m \in Persons, NEW i \in Invites, ResendStart(r, m, i)
  PROVE  OrgInv'
<1> DEFINE e == invite[i].email
           a == invite[i].account
<1>1. PICK x : x = Request("resend", m, e, a, {InviteRow(i)})
  OBVIOUS
<1>2. UNCHANGED tables /\ request' = [request EXCEPT ![r] = x] /\ invite[i] # NoInvite
  BY <1>1 DEF ResendStart, Begin
<1>3. x.op = "resend" /\ x.by = m /\ x.about = e /\ x.acct = a /\ x.rows = {InviteRow(i)}
  BY <1>1 DEF Request
<1>4. e \in Persons /\ a \in Accounts
  BY <1>2, MembersAreRows DEF OrgInv, OrgTypeOK
<1>5. {InviteRow(i)} \in SUBSET Rows /\ \A q \in Persons : ProfileRow(q) \notin x.rows
  <2>1. InviteRow(i) \in Rows
    BY RowNames
  <2>2. \A row \in x.rows : row = InviteRow(i)
    BY <1>3
  <2>3. \A q \in Persons : ProfileRow(q) \notin x.rows
    BY <2>2, RowNames
  <2>4. QED
    BY <2>1, <2>3
<1>6. Sound(x)
  BY <1>3, <1>4, <1>5 DEF Sound, Actors, Destined, Loaded, Held, Locking
<1>7. "resend" \in Ops /\ "resend" \notin Locking
  BY DEF Ops, Locking
<1>8. QED
  BY <1>1, <1>2, <1>4, <1>5, <1>6, <1>7, BeginStep

\* An acceptance.  In Playspace nobody is without an organisation, so it is
\* a new user's.
LEMMA AcceptStartStep ==
  ASSUME OrgInv, NEW r \in OrgRequests, NEW i \in Invites, AcceptStart(r, i)
  PROVE  OrgInv'
<1> DEFINE e == invite[i].email
           a == invite[i].account
<1>1. invite[i] # NoInvite /\ UNCHANGED tables
  BY DEF AcceptStart, Begin
<1>2. e \in Persons /\ a \in Accounts /\ account[a] # Nobody
  BY <1>1, MembersAreRows DEF OrgInv, OrgTypeOK, OfExisting
<1>3. ASSUME NEW op \in {"accept new", "accept known"}, op = "accept known" => user[e] = Unlinked,
             NEW rows, rows = {InviteRow(i)} \/ rows = {InviteRow(i), UserRow(e)},
             request' = [request EXCEPT ![r] = Request(op, e, e, a, rows)]
      PROVE  OrgInv'
  <2>1. PICK x : x = Request(op, e, e, a, rows)
    OBVIOUS
  <2>2. x.op = op /\ x.by = e /\ x.about = e /\ x.acct = a /\ x.rows = rows
    BY <2>1 DEF Request
  <2>3. /\ rows \in SUBSET Rows /\ \A q \in Persons : ProfileRow(q) \notin rows
        /\ \A k \in Invites : InviteRow(k) \in rows => k = i
    <3>1. PICK v, w : v = InviteRow(i) /\ w = UserRow(e)
      OBVIOUS
    <3>2. v \in Rows /\ w \in Rows
      BY <1>2, <3>1, RowNames
    <3>3. rows = {v} \/ rows = {v, w}
      BY <1>3, <3>1
    <3>4. \A q \in Persons : ProfileRow(q) # v /\ ProfileRow(q) # w
      BY <3>1, RowNames
    <3>5. \A k \in Invites : InviteRow(k) # w /\ (InviteRow(k) = v => k = i)
      BY <3>1, RowNames
    <3>6. QED
      BY <3>2, <3>3, <3>4, <3>5
  <2>4. op = "accept known" => product # "playspace"
    BY <1>2, <1>3 DEF OrgInv, Addresses
  <2>5. Sound(x)
    BY <1>2, <2>2, <2>3, <2>4 DEF Sound, Actors, Destined, Loaded, Held, Locking
  <2>6. op \in Ops /\ op \notin Locking
    BY DEF Ops, Locking
  <2>7. QED
    BY <1>1, <1>2, <1>3, <2>1, <2>3, <2>5, <2>6, BeginStep
<1>4. QED
  BY <1>3 DEF AcceptStart, Begin

\* The removal of a secondary manager.
LEMMA RemoveStartStep ==
  ASSUME OrgInv, NEW r \in OrgRequests, NEW m \in Persons, NEW p \in Persons, RemoveStart(r, m, p)
  PROVE  OrgInv'
<1> DEFINE a == profile[p].account
<1>1. PICK rows : rows = {ProfileRow(p)}
                  \cup (IF profile[p].linked THEN {UserRow(p)} ELSE {})
                  \cup {InviteRow(i) : i \in {j \in Invites : /\ invite[j].account = a
                                                            /\ invite[j].email = p}}
  OBVIOUS
<1>2. PICK x : x = Request("remove", m, p, a, rows)
  OBVIOUS
<1>3. /\ UNCHANGED tables /\ request' = [request EXCEPT ![r] = x]
      /\ product = "yee" /\ profile[p] # NoProfile /\ ~profile[p].primary
  BY <1>1, <1>2 DEF RemoveStart, Begin
<1>4. x.op = "remove" /\ x.by = m /\ x.about = p /\ x.acct = a /\ x.rows = rows
  BY <1>2 DEF Request
<1>5. a \in Accounts
  BY <1>3, MembersAreRows DEF OrgInv, OrgTypeOK
<1>6. rows \in SUBSET Rows /\ \A q \in Persons : ProfileRow(q) \in rows => q = p
  <2>1. \A row \in rows : \/ row = ProfileRow(p) \/ row = UserRow(p)
                           \/ \E i \in Invites : row = InviteRow(i)
    BY <1>1
  <2>2. \A q \in Persons : ProfileRow(q) \in rows => q = p
    BY <2>1, RowNames
  <2>3. \A row \in rows : row \in Rows
    BY <2>1, RowNames
  <2>4. QED
    BY <2>2, <2>3
<1>7. Sound(x)
  BY <1>3, <1>4, <1>6 DEF Sound, Actors, Destined, Loaded, Held, Locking
<1>8. "remove" \in Ops /\ "remove" \notin Locking
  BY DEF Ops, Locking
<1>9. QED
  BY <1>2, <1>3, <1>5, <1>6, <1>7, <1>8, BeginStep

\* A transfer or a deletion locks its user's row first.
LEMMA LockingStartStep ==
  ASSUME OrgInv, NEW r \in OrgRequests, NEW m \in Persons, NEW s \in Persons,
         TransferStart(r, m, s) \/ DeleteStart(r, m)
  PROVE  OrgInv'
<1>1. UNCHANGED tables /\ product = "playspace" /\ Free(r, UserRow(m))
  BY DEF TransferStart, DeleteStart, Begin
<1>2. ASSUME NEW op \in {"transfer user", "delete user"}, NEW o \in Persons,
             request' = [request EXCEPT ![r] = Request(op, m, o, Nobody, {UserRow(m)})]
      PROVE  OrgInv'
  <2>1. PICK x : x = Request(op, m, o, Nobody, {UserRow(m)})
    OBVIOUS
  <2>2. x.op = op /\ x.by = m /\ x.about = o /\ x.acct = Nobody /\ x.rows = {UserRow(m)}
    BY <2>1 DEF Request
  <2>3. {UserRow(m)} \in SUBSET Rows /\ \A q \in Persons : ProfileRow(q) \notin x.rows
    <3>1. UserRow(m) \in Rows
      BY RowNames
    <3>2. \A row \in x.rows : row = UserRow(m)
      BY <2>2
    <3>3. \A q \in Persons : ProfileRow(q) \notin x.rows
      BY <3>2, RowNames
    <3>4. QED
      BY <3>1, <3>3
  <2>4. Sound(x)
    BY <1>1, <2>2, <2>3 DEF Sound, Actors, Destined, Loaded, Held, Locking
  <2>5. op \in Ops
    BY DEF Ops
  <2>6. QED
    BY <1>1, <1>2, <2>1, <2>3, <2>4, <2>5, BeginStep
<1>3. QED
  BY <1>2 DEF TransferStart, DeleteStart, Begin

\* An open request is what the invariant says.
LEMMA RequestAt ==
  ASSUME OrgInv, NEW r \in OrgRequests
  PROVE  request[r] \in RequestRecords /\ Sound(request[r])
BY DEF OrgInv, OrgTypeOK, RequestRecords, RequestsSound

\* The rows of a request that locks are its own, and so is the next one.
LEMMA OwnRows ==
  ASSUME OrgInv, NEW r \in OrgRequests, request[r].op \in Locking, NEW row, Free(r, row)
  PROVE  \A w \in request[r].rows \cup {row} : Free(r, w)
BY DEF OrgInv, LocksApart

\* The owner's profile is the second lock of a transfer.
LEMMA TransferOwnStep ==
  ASSUME OrgInv, NEW r \in OrgRequests, TransferOwn(r)
  PROVE  OrgInv'
<1>1. PICK x : x = request[r]
  OBVIOUS
<1>2. x \in RequestRecords /\ Sound(x) /\ x.op = "transfer user"
  BY <1>1, RequestAt DEF TransferOwn
<1>3. /\ x.by \in Persons /\ x.about \in Persons /\ product = "playspace" /\ x.rows = {UserRow(x.by)}
  BY <1>2 DEF Sound, Actors, Held, Locking, OrgInv, OrgTypeOK
<1>4. PICK rows : rows = x.rows \cup {ProfileRow(x.by)}
  OBVIOUS
<1>5. PICK a : a = profile[x.by].account
  OBVIOUS
<1>6. PICK y : y = Request("transfer own", x.by, x.about, a, rows)
  OBVIOUS
<1>7. UNCHANGED tables /\ request' = [request EXCEPT ![r] = y] /\ IsPrimary(x.by) /\ Free(r, ProfileRow(x.by))
  BY <1>1, <1>4, <1>5, <1>6 DEF TransferOwn
<1>8. y.op = "transfer own" /\ y.by = x.by /\ y.about = x.about /\ y.acct = a /\ y.rows = rows
  BY <1>6 DEF Request
<1>9. profile[x.by] # NoProfile /\ a \in Accounts
  BY <1>3, <1>5, <1>7, MembersAreRows DEF IsPrimary, OrgInv, OrgTypeOK
<1>10. rows = {UserRow(x.by), ProfileRow(x.by)}
  BY <1>3, <1>4
<1>11. \A q \in Persons : ProfileRow(q) \in rows => q = x.by
  BY <1>10, RowNames
<1>12. Sound(y)
  BY <1>3, <1>5, <1>7, <1>8, <1>9, <1>10, <1>11 DEF Sound, Actors, Destined, Loaded, Held, Locking
<1>13. \A row \in rows : Free(r, row)
  BY <1>1, <1>2, <1>4, <1>7, OwnRows DEF Locking
<1>14. rows \in SUBSET Rows
  BY <1>3, <1>10, RowNames
<1>15. "transfer own" \in Ops
  BY DEF Ops
<1>16. QED
  BY <1>3, <1>6, <1>7, <1>9, <1>12, <1>13, <1>14, <1>15, BeginStep

\* The successor's profile is its third.
LEMMA TransferBothStep ==
  ASSUME OrgInv, NEW r \in OrgRequests, TransferBoth(r)
  PROVE  OrgInv'
<1>1. PICK x : x = request[r]
  OBVIOUS
<1>2. x \in RequestRecords /\ Sound(x) /\ x.op = "transfer own"
  BY <1>1, RequestAt DEF TransferBoth
<1>3. /\ x.by \in Persons /\ x.about \in Persons /\ product = "playspace"
      /\ x.rows = {UserRow(x.by), ProfileRow(x.by)}
      /\ IsPrimary(x.by) /\ profile[x.by].account = x.acct
      /\ profile[x.by] # NoProfile
  BY <1>2, MembersAreRows DEF Sound, Actors, Held, Locking, OrgInv, OrgTypeOK, IsPrimary
<1>4. PICK rows : rows = x.rows \cup {ProfileRow(x.about)}
  OBVIOUS
<1>5. PICK y : y = Request("transfer both", x.by, x.about, x.acct, rows)
  OBVIOUS
<1>6. /\ UNCHANGED tables /\ request' = [request EXCEPT ![r] = y] /\ Free(r, ProfileRow(x.about))
      /\ x.about # x.by /\ profile[x.about].linked /\ profile[x.about].account = x.acct
  BY <1>1, <1>4, <1>5 DEF TransferBoth
<1>7. y.op = "transfer both" /\ y.by = x.by /\ y.about = x.about /\ y.acct = x.acct /\ y.rows = rows
  BY <1>5 DEF Request
<1>8. profile[x.about] # NoProfile
  BY <1>6, MembersAreRows
<1>9. rows = {UserRow(x.by), ProfileRow(x.by), ProfileRow(x.about)}
  BY <1>3, <1>4
<1>10. \A q \in Persons : ProfileRow(q) \in rows => q = x.by \/ q = x.about
  BY <1>9, RowNames
<1>11. Sound(y)
  BY <1>3, <1>6, <1>7, <1>8, <1>9, <1>10 DEF Sound, Actors, Destined, Loaded, Held, Locking
<1>12. \A row \in rows : Free(r, row)
  BY <1>1, <1>2, <1>4, <1>6, OwnRows DEF Locking
<1>13. rows \in SUBSET Rows
  BY <1>3, <1>9, RowNames
<1>14. "transfer both" \in Ops /\ x.acct \in Accounts \cup {Unlinked, Nobody}
  BY <1>2 DEF Ops, RequestRecords
<1>15. QED
  BY <1>3, <1>5, <1>6, <1>11, <1>12, <1>13, <1>14, BeginStep

\* A manager's own profile is the second lock of his deletion.
LEMMA DeleteOwnStep ==
  ASSUME OrgInv, NEW r \in OrgRequests, DeleteOwn(r)
  PROVE  OrgInv'
<1>1. PICK x : x = request[r]
  OBVIOUS
<1>2. x \in RequestRecords /\ Sound(x) /\ x.op = "delete user"
  BY <1>1, RequestAt DEF DeleteOwn
<1>3. x.by \in Persons /\ product = "playspace" /\ x.rows = {UserRow(x.by)}
  BY <1>2 DEF Sound, Actors, Held, Locking, OrgInv, OrgTypeOK
<1>4. PICK rows : rows = x.rows \cup {ProfileRow(x.by)}
  OBVIOUS
<1>5. PICK a : a = profile[x.by].account
  OBVIOUS
<1>6. PICK y : y = Request("delete own", x.by, x.by, a, rows)
  OBVIOUS
<1>7. /\ UNCHANGED tables /\ request' = [request EXCEPT ![r] = y] /\ Free(r, ProfileRow(x.by))
      /\ profile[x.by].linked /\ ~profile[x.by].primary
  BY <1>1, <1>4, <1>5, <1>6 DEF DeleteOwn
<1>8. y.op = "delete own" /\ y.by = x.by /\ y.about = x.by /\ y.acct = a /\ y.rows = rows
  BY <1>6 DEF Request
<1>9. profile[x.by] # NoProfile /\ a \in Accounts
  BY <1>3, <1>5, <1>7, MembersAreRows DEF OrgInv, OrgTypeOK
<1>10. rows = {UserRow(x.by), ProfileRow(x.by)}
  BY <1>3, <1>4
<1>11. \A q \in Persons : ProfileRow(q) \in rows => q = x.by
  BY <1>10, RowNames
<1>12. Sound(y)
  BY <1>3, <1>7, <1>8, <1>9, <1>10, <1>11 DEF Sound, Actors, Destined, Loaded, Held, Locking
<1>13. \A row \in rows : Free(r, row)
  BY <1>1, <1>2, <1>4, <1>7, OwnRows DEF Locking
<1>14. rows \in SUBSET Rows
  BY <1>3, <1>10, RowNames
<1>15. "delete own" \in Ops
  BY DEF Ops
<1>16. QED
  BY <1>3, <1>6, <1>7, <1>9, <1>12, <1>13, <1>14, <1>15, BeginStep

\* A transaction that is rolled back changes no row.
LEMMA RollBackStep ==
  ASSUME OrgInv, NEW r \in OrgRequests, RollBack(r)
  PROVE  OrgInv'
<1>1. Idle.op \notin Locking
  BY DEF Idle, Locking
<1>2. QED
  BY <1>1, IdleIsSound, ReadingStep DEF RollBack

\* Time that passes touches invites only.
LEMMA ExpireStep ==
  ASSUME OrgInv, NEW i \in Invites, Expire(i)
  PROVE  OrgInv'
<1>1. PICK late : late = [invite[i] EXCEPT !.expired = TRUE]
  OBVIOUS
<1>2. late \in InviteRows /\ late.email = invite[i].email /\ late.account = invite[i].account
      /\ invite[i] \in InviteRows
  BY <1>1 DEF Expire, OrgInv, OrgTypeOK, InviteRows
<1>3. invite' = [invite EXCEPT ![i] = late]
  BY <1>1 DEF Expire
<1>4. /\ \A j \in Invites \ {i} : invite'[j] = invite[j]
      /\ invite'[i] = late
      /\ invite' = [j \in Invites |-> invite'[j]]
  BY <1>3 DEF OrgInv, OrgTypeOK
<1>5. account[late.account] # Nobody
  BY <1>2, MembersAreRows DEF OrgInv, OfExisting
<1>6. \A j \in Invites : InviteMoves(j, {})
  BY <1>2, <1>4, <1>5 DEF InviteMoves
<1>7. Quiet({})
  BY <1>4, <1>6 DEF Quiet, Tabled, Expire, ProfileMoves, UserMoves, AccountMoves, OrgInv, OrgTypeOK
<1>8. TablesTyped' /\ OfExisting' /\ MembersHaveTheirProfile' /\ OneAccountableOwner' /\ Addresses'
  BY <1>7, QuietTypes, QuietExisting, QuietMembers, QuietOwners, QuietAddresses DEF OrgInv
<1>9. Keeps({})
  BY <1>7, QuietKeeps DEF OrgInv
<1>10. request' = request /\ profile' = profile
  BY DEF Expire
<1>11. OrgTypeOK'
  BY <1>8, <1>10 DEF OrgInv, OrgTypeOK, TablesTyped
<1>12. LocksApart'
  BY <1>10 DEF OrgInv, LocksApart, Free
<1>13. ASSUME NEW q \in OrgRequests
       PROVE  \E y : y = request'[q] /\ Sound(y)'
  <2>1. PICK x : x = request[q] /\ x \in RequestRecords /\ Sound(x)
    BY RequestAt
  <2>2. x.op \in Ops /\ x.rows = x.rows \ {} /\ x.rows \cap {} = {}
    BY <2>1 DEF RequestRecords
  <2>3. OrgTypeOK
    BY DEF OrgInv
  <2>4. Sound(x)'
    BY <1>9, <1>10, <2>1, <2>2, <2>3, SoundStays
  <2>5. QED
    BY <1>10, <2>1, <2>4
<1>14. RequestsSound'
  BY <1>13 DEF RequestsSound
<1>15. QED
  BY <1>8, <1>11, <1>12, <1>14 DEF OrgInv

-----------------------------------------------------------------------------
(* The steps that write *)

\* A way in to an organisation that exists makes nobody its primary manager.
LEMMA RepairIsQuiet ==
  ASSUME OrgInv, NEW p \in Persons, NEW a \in Accounts, NEW prefer \in BOOLEAN, NEW gone,
         ~Elsewhere(profile[p], a), account[a] # Nobody,
         profile' = [profile EXCEPT ![p] = Ensured(profile[p], a, prefer)],
         product = "playspace" => user'[p] = a
  PROVE  /\ profile' = [q \in Persons |-> profile'[q]]
         /\ \A q \in Persons : ProfileMoves(q, gone)
         /\ profile'[p] \in ProfileRows /\ profile'[p].account = a /\ profile'[p].linked
         /\ \A q \in Persons \ {p} : profile'[q] = profile[q]
<1>1. PICK new : new = Ensured(profile[p], a, prefer)
  OBVIOUS
<1>2. profile[p] \in ProfileRows \cup {NoProfile}
  BY DEF OrgInv, OrgTypeOK
<1>3. HasPrimary(a)
  BY OwnersArePrimary DEF OrgInv
<1>4. new \in ProfileRows /\ new.account = a /\ new.linked /\ (new.primary <=> profile[p].primary)
  BY <1>1, <1>2, <1>3, EnsuredRow
<1>5. /\ profile'[p] = new /\ \A q \in Persons \ {p} : profile'[q] = profile[q]
      /\ profile' = [q \in Persons |-> profile'[q]]
  BY <1>1 DEF OrgInv, OrgTypeOK
<1>6. ProfileMoves(p, gone)
  <2>1. CASE profile[p] = NoProfile
    BY <1>4, <1>5, <2>1, MembersAreRows DEF ProfileMoves
  <2>2. CASE profile[p] # NoProfile
    BY <1>4, <1>5, <2>2 DEF ProfileMoves, Elsewhere
  <2>3. QED
    BY <2>1, <2>2
<1>7. QED
  BY <1>4, <1>5, <1>6 DEF ProfileMoves

\* A new organisation has no manager yet, so its founder becomes the primary.
LEMMA FoundedProfile ==
  ASSUME OrgInv, NEW prof \in ProfileRows \cup {NoProfile}, NEW a \in Accounts, account[a] = Nobody,
         ~Elsewhere(prof, a), prof = NoProfile \/ \E p \in Persons : prof = profile[p]
  PROVE  prof = NoProfile /\ Ensured(prof, a, TRUE) = [account |-> a, linked |-> TRUE, primary |-> TRUE]
<1>1. \A p \in Persons : profile[p].account # a
  BY MembersAreRows DEF OrgInv, OrgTypeOK, OfExisting
<1>2. prof = NoProfile
  BY <1>1 DEF Elsewhere
<1>3. ~HasPrimary(a)
  BY <1>1 DEF HasPrimary
<1>4. QED
  BY <1>2, <1>3 DEF Ensured

\* A first sign-up founds an organisation or joins the one with its address.
LEMMA SignupFoundStep ==
  ASSUME OrgInv, NEW r \in OrgRequests, NEW a \in Accounts,
         request[r].op = "found", SignupFound(r, request[r].by, a)
  PROVE  OrgInv'
<1>1. PICK x : x = request[r]
  OBVIOUS
<1>2. Sound(x) /\ x.op = "found"
  BY <1>1, RequestAt
<1>3. PICK p \in Persons : p = x.by
  BY <1>2 DEF Sound, Actors
<1>4. /\ SignupHome(a, p, x.acct) /\ user[p] = Nobody /\ ~Elsewhere(profile[p], a)
      /\ account' = [account EXCEPT ![a] = p]
      /\ user' = [user EXCEPT ![p] = a]
      /\ profile' = [profile EXCEPT ![p] = Ensured(profile[p], a, TRUE)]
      /\ Commit(r, {}) /\ UNCHANGED <<product, named, invite>>
  BY <1>1, <1>3 DEF SignupFound
<1>5. CASE x.acct = Nobody
  <2>1. account[a] = Nobody
    BY <1>4, <1>5 DEF SignupHome, Founded, NewAccount
  <2>2. profile[p] \in ProfileRows \cup {NoProfile}
    BY DEF OrgInv, OrgTypeOK
  <2>3. /\ profile[p] = NoProfile
        /\ Ensured(profile[p], a, TRUE) = [account |-> a, linked |-> TRUE, primary |-> TRUE]
    BY <1>4, <2>1, <2>2, FoundedProfile
  <2>4. Founding(p, a, {})
    BY <1>4, <2>1, <2>3, MembersAreRows DEF Founding, OrgInv, OrgTypeOK
  <2>5. QED
    BY <1>4, <2>4, FoundingStep
<1>6. CASE x.acct # Nobody
  <2>1. x.acct = a
    BY <1>4, <1>6 DEF SignupHome
  <2>2. product = "playspace" /\ account[a] # Nobody /\ <<a, p>> \in named
    BY <1>2, <1>3, <1>6, <2>1 DEF Sound, Destined
  <2>3. user'[p] = a /\ user' = [q \in Persons |-> user'[q]] /\ \A q \in Persons \ {p} : user'[q] = user[q]
    BY <1>4 DEF OrgInv, OrgTypeOK
  <2>4. /\ account'[a] = p /\ account' = [b \in Accounts |-> account'[b]]
        /\ \A b \in Accounts \ {a} : account'[b] = account[b]
    BY <1>4 DEF OrgInv, OrgTypeOK
  <2>5. /\ profile' = [q \in Persons |-> profile'[q]]
        /\ \A q \in Persons : ProfileMoves(q, {})
        /\ profile'[p] \in ProfileRows /\ profile'[p].account = a /\ profile'[p].linked
        /\ \A q \in Persons \ {p} : profile'[q] = profile[q]
    BY <1>4, <2>2, <2>3, RepairIsQuiet
  <2>6. \A q \in Persons : UserMoves(q, {})
    BY <1>4, <2>2, <2>3, <2>5 DEF UserMoves
  <2>7. \A b \in Accounts : AccountMoves(b)
    BY <1>4, <2>2, <2>4 DEF AccountMoves
  <2>8. Quiet({})
    BY <1>4, <2>3, <2>4, <2>5, <2>6, <2>7 DEF Quiet, Tabled, InviteMoves, OrgInv, OrgTypeOK
  <2>9. profile[p] = NoProfile
    BY <1>4, <2>2, MembersAreRows DEF OrgInv, MembersHaveTheirProfile
  <2>10. Respects(r, {})
    BY <2>5, <2>9 DEF Respects
  <2>11. QED
    BY <1>4, <2>8, <2>10, QuietStep
<1>7. QED
  BY <1>5, <1>6

\* A secondary manager leaves for an organisation of his own; his profile
\* is still a secondary one when the transaction deletes it.
LEMMA SignupSpinOffStep ==
  ASSUME OrgInv, NEW r \in OrgRequests, NEW a \in Accounts,
         request[r].op = "spin off", SignupSpinOff(r, request[r].by, a)
  PROVE  OrgInv'
<1>1. PICK x : x = request[r]
  OBVIOUS
<1>2. Sound(x) /\ x.op = "spin off"
  BY <1>1, RequestAt
<1>3. PICK p \in Persons : p = x.by
  BY <1>2 DEF Sound, Actors
<1>4. PICK left : left = IF ProfileRow(p) \in x.rows THEN NoProfile ELSE profile[p]
  OBVIOUS
<1>5. /\ account[a] = Nobody /\ ~Elsewhere(left, a)
      /\ account' = [account EXCEPT ![a] = p]
      /\ user' = [user EXCEPT ![p] = a]
      /\ profile' = [profile EXCEPT ![p] = Ensured(left, a, TRUE)]
      /\ invite' = [i \in Invites |-> IF InviteRow(i) \in x.rows THEN NoInvite ELSE invite[i]]
      /\ Commit(r, x.rows) /\ UNCHANGED <<product, named>>
  BY <1>1, <1>3, <1>4 DEF SignupSpinOff, Founded, NewAccount
<1>6. product = "yee"
  BY <1>2 DEF Sound, Actors, OrgInv, OrgTypeOK
<1>7. left \in ProfileRows \cup {NoProfile}
  BY <1>4 DEF OrgInv, OrgTypeOK
<1>8. /\ left = NoProfile
      /\ Ensured(left, a, TRUE) = [account |-> a, linked |-> TRUE, primary |-> TRUE]
  BY <1>4, <1>5, <1>7, FoundedProfile
<1>9. profile[p] # NoProfile => ProfileRow(p) \in x.rows
  BY <1>4, <1>8
<1>10. ~profile[p].primary
  BY <1>2, <1>9, MembersAreRows DEF Sound, Loaded
<1>11. \A i \in Invites : invite'[i] = invite[i] \/ (invite'[i] = NoInvite /\ InviteRow(i) \in x.rows)
  BY <1>5
<1>12. invite' = [i \in Invites |-> invite'[i]]
  BY <1>5
<1>13. Founding(p, a, x.rows)
  BY <1>5, <1>6, <1>8, <1>9, <1>10, <1>11, <1>12 DEF Founding
<1>14. QED
  BY <1>5, <1>6, <1>13, FoundingStep

\* A manager without organisation founds one.
LEMMA SignupFoundAgainStep ==
  ASSUME OrgInv, NEW r \in OrgRequests, NEW a \in Accounts,
         request[r].op = "found again", SignupFoundAgain(r, request[r].by, a)
  PROVE  OrgInv'
<1>1. PICK x : x = request[r]
  OBVIOUS
<1>2. Sound(x) /\ x.op = "found again"
  BY <1>1, RequestAt
<1>3. PICK p \in Persons : p = x.by
  BY <1>2 DEF Sound, Actors
<1>4. /\ account[a] = Nobody /\ ~Elsewhere(profile[p], a)
      /\ account' = [account EXCEPT ![a] = p]
      /\ user' = [user EXCEPT ![p] = a]
      /\ profile' = [profile EXCEPT ![p] = Ensured(profile[p], a, TRUE)]
      /\ Commit(r, {}) /\ UNCHANGED <<product, named, invite>>
  BY <1>1, <1>3 DEF SignupFoundAgain, Founded, NewAccount
<1>5. product = "yee"
  BY <1>2 DEF Sound, Actors, OrgInv, OrgTypeOK
<1>6. profile[p] \in ProfileRows \cup {NoProfile}
  BY DEF OrgInv, OrgTypeOK
<1>7. /\ profile[p] = NoProfile
      /\ Ensured(profile[p], a, TRUE) = [account |-> a, linked |-> TRUE, primary |-> TRUE]
  BY <1>4, <1>6, FoundedProfile
<1>8. Founding(p, a, {})
  BY <1>4, <1>5, <1>7, MembersAreRows DEF Founding, OrgInv, OrgTypeOK
<1>9. QED
  BY <1>4, <1>5, <1>8, FoundingStep

\* A member's profile is repaired when he signs in or signs up again.
LEMMA RepairProfileStep ==
  ASSUME OrgInv, NEW r \in OrgRequests,
         \/ request[r].op = "rename" /\ RepairProfile(r, request[r].by, request[r].acct)
         \/ Me(r)
  PROVE  OrgInv'
<1>1. PICK x : x = request[r]
  OBVIOUS
<1>2. Sound(x) /\ x.op \in {"rename", "me"} /\ (x.op = "me" => UserRow(x.by) \in x.rows)
  BY <1>1, RequestAt DEF Me
<1>3. PICK p \in Persons : p = x.by
  BY <1>2 DEF Sound, Actors
<1>4. PICK a \in Accounts : a = x.acct /\ account[a] # Nobody
  BY <1>2 DEF Sound, Destined
<1>5. RepairProfile(r, p, a)
  BY <1>1, <1>3, <1>4 DEF Me
<1>6. product = "playspace" => user[p] = a
  BY <1>2, <1>3, <1>4 DEF Sound, Actors, Loaded
<1>7. /\ profile' = [q \in Persons |-> profile'[q]]
      /\ \A q \in Persons : ProfileMoves(q, {})
      /\ \A q \in Persons \ {p} : profile'[q] = profile[q]
  BY <1>4, <1>5, <1>6, RepairIsQuiet DEF RepairProfile
<1>8. Quiet({})
  BY <1>5, <1>7 DEF Quiet, Tabled, RepairProfile, UserMoves, AccountMoves, InviteMoves, OrgInv, OrgTypeOK
<1>9. Respects(r, {})
  BY <1>5, <1>7 DEF Respects, RepairProfile
<1>10. QED
  BY <1>5, <1>8, <1>9, QuietStep DEF RepairProfile

\* The approval of a manager.
LEMMA ApproveStep ==
  ASSUME OrgInv, NEW r \in OrgRequests, Approve(r)
  PROVE  OrgInv'
<1>1. PICK x : x = request[r]
  OBVIOUS
<1>2. Sound(x) /\ x.op = "approve"
  BY <1>1, RequestAt DEF Approve
<1>3. PICK p \in Persons : p = x.about
  BY <1>2 DEF Sound, Actors
<1>4. PICK a \in Accounts : a = x.acct /\ account[a] # Nobody
  BY <1>2 DEF Sound, Destined
<1>5. /\ ~Elsewhere(profile[p], a)
      /\ user' = [user EXCEPT ![p] = a]
      /\ profile' = [profile EXCEPT ![p] = Ensured(profile[p], a, TRUE)]
      /\ Commit(r, {}) /\ UNCHANGED <<product, account, named, invite>>
  BY <1>1, <1>3, <1>4 DEF Approve
<1>6. product = "yee"
  BY <1>2 DEF Sound, Actors, OrgInv, OrgTypeOK
<1>7. user'[p] = a /\ user' = [q \in Persons |-> user'[q]] /\ \A q \in Persons \ {p} : user'[q] = user[q]
  BY <1>5 DEF OrgInv, OrgTypeOK
<1>8. profile' = [q \in Persons |-> profile'[q]] /\ \A q \in Persons : ProfileMoves(q, {})
  BY <1>4, <1>5, <1>7, RepairIsQuiet
<1>9. \A q \in Persons : UserMoves(q, {})
  BY <1>4, <1>6, <1>7 DEF UserMoves
<1>10. Quiet({})
  BY <1>5, <1>7, <1>8, <1>9 DEF Quiet, Tabled, AccountMoves, InviteMoves, OrgInv, OrgTypeOK
<1>11. Respects(r, {})
  BY <1>6 DEF Respects
<1>12. QED
  BY <1>5, <1>10, <1>11, QuietStep

\* The new address of an organisation is recorded as entered.
LEMMA AddressStep ==
  ASSUME OrgInv, NEW r \in OrgRequests, Address(r)
  PROVE  OrgInv'
<1>1. PICK x : x = request[r]
  OBVIOUS
<1>2. Sound(x) /\ x.op = "address"
  BY <1>1, RequestAt DEF Address
<1>3. PICK e \in Persons : e = x.about
  BY <1>2 DEF Sound, Actors
<1>4. PICK a \in Accounts : a = x.acct /\ account[a] # Nobody
  BY <1>2 DEF Sound, Destined
<1>5. /\ account' = [account EXCEPT ![a] = e] /\ named' = named \cup {<<a, e>>}
      /\ Commit(r, {}) /\ UNCHANGED <<product, user, profile, invite>>
  BY <1>1, <1>3, <1>4 DEF Address
<1>6. /\ account'[a] = e /\ account' = [b \in Accounts |-> account'[b]]
      /\ \A b \in Accounts \ {a} : account'[b] = account[b]
  BY <1>5 DEF OrgInv, OrgTypeOK
<1>7. <<a, e>> \in named' /\ named \subseteq named' /\ named' \subseteq Accounts \X Persons
  BY <1>5 DEF OrgInv, OrgTypeOK
<1>8. \A b \in Accounts : AccountMoves(b)
  BY <1>4, <1>6, <1>7 DEF AccountMoves
<1>9. Quiet({})
  BY <1>5, <1>6, <1>7, <1>8 DEF Quiet, Tabled, ProfileMoves, UserMoves, InviteMoves, OrgInv, OrgTypeOK
<1>10. Respects(r, {})
  BY <1>5 DEF Respects
<1>11. QED
  BY <1>5, <1>9, <1>10, QuietStep

\* An invitation adds at most a placeholder.
LEMMA InviteStep ==
  ASSUME OrgInv, NEW r \in OrgRequests, NEW i \in Invites, Invite(r, i)
  PROVE  OrgInv'
<1>1. PICK x : x = request[r]
  OBVIOUS
<1>2. Sound(x) /\ x.op = "invite"
  BY <1>1, RequestAt DEF Invite
<1>3. x.by \in Persons /\ x.about \in Persons /\ x.acct \in Accounts /\ account[x.acct] # Nobody
  BY <1>2 DEF Sound, Actors, Destined
<1>4. PICK placeholder : placeholder = [account |-> x.acct, linked |-> FALSE, primary |-> FALSE]
  OBVIOUS
<1>5. PICK sent : sent = [account |-> x.acct, email |-> x.about, by |-> x.by,
                          accepted |-> FALSE, expired |-> FALSE]
  OBVIOUS
<1>6. /\ \/ UNCHANGED profile
         \/ /\ product = "yee" /\ profile[x.about] = NoProfile
            /\ profile' = [profile EXCEPT ![x.about] = placeholder]
      /\ invite[i] = NoInvite /\ invite' = [invite EXCEPT ![i] = sent]
      /\ Commit(r, {}) /\ UNCHANGED <<product, user, account, named>>
  BY <1>1, <1>4, <1>5 DEF Invite
<1>7. placeholder \in ProfileRows /\ ~placeholder.primary /\ placeholder.account = x.acct
  BY <1>3, <1>4 DEF ProfileRows
<1>8. sent \in InviteRows /\ sent.account = x.acct
  BY <1>3, <1>5 DEF InviteRows
<1>9. profile' = [p \in Persons |-> profile'[p]] /\ \A p \in Persons : ProfileMoves(p, {})
  <2>1. CASE UNCHANGED profile
    BY <2>1 DEF ProfileMoves, OrgInv, OrgTypeOK
  <2>2. CASE /\ product = "yee" /\ profile[x.about] = NoProfile
             /\ profile' = [profile EXCEPT ![x.about] = placeholder]
    <3>1. /\ profile'[x.about] = placeholder /\ profile' = [p \in Persons |-> profile'[p]]
          /\ \A p \in Persons \ {x.about} : profile'[p] = profile[p]
      BY <1>3, <2>2 DEF OrgInv, OrgTypeOK
    <3>2. QED
      BY <1>3, <1>7, <2>2, <3>1 DEF ProfileMoves
  <2>3. QED
    BY <1>6, <2>1, <2>2
<1>10. /\ invite'[i] = sent /\ invite' = [j \in Invites |-> invite'[j]]
       /\ \A j \in Invites \ {i} : invite'[j] = invite[j]
  BY <1>6 DEF OrgInv, OrgTypeOK
<1>11. \A j \in Invites : InviteMoves(j, {})
  BY <1>3, <1>6, <1>8, <1>10 DEF InviteMoves
<1>12. Quiet({})
  BY <1>6, <1>9, <1>10, <1>11 DEF Quiet, Tabled, UserMoves, AccountMoves, OrgInv, OrgTypeOK
<1>13. Respects(r, {})
  <2>1. \A p \in Persons : profile'[p] # profile[p] => profile[p] = NoProfile
    <3>1. CASE UNCHANGED profile
      BY <3>1
    <3>2. CASE /\ profile[x.about] = NoProfile
               /\ profile' = [profile EXCEPT ![x.about] = placeholder]
      BY <3>2 DEF OrgInv, OrgTypeOK
    <3>3. QED
      BY <1>6, <3>1, <3>2
  <2>2. QED
    BY <2>1 DEF Respects
<1>14. QED
  BY <1>6, <1>12, <1>13, QuietStep

\* A revocation deletes no primary profile, although the placeholder it
\* loaded may have become a member's by then.
LEMMA RevokeStep ==
  ASSUME OrgInv, NEW r \in OrgRequests, Revoke(r)
  PROVE  OrgInv'
<1>1. PICK x : x = request[r]
  OBVIOUS
<1>2. Sound(x) /\ x.op = "revoke"
  BY <1>1, RequestAt DEF Revoke
<1>3. /\ invite' = [i \in Invites |-> IF InviteRow(i) \in x.rows THEN NoInvite ELSE invite[i]]
      /\ profile' = [p \in Persons |-> IF ProfileRow(p) \in x.rows THEN NoProfile ELSE profile[p]]
      /\ Commit(r, x.rows) /\ UNCHANGED <<product, user, account, named>>
  BY <1>1 DEF Revoke
<1>4. /\ \A p \in Persons : ProfileRow(p) \in x.rows => product = "yee" /\ ~profile[p].primary
      /\ \A p \in Persons : UserRow(p) \notin x.rows
  BY <1>2 DEF Sound, Loaded
<1>5. \A p \in Persons : ProfileMoves(p, x.rows)
  BY <1>3, <1>4 DEF ProfileMoves
<1>6. \A i \in Invites : InviteMoves(i, x.rows)
  BY <1>3 DEF InviteMoves
<1>7. Tabled
  BY <1>3 DEF Tabled, OrgInv, OrgTypeOK
<1>8. Quiet(x.rows)
  BY <1>3, <1>5, <1>6, <1>7 DEF Quiet, UserMoves, AccountMoves, OrgInv, OrgTypeOK
<1>9. Respects(r, x.rows)
  BY <1>3, <1>4 DEF Respects
<1>10. QED
  BY <1>3, <1>8, <1>9, QuietStep

\* Another mail brings no invite back that is gone.
LEMMA ResendStep ==
  ASSUME OrgInv, NEW r \in OrgRequests, NEW i \in Invites, Resend(r, i)
  PROVE  OrgInv'
<1>1. PICK again : again = [invite[i] EXCEPT !.expired = FALSE]
  OBVIOUS
<1>2. /\ invite' = [invite EXCEPT ![i] = again]
      /\ Commit(r, {}) /\ UNCHANGED <<product, user, profile, account, named>>
  BY <1>1 DEF Resend
<1>3. ASSUME invite[i] = NoInvite
      PROVE  again = NoInvite
  <2>1. again = [NoInvite EXCEPT !.expired = FALSE]
    BY <1>1, <1>3
  <2>2. PICK none \in [account : {Nobody}, email : {Nobody}, by : {Nobody},
                       accepted : BOOLEAN, expired : BOOLEAN] : none = NoInvite /\ none.expired = FALSE
    <3>1. NoInvite \in [account : {Nobody}, email : {Nobody}, by : {Nobody},
                       accepted : BOOLEAN, expired : BOOLEAN]
      BY DEF NoInvite
    <3>2. NoInvite.expired = FALSE
      BY DEF NoInvite
    <3>3. QED
      BY <3>1, <3>2
  <2>3. [none EXCEPT !.expired = FALSE] = none
    BY <2>2
  <2>4. QED
    BY <2>1, <2>2, <2>3
<1>4. invite[i] # NoInvite =>
        again \in InviteRows /\ again.email = invite[i].email /\ again.account = invite[i].account
  <2>1. invite[i] # NoInvite => invite[i] \in InviteRows
    BY DEF OrgInv, OrgTypeOK
  <2>2. QED
    BY <1>1, <2>1 DEF InviteRows
<1>5. /\ invite'[i] = again /\ invite' = [j \in Invites |-> invite'[j]]
      /\ \A j \in Invites \ {i} : invite'[j] = invite[j]
  BY <1>2 DEF OrgInv, OrgTypeOK
<1>6. \A j \in Invites : InviteMoves(j, {})
  BY <1>3, <1>4, <1>5 DEF InviteMoves, OrgInv, OfExisting
<1>7. Quiet({})
  BY <1>2, <1>5, <1>6 DEF Quiet, Tabled, ProfileMoves, UserMoves, AccountMoves, OrgInv, OrgTypeOK
<1>8. Respects(r, {})
  BY <1>2 DEF Respects
<1>9. QED
  BY <1>2, <1>7, <1>8, QuietStep

\* What the acceptance of an invite has loaded, and where it leads.
LEMMA AcceptedInvite ==
  ASSUME OrgInv, NEW r \in OrgRequests, NEW i \in Invites, Accept(r, i)
  PROVE  \E p \in Persons, a \in Accounts :
           /\ account[a] # Nobody
           /\ invite[i] \in InviteRows /\ invite[i].email = p /\ invite[i].account = a
           /\ product = "yee" \/ (product = "playspace" /\ user[p] = Nobody)
           /\ ~Elsewhere(profile[p], a)
           /\ user' = [user EXCEPT ![p] = a]
           /\ profile' = [profile EXCEPT ![p] = Ensured(profile[p], a, FALSE)]
           /\ invite' = [invite EXCEPT ![i].accepted = TRUE]
           /\ Commit(r, {}) /\ UNCHANGED <<product, account, named>>
<1>1. PICK x : x = request[r]
  OBVIOUS
<1>2. Sound(x) /\ x.op \in {"accept new", "accept known"} /\ InviteRow(i) \in x.rows
  BY <1>1, RequestAt DEF Accept
<1>3. PICK p \in Persons : p = x.by
  BY <1>2 DEF Sound, Actors
<1>4. PICK a \in Accounts : a = x.acct /\ account[a] # Nobody
  BY <1>2 DEF Sound, Destined
<1>5. invite[i].email = p /\ invite[i].account = a
  BY <1>2, <1>3, <1>4 DEF Sound, Loaded
<1>6. invite[i] \in InviteRows
  BY <1>5, MembersAreRows DEF OrgInv, OrgTypeOK
<1>7. product = "yee" \/ (product = "playspace" /\ user[p] = Nobody)
  BY <1>1, <1>2, <1>3 DEF Accept, Sound, Actors, OrgInv, OrgTypeOK
<1>8. /\ ~Elsewhere(profile[p], a)
      /\ user' = [user EXCEPT ![p] = a]
      /\ profile' = [profile EXCEPT ![p] = Ensured(profile[p], a, FALSE)]
      /\ invite' = [invite EXCEPT ![i].accepted = TRUE]
      /\ Commit(r, {}) /\ UNCHANGED <<product, account, named>>
  BY <1>1, <1>3, <1>4 DEF Accept
<1>9. QED
  BY <1>4, <1>5, <1>6, <1>7, <1>8

\* An acceptance adds a secondary manager.
LEMMA AcceptStep ==
  ASSUME OrgInv, NEW r \in OrgRequests, NEW i \in Invites, Accept(r, i)
  PROVE  OrgInv'
<1>1. PICK p \in Persons, a \in Accounts :
           /\ account[a] # Nobody
           /\ invite[i] \in InviteRows /\ invite[i].email = p /\ invite[i].account = a
           /\ product = "yee" \/ (product = "playspace" /\ user[p] = Nobody)
           /\ ~Elsewhere(profile[p], a)
           /\ user' = [user EXCEPT ![p] = a]
           /\ profile' = [profile EXCEPT ![p] = Ensured(profile[p], a, FALSE)]
           /\ invite' = [invite EXCEPT ![i].accepted = TRUE]
           /\ Commit(r, {}) /\ UNCHANGED <<product, account, named>>
  BY AcceptedInvite
<1>2. PICK stamped : stamped = [invite[i] EXCEPT !.accepted = TRUE]
  OBVIOUS
<1>3. stamped \in InviteRows /\ stamped.email = invite[i].email /\ stamped.account = invite[i].account
  BY <1>1, <1>2 DEF InviteRows
<1>4. /\ invite'[i] = stamped /\ invite' = [j \in Invites |-> invite'[j]]
      /\ \A j \in Invites \ {i} : invite'[j] = invite[j]
  BY <1>1, <1>2 DEF OrgInv, OrgTypeOK
<1>5. \A j \in Invites : InviteMoves(j, {})
  BY <1>1, <1>3, <1>4 DEF InviteMoves
<1>6. user'[p] = a /\ user' = [q \in Persons |-> user'[q]] /\ \A q \in Persons \ {p} : user'[q] = user[q]
  BY <1>1 DEF OrgInv, OrgTypeOK
<1>7. /\ profile' = [q \in Persons |-> profile'[q]]
      /\ \A q \in Persons : ProfileMoves(q, {})
      /\ profile'[p] \in ProfileRows /\ profile'[p].account = a /\ profile'[p].linked
      /\ \A q \in Persons \ {p} : profile'[q] = profile[q]
  <2>1. PICK prefer \in BOOLEAN : profile' = [profile EXCEPT ![p] = Ensured(profile[p], a, prefer)]
    BY <1>1
  <2>2. ~Elsewhere(profile[p], a) /\ account[a] # Nobody /\ user'[p] = a
    BY <1>1, <1>6
  <2>3. QED
    BY <2>1, <2>2, RepairIsQuiet
<1>8. \A q \in Persons : UserMoves(q, {})
  BY <1>1, <1>6, <1>7 DEF UserMoves
<1>9. Quiet({})
  BY <1>1, <1>4, <1>5, <1>6, <1>7, <1>8 DEF Quiet, Tabled, AccountMoves, OrgInv, OrgTypeOK
<1>10. product = "playspace" => profile[p] = NoProfile
  BY <1>1, MembersAreRows DEF OrgInv, MembersHaveTheirProfile
<1>11. Respects(r, {})
  BY <1>1, <1>7, <1>10 DEF Respects
<1>12. QED
  BY <1>1, <1>9, <1>11, QuietStep

\* A removal deletes no primary profile: in YEE none changes hands.
LEMMA RemoveManagerStep ==
  ASSUME OrgInv, NEW r \in OrgRequests, RemoveManager(r)
  PROVE  OrgInv'
<1>1. PICK x : x = request[r]
  OBVIOUS
<1>2. Sound(x) /\ x.op = "remove"
  BY <1>1, RequestAt DEF RemoveManager
<1>3. PICK gone : gone = x.rows \ {UserRow(x.about)}
  OBVIOUS
<1>4. /\ invite' = [i \in Invites |-> IF InviteRow(i) \in gone THEN NoInvite ELSE invite[i]]
      /\ profile' = [p \in Persons |-> IF ProfileRow(p) \in gone THEN NoProfile ELSE profile[p]]
      /\ user' = user \/ user' = [user EXCEPT ![x.about] = Unlinked]
      /\ Commit(r, gone) /\ UNCHANGED <<product, account, named>>
  BY <1>1, <1>3 DEF RemoveManager
<1>5. /\ \A p \in Persons : ProfileRow(p) \in gone => ~profile[p].primary
      /\ product = "yee"
  BY <1>2, <1>3 DEF Sound, Actors, Loaded, OrgInv, OrgTypeOK
<1>6. \A p \in Persons : ProfileMoves(p, gone)
  BY <1>4, <1>5 DEF ProfileMoves
<1>7. \A i \in Invites : InviteMoves(i, gone)
  BY <1>4 DEF InviteMoves
<1>8. user' = [p \in Persons |-> user'[p]] /\ \A p \in Persons : user'[p] \in {user[p], Unlinked}
  BY <1>4 DEF OrgInv, OrgTypeOK
<1>9. \A p \in Persons : UserMoves(p, gone)
  BY <1>5, <1>8, MembersAreRows DEF UserMoves
<1>10. Tabled
  BY <1>4, <1>8 DEF Tabled, OrgInv, OrgTypeOK
<1>11. Quiet(gone)
  BY <1>4, <1>6, <1>7, <1>9, <1>10 DEF Quiet, AccountMoves, OrgInv, OrgTypeOK
<1>12. Respects(r, gone)
  BY <1>5 DEF Respects
<1>13. QED
  BY <1>4, <1>11, <1>12, QuietStep

\* The transfer itself; what it read under its locks still holds.
LEMMA TransferStep ==
  ASSUME OrgInv, NEW r \in OrgRequests, Transfer(r)
  PROVE  OrgInv'
<1>1. PICK x : x = request[r]
  OBVIOUS
<1>2. Sound(x) /\ x.op = "transfer both"
  BY <1>1, RequestAt DEF Transfer
<1>3. PICK m \in Persons, s \in Persons : m = x.by /\ s = x.about
  BY <1>2 DEF Sound, Actors
<1>4. PICK a : a = x.acct
  OBVIOUS
<1>5. /\ product = "playspace" /\ m # s
      /\ x.rows = {UserRow(m), ProfileRow(m), ProfileRow(s)}
      /\ IsPrimary(m) /\ profile[m].account = a
      /\ profile[s].linked /\ profile[s].account = a
  BY <1>2, <1>3, <1>4 DEF Sound, Actors, Held, Locking, OrgInv, OrgTypeOK
<1>6. /\ profile' = [profile EXCEPT ![m].primary = FALSE, ![s].primary = TRUE]
      /\ account' = [account EXCEPT ![a] = s]
      /\ Commit(r, {}) /\ UNCHANGED <<product, user, named, invite>>
  BY <1>1, <1>3, <1>4 DEF Transfer
<1>7. a \in Accounts
  BY <1>5, MembersAreRows DEF IsPrimary, OrgInv, OrgTypeOK
<1>8. HandingOver(m, s, a)
  BY <1>5, <1>6 DEF HandingOver
<1>9. Free(r, ProfileRow(m)) /\ Free(r, ProfileRow(s))
  BY <1>1, <1>2, <1>5 DEF OrgInv, LocksApart, Locking
<1>10. QED
  BY <1>5, <1>6, <1>7, <1>8, <1>9, HandingOverStep

\* The deletion of an account deletes no owner's profile.
LEMMA DeleteStep ==
  ASSUME OrgInv, NEW r \in OrgRequests, Delete(r)
  PROVE  OrgInv'
<1>1. PICK x : x = request[r]
  OBVIOUS
<1>2. Sound(x) /\ x.op = "delete own"
  BY <1>1, RequestAt DEF Delete
<1>3. PICK p \in Persons : p = x.by
  BY <1>2 DEF Sound, Actors
<1>4. PICK his : his = {i \in Invites : invite[i].by = p \/ invite[i].email = p}
  OBVIOUS
<1>5. PICK gone : gone = {UserRow(p), ProfileRow(p)} \cup {InviteRow(i) : i \in his}
  OBVIOUS
<1>6. /\ invite' = [i \in Invites |-> IF i \in his THEN NoInvite ELSE invite[i]]
      /\ profile' = [profile EXCEPT ![p] = NoProfile]
      /\ user' = [user EXCEPT ![p] = Nobody]
      /\ Commit(r, gone) /\ UNCHANGED <<product, account, named>>
  BY <1>1, <1>3, <1>4, <1>5 DEF Delete
<1>7. /\ product = "playspace" /\ ~profile[p].primary
      /\ x.rows = {UserRow(p), ProfileRow(p)}
  BY <1>2, <1>3 DEF Sound, Actors, Held, Locking, OrgInv, OrgTypeOK
<1>8. /\ UserRow(p) \in gone /\ ProfileRow(p) \in gone
      /\ \A i \in his : InviteRow(i) \in gone
      /\ \A q \in Persons : ProfileRow(q) \in gone \/ UserRow(q) \in gone => q = p
  <2>1. \A row \in gone : row = UserRow(p) \/ row = ProfileRow(p) \/ \E i \in his : row = InviteRow(i)
    BY <1>5
  <2>2. \A q \in Persons : ProfileRow(q) \in gone \/ UserRow(q) \in gone => q = p
    BY <2>1, RowNames
  <2>3. QED
    BY <1>5, <2>2
<1>9. /\ profile'[p] = NoProfile /\ profile' = [q \in Persons |-> profile'[q]]
      /\ \A q \in Persons \ {p} : profile'[q] = profile[q]
      /\ user'[p] = Nobody /\ user' = [q \in Persons |-> user'[q]]
      /\ \A q \in Persons \ {p} : user'[q] = user[q]
  BY <1>6 DEF OrgInv, OrgTypeOK
<1>10. \A q \in Persons : ProfileMoves(q, gone) /\ UserMoves(q, gone)
  <2>1. ProfileMoves(p, gone)
    BY <1>7, <1>8, <1>9 DEF ProfileMoves
  <2>2. UserMoves(p, gone)
    BY <1>7, <1>8, <1>9 DEF UserMoves
  <2>3. QED
    BY <2>1, <2>2, <1>9 DEF ProfileMoves, UserMoves
<1>11. \A i \in Invites : InviteMoves(i, gone)
  BY <1>6, <1>8 DEF InviteMoves
<1>12. Tabled
  BY <1>6, <1>9 DEF Tabled, OrgInv, OrgTypeOK
<1>13. Quiet(gone)
  BY <1>6, <1>10, <1>11, <1>12 DEF Quiet, AccountMoves, OrgInv, OrgTypeOK
<1>14. Free(r, UserRow(p)) /\ Free(r, ProfileRow(p))
  BY <1>1, <1>2, <1>7 DEF OrgInv, LocksApart, Locking
<1>15. Respects(r, gone)
  BY <1>8, <1>9, <1>14 DEF Respects
<1>16. QED
  BY <1>6, <1>13, <1>15, QuietStep

-----------------------------------------------------------------------------
(* Every behaviour *)

\* An empty database satisfies the invariant.
LEMMA OrgInitHolds ==
  ASSUME OrgInit
  PROVE  OrgInv
<1>1. Idle \in RequestRecords /\ Sound(Idle) /\ Idle.op \notin Locking
  BY IdleIsSound DEF Idle, Locking
<1>2. OrgTypeOK
  BY <1>1 DEF OrgInit, OrgTypeOK, RequestRecords
<1>3. RequestsSound
  BY <1>1 DEF OrgInit, RequestsSound
<1>4. LocksApart
  BY <1>1 DEF OrgInit, LocksApart
<1>5. OfExisting /\ Addresses
  BY MembersAreRows DEF OrgInit, OfExisting, Addresses
<1>6. OneAccountableOwner /\ MembersHaveTheirProfile
  BY MembersAreRows DEF OrgInit, OneAccountableOwner, MembersHaveTheirProfile
<1>7. QED
  BY <1>2, <1>3, <1>4, <1>5, <1>6 DEF OrgInv

\* A step that changes nothing.
LEMMA OrgStutterStep ==
  ASSUME OrgInv, UNCHANGED orgVars
  PROVE  OrgInv'
<1>1. /\ product' = product /\ user' = user /\ profile' = profile /\ account' = account
      /\ named' = named /\ invite' = invite /\ request' = request
  BY DEF orgVars, tables
<1>2. OrgTypeOK' /\ OfExisting' /\ Addresses' /\ OneAccountableOwner' /\ MembersHaveTheirProfile'
  BY <1>1 DEF OrgInv, OrgTypeOK, OfExisting, Addresses, LeadsAs, IsPrimary, OneAccountableOwner,
              MembersHaveTheirProfile
<1>3. LocksApart'
  BY <1>1 DEF OrgInv, LocksApart, Free
<1>4. ASSUME NEW q \in OrgRequests
      PROVE  \E y : y = request'[q] /\ Sound(y)'
  <2>1. PICK y : y = request[q] /\ Sound(y)
    BY RequestAt
  <2>2. Sound(y)'
    BY <1>1, <2>1 DEF Sound, Actors, Destined, Loaded, Held, IsPrimary
  <2>3. QED
    BY <1>1, <2>1, <2>2
<1>5. RequestsSound'
  BY <1>4 DEF RequestsSound
<1>6. QED
  BY <1>2, <1>3, <1>5 DEF OrgInv

\* Every step keeps the invariant.
LEMMA OrgInvariantStep ==
  ASSUME OrgInv, [OrgNext]_orgVars
  PROVE  OrgInv'
<1>1. ASSUME NEW r \in OrgRequests, OrgStart(r)
      PROVE  OrgInv'
  <2>1. CASE \E i \in Invites : AcceptStart(r, i)
    BY <2>1, AcceptStartStep
  <2>2. ASSUME NEW p \in Persons,
               SignupStart(r, p) \/ SignupAgainStart(r, p) \/ MeStart(r, p) \/ DeleteStart(r, p)
        PROVE  OrgInv'
    BY <2>2, SignupStartStep, SignupAgainStartStep, MeStartStep, LockingStartStep
  <2>3. ASSUME NEW p \in Persons, NEW a \in Accounts, ApproveStart(r, p, a)
        PROVE  OrgInv'
    BY <2>3, ApproveStartStep
  <2>4. ASSUME NEW p \in Persons, NEW m \in Persons,
               \/ InviteStart(r, m, p) \/ RemoveStart(r, m, p)
               \/ TransferStart(r, m, p) \/ AddressStart(r, m, p)
        PROVE  OrgInv'
    BY <2>4, InviteStartStep, RemoveStartStep, LockingStartStep, AddressStartStep
  <2>5. ASSUME NEW p \in Persons, NEW i \in Invites, RevokeStart(r, p, i) \/ ResendStart(r, p, i)
        PROVE  OrgInv'
    BY <2>5, RevokeStartStep, ResendStartStep
  <2>6. QED
    BY <1>1, <2>1, <2>2, <2>3, <2>4, <2>5 DEF OrgStart
<1>2. ASSUME NEW r \in OrgRequests, OrgStep(r)
      PROVE  OrgInv'
  <2>1. CASE Signup(r)
    BY <2>1, SignupFoundStep, SignupFoundAgainStep, SignupSpinOffStep, RepairProfileStep DEF Signup
  <2>2. CASE Me(r) \/ Approve(r) \/ Address(r) \/ Revoke(r) \/ RemoveManager(r)
    BY <2>2, RepairProfileStep, ApproveStep, AddressStep, RevokeStep, RemoveManagerStep
  <2>3. CASE \E i \in Invites : Invite(r, i) \/ Resend(r, i) \/ Accept(r, i)
    BY <2>3, InviteStep, ResendStep, AcceptStep
  <2>4. CASE TransferOwn(r) \/ TransferBoth(r) \/ Transfer(r) \/ DeleteOwn(r) \/ Delete(r)
    BY <2>4, TransferOwnStep, TransferBothStep, TransferStep, DeleteOwnStep, DeleteStep
  <2>5. QED
    BY <1>2, <2>1, <2>2, <2>3, <2>4 DEF OrgStep
<1>3. QED
  BY <1>1, <1>2, RollBackStep, ExpireStep, OrgStutterStep DEF OrgNext

\* Every behaviour satisfies the invariant, for any number of persons,
\* organisations, invites and overlapping requests.
THEOREM OrganisationInvariant == OrgSpec => []OrgInv
BY OrgInitHolds, OrgInvariantStep, PTL DEF OrgSpec

\* Users, profiles, organisations, invites and requests have their types.
THEOREM OrganisationTypes == OrgSpec => []OrgTypeOK
<1>1. OrgInv => OrgTypeOK
  BY DEF OrgInv
<1>2. QED
  BY <1>1, OrganisationInvariant, PTL

\* Every organisation has one primary manager, in Playspace a member of it,
\* whatever sign-ups, transfers, removals and deletions overlap
\* (transfer_primary_manager and delete_my_account of the Playspace services,
\* signup and _ensure_manager_profile_for_user of src/app/auth.py).
THEOREM OrganisationsHaveOneOwner == OrgSpec => []OneAccountableOwner
<1>1. OrgInv => OneAccountableOwner
  BY DEF OrgInv
<1>2. QED
  BY <1>1, OrganisationInvariant, PTL

\* A Playspace manager has a profile exactly in the organisation of his user
\* row, on every way in and out.
THEOREM ProfilesFollowMembers == OrgSpec => []MembersHaveTheirProfile
<1>1. OrgInv => MembersHaveTheirProfile
  BY DEF OrgInv
<1>2. QED
  BY <1>1, OrganisationInvariant, PTL

-----------------------------------------------------------------------------
(* Waiting *)

\* Two transactions that lock do not hold a row of the same user.
LEMMA OneLockerPerUser ==
  ASSUME OrgInv, NEW r \in OrgRequests, NEW q \in OrgRequests \ {r},
         request[r].op \in Locking, request[q].op \in Locking
  PROVE  request[r].by # request[q].by
<1>1. Held(request[r]) /\ Held(request[q])
  BY RequestAt DEF Sound
<1>2. UserRow(request[r].by) \in request[r].rows /\ UserRow(request[q].by) \in request[q].rows
  BY <1>1 DEF Held, Locking
<1>3. QED
  BY <1>2 DEF OrgInv, LocksApart, Free

\* A transaction that has only its user's row waits for the profile of that
\* user, which a transfer or a deletion by somebody else does not lock first.
LEMMA FirstLockWaitsForNone ==
  ASSUME OrgInv, NEW r \in OrgRequests, NEW q \in OrgRequests \ {r},
         request[r].op \in {"transfer user", "delete user"},
         request[q].op \in {"transfer user", "delete user", "transfer own"}
  PROVE  ~WaitsFor(r, q)
<1>1. Held(request[q])
  BY RequestAt DEF Sound
<1>2. request[r].by # request[q].by
  BY OneLockerPerUser DEF Locking
<1>3. Wants(r) = {ProfileRow(request[r].by)}
  BY DEF Wants
<1>4. \A row \in request[q].rows : row = UserRow(request[q].by) \/ row = ProfileRow(request[q].by)
  BY <1>1 DEF Held
<1>5. ProfileRow(request[r].by) \notin request[q].rows
  BY <1>2, <1>4, RowNames
<1>6. QED
  BY <1>3, <1>5 DEF WaitsFor

\* Two primary managers of an organisation are the same person.
LEMMA OnePrimary ==
  ASSUME OrgInv, NEW m \in Persons, NEW s \in Persons, IsPrimary(m), IsPrimary(s),
         profile[m].account = profile[s].account
  PROVE  m = s
<1>1. profile[m].account \in Accounts /\ account[profile[m].account] # Nobody
  BY MembersAreRows DEF IsPrimary, OrgInv, OrgTypeOK, OfExisting
<1>2. PICK p \in Persons :
         \A q \in Persons \ {p} : profile[q].account = profile[m].account => ~profile[q].primary
  BY <1>1 DEF OrgInv, OneAccountableOwner
<1>3. QED
  BY <1>2 DEF IsPrimary

\* A transfer that waits for its successor's profile waits for no other
\* transfer that does: the successor is not the organisation's owner.
LEMMA SecondLockWaitsForNone ==
  ASSUME OrgInv, NEW r \in OrgRequests, NEW q \in OrgRequests \ {r}, ~Abroad(r),
         request[r].op = "transfer own", request[q].op = "transfer own"
  PROVE  ~WaitsFor(r, q)
<1>1. PICK x : x = request[r] /\ Sound(x) /\ x.op = "transfer own"
  BY RequestAt
<1>2. PICK y : y = request[q] /\ Sound(y) /\ y.op = "transfer own"
  BY RequestAt
<1>3. x.by # y.by
  BY <1>1, <1>2, OneLockerPerUser DEF Locking
<1>4. /\ x.by \in Persons /\ x.about \in Persons /\ y.by \in Persons
      /\ IsPrimary(x.by) /\ profile[x.by].account = x.acct /\ IsPrimary(y.by)
      /\ y.rows = {UserRow(y.by), ProfileRow(y.by)}
  BY <1>1, <1>2 DEF Sound, Actors, Held
<1>5. profile[x.about].account = x.acct
  BY <1>1 DEF Abroad
<1>6. x.about # y.by
  BY <1>3, <1>4, <1>5, OnePrimary
<1>7. ProfileRow(x.about) \notin y.rows
  BY <1>4, <1>6, RowNames
<1>8. Wants(r) = {ProfileRow(x.about)}
  BY <1>1 DEF Wants
<1>9. QED
  BY <1>2, <1>7, <1>8 DEF WaitsFor

\* In any set of requests one waits for no other: one that wants nothing, or
\* one with a single lock, or a transfer with two, or one of those without
\* locks, of which nobody waits for any.
LEMMA WaitingEnds ==
  ASSUME OrgInv
  PROVE  NoCircularWait
<1>1. SUFFICES ASSUME NEW S \in SUBSET {r \in OrgRequests : ~Abroad(r)}, S # {}
               PROVE  \E r \in S : \A q \in S \ {r} : ~WaitsFor(r, q)
  BY DEF NoCircularWait
<1> DEFINE first == {"transfer user", "delete user"}
           second == {"transfer own"}
           outside == {"me", "rename", "invite"}
<1>2. CASE \E r \in S : request[r].op \notin first \cup second \cup outside
  BY <1>2 DEF WaitsFor, Wants
<1>3. CASE /\ \A r \in S : request[r].op \in first \cup second \cup outside
           /\ \E r \in S : request[r].op \in first
  <2>1. PICK r \in S : request[r].op \in first
    BY <1>3
  <2>2. ASSUME NEW q \in S \ {r}
        PROVE  ~WaitsFor(r, q)
    <3>1. CASE request[q].op \in outside
      BY <3>1 DEF WaitsFor, Locking
    <3>2. CASE request[q].op \in first \cup second
      BY <1>1, <2>1, <3>2, FirstLockWaitsForNone
    <3>3. QED
      BY <1>3, <3>1, <3>2
  <2>3. QED
    BY <2>2
<1>4. CASE /\ \A r \in S : request[r].op \in second \cup outside
           /\ \E r \in S : request[r].op \in second
  <2>1. PICK r \in S : request[r].op \in second
    BY <1>4
  <2>2. ASSUME NEW q \in S \ {r}
        PROVE  ~WaitsFor(r, q)
    <3>1. CASE request[q].op \in outside
      BY <3>1 DEF WaitsFor, Locking
    <3>2. CASE request[q].op \in second
      BY <1>1, <2>1, <3>2, SecondLockWaitsForNone
    <3>3. QED
      BY <1>4, <3>1, <3>2
  <2>3. QED
    BY <2>2
<1>5. CASE \A r \in S : request[r].op \in outside
  BY <1>1, <1>5 DEF WaitsFor, Locking
<1>6. QED
  BY <1>2, <1>3, <1>4, <1>5

\* Transfers within organisations and deletions of accounts take their row
\* locks in an order without circular wait (transfer_primary_manager and
\* delete_my_account, with their SELECT ... FOR UPDATE).
THEOREM TransfersDoNotDeadlock == OrgSpec => []NoCircularWait
<1>1. OrgInv => NoCircularWait
  BY WaitingEnds
<1>2. QED
  BY <1>1, OrganisationInvariant, PTL

-----------------------------------------------------------------------------
(* Entering an organisation *)

\* How a step may bring p into an organisation that exists.
Invited(p) ==
  \/ \E i \in Invites : invite[i].email = p /\ invite[i].account = user'[p]
  \/ \E r \in OrgRequests : request[r].op = "approve" /\ request[r].about = p
  \/ <<user'[p], p>> \in named

\* A sign-up leads into an existing organisation only by an address that its
\* managers entered.
LEMMA SignupEntry ==
  ASSUME OrgInv, NEW r \in OrgRequests, Signup(r), NEW p \in Persons,
         user'[p] # user[p], account[user'[p]] # Nobody
  PROVE  <<user'[p], p>> \in named
<1>1. PICK x : x = request[r]
  OBVIOUS
<1>2. Sound(x)
  BY <1>1, RequestAt
<1>3. PICK a \in Accounts :
         \/ x.op = "found" /\ SignupFound(r, x.by, a)
         \/ x.op = "found again" /\ SignupFoundAgain(r, x.by, a)
         \/ x.op = "spin off" /\ SignupSpinOff(r, x.by, a)
  BY <1>1 DEF Signup, RepairProfile
<1>4. user' = [user EXCEPT ![x.by] = a]
  BY <1>3 DEF SignupFound, SignupFoundAgain, SignupSpinOff
<1>5. p = x.by /\ user'[p] = a
  BY <1>4 DEF OrgInv, OrgTypeOK
<1>6. x.op = "found" /\ x.acct = a /\ x.acct # Nobody
  <2>1. account[a] # Nobody
    BY <1>5
  <2>2. x.op = "found" /\ SignupHome(a, x.by, x.acct)
    BY <1>1, <1>3, <2>1 DEF SignupFound, SignupFoundAgain, SignupSpinOff, Founded, NewAccount
  <2>3. QED
    BY <2>1, <2>2, MembersAreRows DEF SignupHome, Founded, NewAccount
<1>7. QED
  BY <1>2, <1>5, <1>6 DEF Sound, Destined

\* Nor does any other step without an invite to the address or the
\* administrator's approval of the person.
LEMMA EntryStep ==
  ASSUME OrgInv, OrgNext, NEW p \in Persons,
         user'[p] \in Accounts, user'[p] # user[p], account[user'[p]] # Nobody
  PROVE  Invited(p)
<1>1. ASSUME NEW r \in OrgRequests, OrgStart(r) \/ RollBack(r)
      PROVE  user' = user
  BY <1>1 DEF OrgStart, RollBack, Begin, tables, SignupStart, SignupAgainStart, MeStart, DeleteStart,
              ApproveStart, InviteStart, RemoveStart, TransferStart, AddressStart, RevokeStart,
              ResendStart, AcceptStart
<1>2. ASSUME NEW r \in OrgRequests, OrgStep(r)
      PROVE  Invited(p)
  <2>1. CASE Signup(r)
    BY <2>1, SignupEntry DEF Invited
  <2>2. CASE Approve(r)
    <3>1. p = request[r].about /\ request[r].op = "approve"
      BY <2>2 DEF Approve, OrgInv, OrgTypeOK
    <3>2. QED
      BY <3>1 DEF Invited
  <2>3. ASSUME NEW i \in Invites, Accept(r, i)
        PROVE  Invited(p)
    <3>1. PICK q \in Persons, a \in Accounts :
             /\ account[a] # Nobody
             /\ invite[i] \in InviteRows /\ invite[i].email = q /\ invite[i].account = a
             /\ product = "yee" \/ (product = "playspace" /\ user[q] = Nobody)
             /\ ~Elsewhere(profile[q], a)
             /\ user' = [user EXCEPT ![q] = a]
             /\ profile' = [profile EXCEPT ![q] = Ensured(profile[q], a, FALSE)]
             /\ invite' = [invite EXCEPT ![i].accepted = TRUE]
             /\ Commit(r, {}) /\ UNCHANGED <<product, account, named>>
      BY <2>3, AcceptedInvite
    <3>2. p = q /\ user'[p] = a
      BY <3>1 DEF OrgInv, OrgTypeOK
    <3>3. QED
      BY <3>1, <3>2 DEF Invited
  <2>4. CASE RemoveManager(r)
    BY <2>4, MembersAreRows DEF RemoveManager, OrgInv, OrgTypeOK
  <2>5. CASE Delete(r)
    BY <2>5, MembersAreRows DEF Delete, OrgInv, OrgTypeOK
  <2>6. CASE \/ Me(r) \/ Address(r) \/ Revoke(r) \/ \E i \in Invites : Invite(r, i) \/ Resend(r, i)
             \/ TransferOwn(r) \/ TransferBoth(r) \/ Transfer(r) \/ DeleteOwn(r)
    BY <2>6 DEF Me, RepairProfile, Address, Revoke, Invite, Resend, TransferOwn, TransferBoth, Transfer,
                DeleteOwn, tables
  <2>7. QED
    BY <1>2, <2>1, <2>2, <2>3, <2>4, <2>5, <2>6 DEF OrgStep
<1>3. ASSUME NEW i \in Invites, Expire(i)
      PROVE  user' = user
  BY <1>3 DEF Expire
<1>4. QED
  BY <1>1, <1>2, <1>3 DEF OrgNext

\* Nobody enters an organisation that exists but by an invite of it, by the
\* administrator, or by an address its managers entered.
THEOREM NobodyEntersUninvited == OrgSpec => EntryByInvitation
<1>1. ASSUME OrgInv, [OrgNext]_orgVars
      PROVE  [\A p \in Persons :
                 user'[p] \in Accounts /\ user'[p] # user[p] /\ account[user'[p]] # Nobody =>
                   \/ \E i \in Invites : invite[i].email = p /\ invite[i].account = user'[p]
                   \/ \E r \in OrgRequests : request[r].op = "approve" /\ request[r].about = p
                   \/ <<user'[p], p>> \in named]_orgVars
  BY <1>1, EntryStep DEF Invited
<1>2. QED
  BY <1>1, OrganisationInvariant, PTL DEF OrgSpec, EntryByInvitation
=============================================================================
