---------------------------- MODULE Credentials ----------------------------
(***************************************************************************)
(* How an auditor gets a login, a verified e-mail address, an organisation *)
(* and an auditor profile, and how passwords change: the authentication    *)
(* routes, the approval of users and the invitation of auditors in YEE,    *)
(* the access requests, auditor profiles and self service of Playspace,    *)
(* and the start-up job that restores the demonstration accounts of YEE.   *)
(* Managers are in module Organisation.                                    *)
(*                                                                         *)
(* A request that decides on what it read and writes later begins with     *)
(* its first read, may read again, and commits.  The session writes only   *)
(* the attributes that differ from what it loaded (Merged).  A constraint  *)
(* of the tables that would be broken refuses the commit.  Tokens and      *)
(* password hashes are fresh numbers; a link is what was mailed.           *)
(*                                                                         *)
(* Left out: sessions (a token is the user's identity with an expiry) and  *)
(* the counter of failed logins, which nothing here reads; the honeypot,   *)
(* the captcha and rate limits, which only refuse; and a sign-up that      *)
(* turns an unverified auditor into a manager.                             *)
(***************************************************************************)
EXTENDS Naturals, FiniteSets

CONSTANTS
    Emails,         \* addresses of auditors
    Homes,          \* organisations
    Offers,         \* identities for rows of auditor_invites
    Desks,          \* bound: how many requests are in progress at a time
    MaxFresh,       \* bound: how many passwords and tokens are made
    Nowhere         \* no organisation, no row

ASSUME CredentialsAssumption ==
    /\ Nowhere \notin Homes
    /\ Homes # {}
    /\ IsFiniteSet(Emails)
    /\ MaxFresh \in Nat \ {0}

VARIABLES
    side,           \* which product's database this is
    demos,          \* the protected demo addresses, a setting of the service
    login,          \* login[e]: the row of users with that e-mail, or NoLogin
    seat,           \* seat[e]: the auditor profile of that user, or NoSeat
    offer,          \* offer[v]: a row of auditor_invites, or NoOffer
    wanted,         \* who has a row in auditor_access_requests
    mail,           \* the links handed to the mailer, and whether each arrived
    fresh,          \* the last password or token made
    desk            \* desk[r]: the request r has in progress, or NoDesk

credTables == <<login, seat, offer, wanted>>
credVars == <<side, demos, credTables, mail, fresh, desk>>

-----------------------------------------------------------------------------
(* Rows, links and requests *)

NoLogin == [password |-> 0]
Logins == [password : 1..MaxFresh, home : Homes \cup {Nowhere}, verified : BOOLEAN,
           approved : BOOLEAN, completed : BOOLEAN, token : 0..MaxFresh]

NoSeat == [code |-> 0]
Seats == [code : Nat, home : Homes \cup {Nowhere}]

NoOffer == [state |-> "none"]
OfferRows == [state : {"open", "accepted", "expired"}, to : Emails, home : Homes]

Links == [kind : {"verify", "reset"}, to : Emails, key : 1..MaxFresh, arrived : BOOLEAN]

NoDesk == [op |-> "none"]
\* was: the user row as loaded; had: the profile as loaded; key: the token
\* given to the mailer (0 while none was); code: the next free auditor code.
Reading == [op : {"signup", "resend", "reset", "password"}, who : Emails,
            was : Logins \cup {NoLogin}, key : 0..MaxFresh]
Admitting == [op : {"accept", "approve"}, who : Emails, offer : Offers \cup {Nowhere}, home : Homes,
              loaded : BOOLEAN, was : Logins \cup {NoLogin}, had : Seats \cup {NoSeat}, code : Nat]

CredTypeOK ==
    /\ side \in {"yee", "playspace"}
    /\ login \in [Emails -> Logins \cup {NoLogin}]
    /\ seat \in [Emails -> Seats \cup {NoSeat}]
    /\ offer \in [Offers -> OfferRows \cup {NoOffer}]
    /\ wanted \subseteq Emails
    /\ mail \subseteq Links
    /\ demos \subseteq Emails
    /\ fresh \in 0..MaxFresh
    /\ desk \in [Desks -> Reading \cup Admitting \cup {NoDesk}]
    /\ \A e \in Emails : seat[e] # NoSeat => login[e] # NoLogin

-----------------------------------------------------------------------------
(* What the requests share *)

Known(e) == login[e] # NoLogin

\* A flush writes the whole row as the request has it.
Merged_Bug(e, was, new) == new

\* What a flush writes: only the attributes that the request has changed.
Merged(e, was, new) ==
    [f \in DOMAIN new |-> IF new[f] = was[f] THEN login[e][f] ELSE new[f]]

Renewed == fresh < MaxFresh /\ fresh' = fresh + 1

\* _generate_unique_auditor_code: one more than the largest that is read
NextCode == 1 + (CHOOSE n \in {0} \cup {seat[e].code : e \in Emails} :
                    \A e \in Emails : seat[e].code <= n)

\* The tables lack the unique constraint on the user of a profile.
Insertable_Bug(e, c) == \A o \in Emails : seat[o].code # c

\* The profile that a request inserts breaks no unique constraint: neither
\* that of the user nor that of the auditor code.
Insertable(e, c) ==
    /\ seat[e] = NoSeat
    /\ \A o \in Emails : seat[o].code # c

\* A user can be inserted: another insertion of the address would wait for one
\* that has been flushed, and be refused when that commits.
Vacant(e) ==
    /\ ~Known(e)
    /\ \A o \in Desks : desk[o].op = "signup" /\ desk[o].who = e => desk[o].key = 0

Opened(r, request) == desk[r] = NoDesk /\ desk' = [desk EXCEPT ![r] = request]
Closed(r) == desk' = [desk EXCEPT ![r] = NoDesk]

DemoRow == [password |-> 1, home |-> CHOOSE a \in Homes : TRUE, verified |-> TRUE,
            approved |-> TRUE, completed |-> TRUE, token |-> 0]

-----------------------------------------------------------------------------
(* Signing up as an auditor, and verifying the address (YEE) *)

\* A verified address is refused; an unverified one starts again.
EnrolStart(r, e) ==
    /\ side = "yee" /\ e \notin demos
    /\ Known(e) => ~login[e].verified
    /\ Opened(r, [op |-> "signup", who |-> e, was |-> login[e], key |-> 0])
    /\ UNCHANGED <<side, demos, credTables, mail, fresh>>

RemailStart(r, e) ==
    /\ side = "yee" /\ Known(e) /\ ~login[e].verified
    /\ Opened(r, [op |-> "resend", who |-> e, was |-> NoLogin, key |-> 0])
    /\ UNCHANGED <<side, demos, credTables, mail, fresh>>

\* _send_or_log_verification_email mails the link before it commits, and does
\* not look whether send_verification_email, which never raises, has delivered
\* it.  By then a new user has been inserted.
Post(r) ==
    /\ desk[r].op \in {"signup", "resend"} /\ desk[r].key = 0
    /\ desk[r].op = "signup" /\ desk[r].was = NoLogin => Vacant(desk[r].who)
    /\ Renewed
    /\ \E arrived \in BOOLEAN :
        mail' = mail \cup {[kind |-> "verify", to |-> desk[r].who, key |-> fresh', arrived |-> arrived]}
    /\ desk' = [desk EXCEPT ![r].key = fresh']
    /\ UNCHANGED <<side, demos, credTables>>

\* The password is as fresh as the token, so one number stands for both.
Enrolled(d, named) ==
    [password |-> d.key, home |-> IF d.was = NoLogin THEN Nowhere ELSE d.was.home, verified |-> FALSE,
     approved |-> FALSE, completed |-> named, token |-> d.key]

Enrol(r) == \E named \in BOOLEAN :
    LET d == desk[r] IN
    /\ d.op = "signup" /\ d.key # 0
    /\ login' = [login EXCEPT ![d.who] =
            IF d.was = NoLogin THEN Enrolled(d, named) ELSE Merged(d.who, d.was, Enrolled(d, named))]
    /\ Closed(r)
    /\ UNCHANGED <<side, demos, seat, offer, wanted, mail, fresh>>

Remail(r) ==
    LET d == desk[r] IN
    /\ d.op = "resend" /\ d.key # 0
    /\ login' = [login EXCEPT ![d.who].token = d.key]
    /\ Closed(r)
    /\ UNCHANGED <<side, demos, seat, offer, wanted, mail, fresh>>

\* It writes a flag that nothing but a sign-up takes back, so its read and
\* its write are one step.  An expired link does nothing.
VerifyEmail(link) ==
    LET e == link.to IN
    /\ side = "yee" /\ link.kind = "verify" /\ link.arrived
    /\ Known(e) /\ login[e].token = link.key /\ ~login[e].verified
    /\ login' = [login EXCEPT ![e].verified = TRUE]
    /\ UNCHANGED <<side, demos, seat, offer, wanted, mail, fresh, desk>>

-----------------------------------------------------------------------------
(* Passwords and sessions *)

\* The link is bound to the password of the moment and is stored nowhere, so
\* a mail that is not delivered changes nothing.
ForgotPassword(e) ==
    /\ side = "yee" /\ e \notin demos /\ Known(e) /\ login[e].verified
    /\ mail' = mail \cup {[kind |-> "reset", to |-> e, key |-> login[e].password, arrived |-> TRUE]}
    /\ UNCHANGED <<side, demos, credTables, fresh, desk>>

ResetStart(r, link) ==
    LET e == link.to IN
    /\ side = "yee" /\ link.kind = "reset" /\ e \notin demos
    /\ Known(e) /\ login[e].password = link.key
    /\ Opened(r, [op |-> "reset", who |-> e, was |-> NoLogin, key |-> 0])
    /\ UNCHANGED <<side, demos, credTables, mail, fresh>>

\* The current password has been given and agrees.
ChangeStart(r, e) ==
    /\ side = "playspace" /\ Known(e)
    /\ Opened(r, [op |-> "password", who |-> e, was |-> NoLogin, key |-> 0])
    /\ UNCHANGED <<side, demos, credTables, mail, fresh>>

NewPassword(r) ==
    LET d == desk[r] IN
    /\ d.op \in {"reset", "password"}
    /\ Renewed
    /\ login' = [login EXCEPT ![d.who].password = fresh']
    /\ Closed(r)
    /\ UNCHANGED <<side, demos, seat, offer, wanted, mail>>

\* YEE demands verification and approval, Playspace nothing.  The flag is
\* only ever set by these two.
CompleteProfile(e) ==
    /\ Known(e)
    /\ side = "yee" => login[e].verified /\ login[e].approved
    /\ login' = [login EXCEPT ![e].completed = TRUE]
    /\ UNCHANGED <<side, demos, seat, offer, wanted, mail, fresh, desk>>

FinishOnboarding(e) ==
    /\ side = "playspace" /\ seat[e] # NoSeat
    /\ login' = [login EXCEPT ![e].completed = TRUE]
    /\ UNCHANGED <<side, demos, seat, offer, wanted, mail, fresh, desk>>

-----------------------------------------------------------------------------
(* Into an organisation *)

InviteAuditor(v, e, a) ==
    /\ side = "yee" /\ offer[v] = NoOffer
    /\ offer' = [offer EXCEPT ![v] = [state |-> "open", to |-> e, home |-> a]]
    /\ UNCHANGED <<side, demos, login, seat, wanted, mail, fresh, desk>>

OfferExpires(v) ==
    /\ offer[v].state = "open"
    /\ offer' = [offer EXCEPT ![v].state = "expired"]
    /\ UNCHANGED <<side, demos, login, seat, wanted, mail, fresh, desk>>

Admission(op, e, v, a, was, loaded) ==
    [op |-> op, who |-> e, offer |-> v, home |-> a,
     loaded |-> loaded, was |-> was, had |-> NoSeat, code |-> 0]

\* _get_valid_invite; the user and the next code are read afterwards.
TakeUpStart(r, v) ==
    /\ side = "yee" /\ offer[v].state = "open" /\ offer[v].to \notin demos
    /\ Opened(r, Admission("accept", offer[v].to, v, offer[v].home, NoLogin, FALSE))
    /\ UNCHANGED <<side, demos, credTables, mail, fresh>>

\* An administrator chooses the organisation; the profile is read afterwards.
AdmitStart(r, e, a) ==
    /\ side = "yee" /\ Known(e)
    /\ Opened(r, Admission("approve", e, Nowhere, a, login[e], FALSE))
    /\ UNCHANGED <<side, demos, credTables, mail, fresh>>

\* An open invitation names no profile yet, so accepting it never loads one.
LoadRest(r) ==
    LET d == desk[r] IN
    /\ d.op \in {"accept", "approve"} /\ ~d.loaded
    /\ desk' = [desk EXCEPT ![r] = [d EXCEPT
            !.loaded = TRUE,
            !.was = IF d.op = "accept" THEN login[d.who] ELSE @,
            !.had = IF d.op = "approve" THEN seat[d.who] ELSE @,
            !.code = NextCode]]
    /\ UNCHANGED <<side, demos, credTables, mail, fresh>>

\* The whole row is the invitation's: a password, the organisation, all flags.
Joined(d, password) ==
    [password |-> password, home |-> d.home, verified |-> TRUE, approved |-> TRUE, completed |-> FALSE,
     token |-> IF d.was = NoLogin THEN 0 ELSE d.was.token]

TakeUp(r) ==
    LET d == desk[r] IN
    /\ d.op = "accept" /\ d.loaded
    /\ d.was = NoLogin => Vacant(d.who)
    /\ Insertable(d.who, d.code)
    /\ Renewed
    /\ login' = [login EXCEPT ![d.who] =
            IF d.was = NoLogin THEN Joined(d, fresh') ELSE Merged(d.who, d.was, Joined(d, fresh'))]
    /\ seat' = [seat EXCEPT ![d.who] = [code |-> d.code, home |-> d.home]]
    /\ offer' = [offer EXCEPT ![d.offer].state = "accepted"]
    /\ Closed(r)
    /\ UNCHANGED <<side, demos, wanted, mail>>

\* Approval forgets to add the profile that it has not found.
Admit_Bug(r) ==
    LET d == desk[r] IN
    /\ d.op = "approve" /\ d.loaded
    /\ seat' = [seat EXCEPT ![d.who] = IF d.had = NoSeat THEN @ ELSE [@ EXCEPT !.home = d.home]]
    /\ login' = [login EXCEPT ![d.who] =
            Merged(d.who, d.was, [d.was EXCEPT !.home = d.home, !.approved = TRUE])]
    /\ Closed(r)
    /\ UNCHANGED <<side, demos, offer, wanted, mail, fresh>>

Admit(r) ==
    LET d == desk[r] IN
    /\ d.op = "approve" /\ d.loaded
    /\ d.had = NoSeat => Insertable(d.who, d.code)
    /\ seat' = [seat EXCEPT ![d.who] =
            IF d.had = NoSeat THEN [code |-> d.code, home |-> d.home]
            ELSE IF d.had.home = d.home THEN @
            ELSE [@ EXCEPT !.home = d.home]]
    /\ login' = [login EXCEPT ![d.who] =
            Merged(d.who, d.was, [d.was EXCEPT !.home = d.home, !.approved = TRUE])]
    /\ Closed(r)
    /\ UNCHANGED <<side, demos, offer, wanted, mail, fresh>>

\* A constraint refuses the commit, or the request or its server dies:
\* the tables keep nothing of it, the mailer does.
Forgo(r) ==
    /\ desk[r] # NoDesk
    /\ Closed(r)
    /\ UNCHANGED <<side, demos, credTables, mail, fresh>>

-----------------------------------------------------------------------------
(* Playspace: the guards of these are repeated by unique constraints *)

\* The requester gets an account of his own, which is none of Homes.
RequestAccess(e) ==
    /\ side = "playspace" /\ ~Known(e)
    /\ Renewed
    /\ login' = [login EXCEPT ![e] = [password |-> fresh', home |-> Nowhere, verified |-> TRUE,
                                      approved |-> FALSE, completed |-> FALSE, token |-> 0]]
    /\ wanted' = wanted \cup {e}
    /\ UNCHANGED <<side, demos, seat, offer, mail, desk>>

\* An address that any user has is refused.
CreateAuditorProfile(e, a) ==
    /\ side = "playspace" /\ ~Known(e)
    /\ Renewed
    /\ login' = [login EXCEPT ![e] = [password |-> fresh', home |-> a, verified |-> TRUE,
                                      approved |-> TRUE, completed |-> FALSE, token |-> 0]]
    /\ seat' = [seat EXCEPT ![e] = [code |-> fresh', home |-> a]]
    /\ UNCHANGED <<side, demos, offer, wanted, mail, desk>>

\* The user row is deleted and the profile stays.
DeleteAuditorProfile_Bug(e) ==
    /\ side = "playspace" /\ seat[e] # NoSeat
    /\ seat' = [seat EXCEPT ![e].home = Nowhere]
    /\ login' = [login EXCEPT ![e] = NoLogin]
    /\ UNCHANGED <<side, demos, offer, wanted, mail, fresh, desk>>

\* delete_auditor_profile keeps both rows and unlinks them.
DeleteAuditorProfile(e) ==
    /\ side = "playspace" /\ seat[e] # NoSeat
    /\ seat' = [seat EXCEPT ![e].home = Nowhere]
    /\ login' = [login EXCEPT ![e].home = Nowhere]
    /\ UNCHANGED <<side, demos, offer, wanted, mail, fresh, desk>>

-----------------------------------------------------------------------------
(* The demonstration accounts, at start-up and by the operator's script *)

\* Every process of the service does this when it starts.
Reconcile ==
    /\ side = "yee"
    /\ \E e \in demos : login[e] # DemoRow
    /\ login' = [e \in Emails |->
            IF e \notin demos THEN login[e]
            ELSE [DemoRow EXCEPT !.token = IF Known(e) THEN login[e].token ELSE 0]]
    /\ UNCHANGED <<side, demos, seat, offer, wanted, mail, fresh, desk>>

ResetDemoPassword(e) ==
    /\ side = "yee" /\ e \in demos /\ Known(e)
    /\ Renewed
    /\ login' = [login EXCEPT ![e].password = fresh']
    /\ UNCHANGED <<side, demos, seat, offer, wanted, mail, desk>>

-----------------------------------------------------------------------------
(* A database starts empty or with the seeded rows of the demo accounts,   *)
(* whose password is number 1.                                             *)

CredInit ==
    /\ side \in {"yee", "playspace"}
    /\ demos \in SUBSET Emails
    /\ side = "playspace" => demos = {}
    /\ \E seeded \in {{}, demos} :
        /\ login = [e \in Emails |-> IF e \in seeded THEN DemoRow ELSE NoLogin]
        /\ \E code \in [Emails -> 0..Cardinality(demos)] :
            /\ \A e \in seeded : code[e] > 0 /\ \A o \in seeded \ {e} : code[o] # code[e]
            /\ \A e \in Emails \ seeded : code[e] = 0
            /\ seat = [e \in Emails |-> IF e \in seeded THEN [code |-> code[e], home |-> DemoRow.home] ELSE NoSeat]
    /\ offer = [v \in Offers |-> NoOffer]
    /\ wanted = {} /\ mail = {}
    /\ fresh = 1
    /\ desk = [r \in Desks |-> NoDesk]

Serve(r) ==
    \/ \E e \in Emails : EnrolStart(r, e) \/ RemailStart(r, e) \/ ChangeStart(r, e)
    \/ \E link \in mail : ResetStart(r, link)
    \/ \E v \in Offers : TakeUpStart(r, v)
    \/ \E e \in Emails, a \in Homes : AdmitStart(r, e, a)
    \/ Post(r) \/ LoadRest(r)
    \/ Enrol(r) \/ Remail(r) \/ NewPassword(r) \/ TakeUp(r) \/ Admit(r)
    \/ Forgo(r)

CredNext ==
    \/ \E r \in Desks : Serve(r)
    \/ \E link \in mail : VerifyEmail(link)
    \/ \E e \in Emails :
        \/ ForgotPassword(e) \/ CompleteProfile(e) \/ FinishOnboarding(e)
        \/ RequestAccess(e) \/ DeleteAuditorProfile(e)
        \/ \E a \in Homes : CreateAuditorProfile(e, a) \/ \E v \in Offers : InviteAuditor(v, e, a)
    \/ \E v \in Offers : OfferExpires(v)
    \/ Reconcile \/ \E e \in demos : ResetDemoPassword(e)

CredSpec == CredInit /\ [][CredNext]_credVars

-----------------------------------------------------------------------------
(* Properties *)

\* An auditor who is approved, or who is in an organisation, has an auditor
\* profile: approving (approve_user) and accepting an invitation
\* (accept_invite) write the user and the profile in one transaction whatever
\* sign-ups, approvals and acceptances overlap.  A demo account is restored
\* without its profile (reconcile_protected_yee_demo_accounts).
AdmittedHaveAProfile == \A e \in Emails \ demos :
    Known(e) /\ (login[e].approved \/ login[e].home # Nowhere) => seat[e] # NoSeat

\* An invitation admits once: accept_invite takes no lock on the invitation
\* it has checked, and when a second acceptance comes to its end after the
\* first it changes neither the user nor the profile.
InvitationsAreSpentOnce ==
    [][\A r \in Desks :
          /\ desk[r].op = "accept" /\ desk'[r] = NoDesk
          /\ offer[desk[r].offer].state = "accepted"
          => UNCHANGED <<login, seat>>]_credVars

\* Verification is neither taken back nor blocked: who is verified stays so,
\* though sign-ups, approvals and acceptances that loaded him unverified write
\* later (the flush of signup, approve_user and accept_invite names only what
\* they changed); and the token of who is not verified yet is one that
\* _send_or_log_verification_email has given to the mailer for him, so that
\* only a delivery that failed leaves him without a link that works, never a
\* request that died after its mail or was overtaken by another.
VerificationIsKept ==
    [][\A e \in Emails : side = "yee" =>
          /\ Known(e) /\ login[e].verified => login'[e].verified
          /\ Known(e)' /\ ~login'[e].verified => \E arrived \in BOOLEAN :
                [kind |-> "verify", to |-> e, key |-> login'[e].token, arrived |-> arrived] \in mail']_credVars

=============================================================================
