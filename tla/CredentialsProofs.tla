------------------------- MODULE CredentialsProofs -------------------------
(***************************************************************************)
(* What holds of auditors' logins, profiles and invitations for any number *)
(* of addresses, organisations, invitations and overlapping requests.      *)
(*                                                                         *)
(* The invariant CredInv adds to the properties what a request in progress *)
(* rests on (WellFounded).  Moves says what a step may do to each table, in    *)
(* terms of what the properties need (SoundRow for a user's row); the lemmas  *)
(* ...Moves show it action by action, and the lemmas ...Step derive each   *)
(* part of the invariant from Moves alone.                                 *)
(***************************************************************************)
EXTENDS Credentials, FiniteSetTheorems, WellFoundedInduction, TLAPS

-----------------------------------------------------------------------------
(* Numbers *)

\* A set of numbers that is not empty has a least one.
LEMMA LeastNat ==
  ASSUME NEW T, T \subseteq Nat, T # {}
  PROVE  \E n \in T : \A m \in T : n <= m
<1> DEFINE R == OpToRel(<, Nat)
<1>1. IsWellFoundedOn(R, Nat)
  BY NatLessThanWellFounded
<1>2. ASSUME NEW m \in Nat, NEW n \in Nat, m < n
      PROVE  <<m, n>> \in R
  BY <1>2 DEF OpToRel
<1> HIDE DEF R
<1>3. PICK n \in T : \A m \in T : ~ (<<m, n>> \in R)
  BY <1>1, WFMin
<1>4. ASSUME NEW m \in T
      PROVE  n <= m
  <2>1. m \in Nat /\ n \in Nat /\ ~(m < n)
    BY <1>2, <1>3
  <2>2. QED
    BY <2>1
<1>5. QED
  BY <1>4

\* Auditor codes have a bound, as there are finitely many.
CodesBounded == \E b \in Nat : \A e \in Emails : seat[e].code <= b

\* The next auditor code is a number larger than all.
LEMMA NextCodeIsNext ==
  ASSUME CodesBounded, \A e \in Emails : seat[e].code \in Nat
  PROVE  NextCode \in Nat /\ \A e \in Emails : seat[e].code < NextCode
<1> DEFINE T == {b \in Nat : \A e \in Emails : seat[e].code <= b}
           S == {0} \cup {seat[e].code : e \in Emails}
           max == CHOOSE n \in S : \A e \in Emails : seat[e].code <= n
<1>1. PICK n \in T : \A m \in T : n <= m
  <2>1. T \subseteq Nat /\ T # {}
    BY DEF CodesBounded
  <2> HIDE DEF T
  <2>2. QED
    BY <2>1, LeastNat
<1>2. n \in Nat /\ \A e \in Emails : seat[e].code <= n
  BY <1>1
<1>3. n \in S
  <2>1. CASE n = 0
    BY <2>1
  <2>2. CASE n # 0
    <3>1. n - 1 \in Nat /\ n - 1 \notin T
      BY <1>1, <1>2, <2>2
    <3>2. PICK e \in Emails : ~(seat[e].code <= n - 1)
      BY <3>1
    <3>3. seat[e].code = n
      BY <1>2, <3>2
    <3>4. QED
      BY <3>3
  <2>3. QED
    BY <2>1, <2>2
<1> HIDE DEF S
<1>4. max \in S /\ \A e \in Emails : seat[e].code <= max
  BY <1>2, <1>3
<1>5. S \subseteq Nat
  BY DEF S
<1>6. NextCode = 1 + max
  BY DEF NextCode, S
<1> HIDE DEF max
<1>7. QED
  BY <1>4, <1>5, <1>6

-----------------------------------------------------------------------------
(* Rows *)

\* A row is not the mark for its absence.
LEMMA UsersAreRows ==
  /\ \A x \in Logins : x # NoLogin
  /\ \A x \in Seats : x # NoSeat
BY DEF Logins, NoLogin, Seats, NoSeat

\* A user row with one attribute changed.
LEMMA NewlyHashed ==
  ASSUME NEW x \in Logins, NEW n \in 1..MaxFresh
  PROVE  /\ [x EXCEPT !.password = n] \in Logins
         /\ [x EXCEPT !.password = n].home = x.home
         /\ [x EXCEPT !.password = n].verified = x.verified
         /\ [x EXCEPT !.password = n].approved = x.approved
         /\ [x EXCEPT !.password = n].token = x.token
BY DEF Logins

\* A new token changes nothing else of a user.
LEMMA NewlyMailed ==
  ASSUME NEW x \in Logins, NEW n \in 1..MaxFresh
  PROVE  /\ [x EXCEPT !.token = n] \in Logins
         /\ [x EXCEPT !.token = n].home = x.home
         /\ [x EXCEPT !.token = n].verified = x.verified
         /\ [x EXCEPT !.token = n].approved = x.approved
         /\ [x EXCEPT !.token = n].token = n
<1>1. n \in 0..MaxFresh
  BY CredentialsAssumption
<1>2. QED
  BY <1>1 DEF Logins

\* Verifying a user changes nothing else of him.
LEMMA NewlyVerified ==
  ASSUME NEW x \in Logins
  PROVE  /\ [x EXCEPT !.verified = TRUE] \in Logins
         /\ [x EXCEPT !.verified = TRUE].home = x.home
         /\ [x EXCEPT !.verified = TRUE].verified = TRUE
         /\ [x EXCEPT !.verified = TRUE].approved = x.approved
         /\ [x EXCEPT !.verified = TRUE].token = x.token
BY DEF Logins

\* Completing a user's profile changes nothing else of him.
LEMMA NewlyCompleted ==
  ASSUME NEW x \in Logins
  PROVE  /\ [x EXCEPT !.completed = TRUE] \in Logins
         /\ [x EXCEPT !.completed = TRUE].home = x.home
         /\ [x EXCEPT !.completed = TRUE].verified = x.verified
         /\ [x EXCEPT !.completed = TRUE].approved = x.approved
         /\ [x EXCEPT !.completed = TRUE].token = x.token
BY DEF Logins

\* Losing the organisation changes nothing else of a user.
LEMMA NewlyHomeless ==
  ASSUME NEW x \in Logins
  PROVE  /\ [x EXCEPT !.home = Nowhere] \in Logins
         /\ [x EXCEPT !.home = Nowhere].home = Nowhere
         /\ [x EXCEPT !.home = Nowhere].verified = x.verified
         /\ [x EXCEPT !.home = Nowhere].approved = x.approved
         /\ [x EXCEPT !.home = Nowhere].token = x.token
BY DEF Logins

\* What a flush leaves of a row: each attribute is as it is or as it was changed.
LEMMA MergedRow ==
  ASSUME NEW e \in Emails, login[e] \in Logins, NEW was \in Logins, NEW new \in Logins
  PROVE  /\ Merged(e, was, new) \in Logins
         /\ Merged(e, was, new).home = IF new.home = was.home THEN login[e].home ELSE new.home
         /\ Merged(e, was, new).verified = IF new.verified = was.verified THEN login[e].verified ELSE new.verified
         /\ Merged(e, was, new).approved = IF new.approved = was.approved THEN login[e].approved ELSE new.approved
         /\ Merged(e, was, new).token = IF new.token = was.token THEN login[e].token ELSE new.token
<1> DEFINE m == Merged(e, was, new)
<1>1. DOMAIN new = {"password", "home", "verified", "approved", "completed", "token"}
  BY DEF Logins
<1>2. m = [f \in {"password", "home", "verified", "approved", "completed", "token"} |->
              IF new[f] = was[f] THEN login[e][f] ELSE new[f]]
  BY <1>1 DEF Merged
<1> HIDE DEF m
<1>3. m = [password |-> IF new.password = was.password THEN login[e].password ELSE new.password,
           home |-> IF new.home = was.home THEN login[e].home ELSE new.home,
           verified |-> IF new.verified = was.verified THEN login[e].verified ELSE new.verified,
           approved |-> IF new.approved = was.approved THEN login[e].approved ELSE new.approved,
           completed |-> IF new.completed = was.completed THEN login[e].completed ELSE new.completed,
           token |-> IF new.token = was.token THEN login[e].token ELSE new.token]
  BY <1>2
<1>4. /\ (IF new.password = was.password THEN login[e].password ELSE new.password) \in 1..MaxFresh
      /\ (IF new.home = was.home THEN login[e].home ELSE new.home) \in Homes \cup {Nowhere}
      /\ (IF new.verified = was.verified THEN login[e].verified ELSE new.verified) \in BOOLEAN
      /\ (IF new.approved = was.approved THEN login[e].approved ELSE new.approved) \in BOOLEAN
      /\ (IF new.completed = was.completed THEN login[e].completed ELSE new.completed) \in BOOLEAN
      /\ (IF new.token = was.token THEN login[e].token ELSE new.token) \in 0..MaxFresh
  BY DEF Logins
<1>5. QED
  BY <1>3, <1>4 DEF Logins, m

\* The requests of each kind.
LEMMA DeskShapes ==
  ASSUME NEW x \in Reading \cup Admitting \cup {NoDesk}
  PROVE  /\ x.op \in {"none", "signup", "resend", "reset", "password", "accept", "approve"}
         /\ x = NoDesk <=> x.op = "none"
         /\ x.op \in {"signup", "resend", "reset", "password"} => x \in Reading
         /\ x.op \in {"accept", "approve"} => x \in Admitting
BY DEF Reading, Admitting, NoDesk

\* The row that a sign-up writes and the row that an invitation writes.
LEMMA EnrolledRow ==
  ASSUME NEW d \in Reading, d.key # 0, NEW named \in BOOLEAN
  PROVE  /\ Enrolled(d, named) \in Logins
         /\ Enrolled(d, named).home = IF d.was = NoLogin THEN Nowhere ELSE d.was.home
         /\ ~Enrolled(d, named).verified
         /\ ~Enrolled(d, named).approved
         /\ Enrolled(d, named).token = d.key
<1>1. d.key \in 1..MaxFresh /\ d.key \in 0..MaxFresh
  BY CredentialsAssumption DEF Reading
<1>2. (IF d.was = NoLogin THEN Nowhere ELSE d.was.home) \in Homes \cup {Nowhere}
  BY DEF Reading, Logins
<1>3. QED
  BY <1>1, <1>2 DEF Enrolled, Logins

\* A user who accepts an invitation is verified and approved and belongs to its organisation.
LEMMA JoinedRow ==
  ASSUME NEW d \in Admitting, NEW password \in 1..MaxFresh
  PROVE  /\ Joined(d, password) \in Logins
         /\ Joined(d, password).verified
         /\ Joined(d, password).approved
<1>1. (IF d.was = NoLogin THEN 0 ELSE d.was.token) \in 0..MaxFresh
  BY CredentialsAssumption DEF Admitting, Logins
<1>2. d.home \in Homes \cup {Nowhere}
  BY DEF Admitting
<1>3. QED
  BY <1>1, <1>2 DEF Joined, Logins

\* The row that an approval writes.
LEMMA ApprovedRow ==
  ASSUME NEW x \in Logins, NEW a \in Homes
  PROVE  /\ [x EXCEPT !.home = a, !.approved = TRUE] \in Logins
         /\ [x EXCEPT !.home = a, !.approved = TRUE].verified = x.verified
         /\ [x EXCEPT !.home = a, !.approved = TRUE].token = x.token
BY DEF Logins

\* The row of a demonstration account.
LEMMA DemoRows ==
  /\ DemoRow \in Logins /\ DemoRow.home \in Homes
  /\ \A n \in 0..MaxFresh : /\ [DemoRow EXCEPT !.token = n] \in Logins
                            /\ [DemoRow EXCEPT !.token = n].verified
<1>1. (CHOOSE a \in Homes : TRUE) \in Homes
  BY CredentialsAssumption
<1>2. 1 \in 1..MaxFresh /\ 0 \in 0..MaxFresh
  BY CredentialsAssumption
<1>3. DemoRow \in Logins /\ DemoRow.home \in Homes /\ DemoRow.verified
  BY <1>1, <1>2 DEF DemoRow, Logins
<1> HIDE DEF DemoRow
<1>4. \A n \in 0..MaxFresh : /\ [DemoRow EXCEPT !.token = n] \in Logins
                             /\ [DemoRow EXCEPT !.token = n].verified = DemoRow.verified
  BY <1>3 DEF Logins
<1>5. QED
  BY <1>3, <1>4

-----------------------------------------------------------------------------
(* The invariant *)

\* The link of a token was given to the mailer for e.
Handed(e, key) ==
  \E arrived \in BOOLEAN : [kind |-> "verify", to |-> e, key |-> key, arrived |-> arrived] \in mail

\* A sign-up that has inserted its user and has not committed.
Inserting(d) == d.op = "signup" /\ d.was = NoLogin /\ d.key # 0

\* Nobody has the address that a sign-up inserts, and no other inserts it.
InsertionsAreAlone ==
  \A r \in Desks : Inserting(desk[r]) =>
      /\ ~Known(desk[r].who)
      /\ \A o \in Desks \ {r} : Inserting(desk[o]) => desk[o].who # desk[r].who

\* What a request d in progress rests on: the rows that it has found are still
\* there, a sign-up found no verified user, the link of the token that it is
\* to write was given to the mailer, it is of YEE and not for a demo account, and the invitation that it accepts is its own.
WellFounded(d) ==
  /\ d \in Reading \cup Admitting \cup {NoDesk}
  /\ d.op \in {"resend", "reset", "password", "approve"} => Known(d.who)
  /\ d.op \in {"signup", "accept", "approve"} => (d.was # NoLogin => Known(d.who))
  /\ d.op = "approve" => d.was # NoLogin /\ (d.had # NoSeat => seat[d.who] # NoSeat)
  /\ d.op = "signup" => (d.was # NoLogin => ~d.was.verified) /\ side = "yee" /\ d.who \notin demos
  /\ d.op \in {"signup", "resend"} => (d.key # 0 => Handed(d.who, d.key))
  /\ d.op = "accept" =>
       d.offer \in Offers /\ offer[d.offer] # NoOffer /\ offer[d.offer].to = d.who

RequestsFounded == \A r \in Desks : WellFounded(desk[r])

\* Who has accepted an invitation has a profile.
AcceptedHaveSeats == \A v \in Offers : offer[v].state = "accepted" => seat[offer[v].to] # NoSeat

\* The token of a user who is not verified was given to the mailer for him.
UnverifiedWereMailed == \A e \in Emails :
  side = "yee" /\ Known(e) /\ ~login[e].verified => Handed(e, login[e].token)

CredInv ==
  /\ CredTypeOK /\ CodesBounded
  /\ RequestsFounded /\ InsertionsAreAlone /\ AcceptedHaveSeats
  /\ AdmittedHaveAProfile /\ UnverifiedWereMailed

-----------------------------------------------------------------------------
(* What a step does to each table *)

\* The row y that a step writes for a user: it does not take verification back,
\* lacks it only if the token was mailed or stays, and it admits only whom a row admitted or who
\* has a profile now.
SoundRow(e, y) ==
  /\ y \in Logins
  /\ login[e] # NoLogin /\ login[e].verified => y.verified
  /\ \/ y.verified \/ side = "playspace" \/ Handed(e, y.token)
     \/ login[e] # NoLogin /\ ~login[e].verified /\ y.token = login[e].token
  /\ \/ e \in demos \/ seat'[e] # NoSeat
     \/ ~y.approved /\ y.home = Nowhere
     \/ /\ login[e] # NoLogin
        /\ y.approved => login[e].approved
        /\ y.home \in {login[e].home, Nowhere}

UsersMove ==
  /\ login' \in [Emails -> Logins \cup {NoLogin}]
  /\ \A e \in Emails : login'[e] = login[e] \/ SoundRow(e, login'[e])

SeatsMove ==
  /\ seat' \in [Emails -> Seats \cup {NoSeat}]
  /\ \A e \in Emails : seat[e] # NoSeat => seat'[e] # NoSeat
  /\ \A e \in Emails : seat'[e] # NoSeat => login'[e] # NoLogin
  /\ \E n \in Nat : \A e \in Emails : seat'[e].code \in {seat[e].code, n}

OffersMove ==
  /\ offer' \in [Offers -> OfferRows \cup {NoOffer}]
  /\ \A v \in Offers : offer[v] # NoOffer => offer'[v] # NoOffer /\ offer'[v].to = offer[v].to
  /\ \A v \in Offers : offer'[v].state = "accepted" =>
        offer[v].state = "accepted" \/ seat'[offer'[v].to] # NoSeat

\* The links and the numbers, and what never changes.
RestMoves ==
  /\ mail \subseteq mail' /\ mail' \subseteq Links
  /\ wanted' \subseteq Emails /\ fresh' \in 0..MaxFresh
  /\ side' = side /\ demos' = demos

\* One request begins, reads on or ends, or none does.
DesksMove ==
  \/ desk' = desk
  \/ \E r \in Desks : desk' = [desk EXCEPT ![r] = NoDesk]
  \/ \E r \in Desks, d \in Reading \cup Admitting :
        desk' = [desk EXCEPT ![r] = d] /\ WellFounded(d)'

Moves == UsersMove /\ SeatsMove /\ OffersMove /\ RestMoves /\ DesksMove

\* Tables that stay move in every sense above.
LEMMA StayingMoves ==
  ASSUME CredTypeOK
  PROVE  /\ login' = login => UsersMove
         /\ seat' = seat /\ UsersMove => SeatsMove
         /\ offer' = offer => OffersMove
         /\ UNCHANGED <<side, demos, wanted, mail>> /\ fresh' \in 0..MaxFresh => RestMoves
<1>1. ASSUME seat' = seat, UsersMove
      PROVE  SeatsMove
  <2>1. \A e \in Emails : seat'[e] # NoSeat => login'[e] # NoLogin
    BY <1>1, UsersAreRows DEF CredTypeOK, UsersMove, SoundRow
  <2>2. 0 \in Nat /\ \A e \in Emails : seat'[e].code \in {seat[e].code, 0}
    BY <1>1
  <2>3. \E n \in Nat : \A e \in Emails : seat'[e].code \in {seat[e].code, n}
    BY <2>2
  <2>4. QED
    BY <1>1, <2>1, <2>3 DEF SeatsMove, CredTypeOK
<1>2. login' = login => UsersMove
  BY DEF UsersMove, CredTypeOK
<1>3. offer' = offer => OffersMove
  BY DEF OffersMove, CredTypeOK
<1>4. UNCHANGED <<side, demos, wanted, mail>> /\ fresh' \in 0..MaxFresh => RestMoves
  BY DEF RestMoves, CredTypeOK
<1>5. QED
  BY <1>1, <1>2, <1>3, <1>4

\* One user's row changes.
LEMMA OneUserMoves ==
  ASSUME CredTypeOK, NEW e \in Emails, NEW y, login' = [login EXCEPT ![e] = y], SoundRow(e, y)
  PROVE  UsersMove
<1>1. login'[e] = y /\ \A o \in Emails \ {e} : login'[o] = login[o]
  BY DEF CredTypeOK
<1>2. login' \in [Emails -> Logins \cup {NoLogin}]
  BY DEF CredTypeOK, SoundRow
<1>3. QED
  BY <1>1, <1>2 DEF UsersMove

\* The number that a password or token gets.
LEMMA RenewedNumber ==
  ASSUME CredTypeOK, Renewed
  PROVE  fresh' \in 1..MaxFresh /\ fresh' \in 0..MaxFresh
BY CredentialsAssumption DEF CredTypeOK, Renewed

\* The step verifies a user, takes his organisation away, or changes only his
\* password or the flag of his profile.
Touched(e, y) ==
  /\ login[e] \in Logins /\ y \in Logins
  /\ login' = [login EXCEPT ![e] = y]
  /\ y.approved = login[e].approved /\ y.home \in {login[e].home, Nowhere}
  /\ login[e].verified => y.verified
  /\ y.token = login[e].token

\* Such a step keeps what the users' rows promise.
LEMMA TouchedMoves ==
  ASSUME CredTypeOK, NEW e \in Emails, NEW y \in Logins, Touched(e, y)
  PROVE  UsersMove
<1>1. login[e] \in Logins /\ login[e] # NoLogin
  BY UsersAreRows DEF Touched
<1>2. y.approved => login[e].approved
  BY DEF Touched
<1>3. y.verified \/ ~login[e].verified
  BY DEF Touched
<1>4. SoundRow(e, y)
  BY <1>1, <1>2, <1>3 DEF SoundRow, Touched
<1>5. QED
  BY <1>4, OneUserMoves DEF Touched

\* The actions of that kind.
LEMMA TouchedEffect ==
  ASSUME CredTypeOK, RequestsFounded,
         \/ \E link \in mail : VerifyEmail(link)
         \/ \E r \in Desks : NewPassword(r)
         \/ \E e \in Emails : CompleteProfile(e) \/ FinishOnboarding(e) \/ DeleteAuditorProfile(e)
         \/ \E e \in demos : ResetDemoPassword(e)
  PROVE  /\ \E e \in Emails, y \in Logins : Touched(e, y)
         /\ UNCHANGED <<side, demos, offer, wanted, mail>>
<1>1. \A e \in Emails : login[e] # NoLogin => login[e] \in Logins
  BY DEF CredTypeOK
<1>2. fresh' = fresh + 1 /\ fresh < MaxFresh => fresh' \in 1..MaxFresh
  BY CredentialsAssumption DEF CredTypeOK
<1>3. ASSUME NEW link \in mail, VerifyEmail(link)
      PROVE  /\ \E e \in Emails, y \in Logins : Touched(e, y)
             /\ UNCHANGED <<side, demos, offer, wanted, mail>>
  <2> DEFINE e == link.to
             y == [login[e] EXCEPT !.verified = TRUE]
  <2>1. e \in Emails
    BY DEF CredTypeOK, Links
  <2>2. login[e] \in Logins /\ login' = [login EXCEPT ![e] = y]
    BY <1>1, <1>3, <2>1 DEF VerifyEmail, Known
  <2>3. Touched(e, y)
    BY <2>2, NewlyVerified DEF Touched
  <2>4. QED
    BY <1>3, <2>1, <2>2, <2>3 DEF VerifyEmail, Touched
<1>4. ASSUME NEW r \in Desks, NewPassword(r)
      PROVE  /\ \E e \in Emails, y \in Logins : Touched(e, y)
             /\ UNCHANGED <<side, demos, offer, wanted, mail>>
  <2>0. PICK n \in 1..MaxFresh : n = fresh'
    BY <1>2, <1>4 DEF NewPassword, Renewed
  <2> DEFINE e == desk[r].who
             y == [login[e] EXCEPT !.password = n]
  <2>1. desk[r].op \in {"reset", "password"} /\ login' = [login EXCEPT ![e] = y]
    BY <1>4, <2>0 DEF NewPassword
  <2>2. e \in Emails
    BY <2>1, DeskShapes DEF CredTypeOK, Reading
  <2>3. login[e] \in Logins
    BY <1>1, <2>1, <2>2 DEF RequestsFounded, WellFounded, Known
  <2>4. Touched(e, y)
    BY <2>1, <2>3, NewlyHashed DEF Touched
  <2>5. QED
    BY <1>4, <2>2, <2>4 DEF NewPassword, Touched
<1>5. ASSUME NEW e \in Emails, CompleteProfile(e) \/ FinishOnboarding(e)
      PROVE  /\ \E o \in Emails, y \in Logins : Touched(o, y)
             /\ UNCHANGED <<side, demos, offer, wanted, mail>>
  <2> DEFINE y == [login[e] EXCEPT !.completed = TRUE]
  <2>1. login[e] \in Logins /\ login' = [login EXCEPT ![e] = y]
    BY <1>1, <1>5 DEF CompleteProfile, FinishOnboarding, Known, CredTypeOK
  <2>2. Touched(e, y)
    BY <2>1, NewlyCompleted DEF Touched
  <2>3. QED
    BY <1>5, <2>2 DEF CompleteProfile, FinishOnboarding, Touched
<1>6. ASSUME NEW e \in Emails, DeleteAuditorProfile(e)
      PROVE  /\ \E o \in Emails, y \in Logins : Touched(o, y)
             /\ UNCHANGED <<side, demos, offer, wanted, mail>>
  <2> DEFINE y == [login[e] EXCEPT !.home = Nowhere]
  <2>1. login[e] \in Logins /\ login' = [login EXCEPT ![e] = y]
    BY <1>1, <1>6 DEF DeleteAuditorProfile, CredTypeOK
  <2>2. Touched(e, y)
    BY <2>1, NewlyHomeless DEF Touched
  <2>3. QED
    BY <1>6, <2>2 DEF DeleteAuditorProfile, Touched
<1>7. ASSUME NEW e \in demos, ResetDemoPassword(e)
      PROVE  /\ \E o \in Emails, y \in Logins : Touched(o, y)
             /\ UNCHANGED <<side, demos, offer, wanted, mail>>
  <2>0. PICK n \in 1..MaxFresh : n = fresh'
    BY <1>2, <1>7 DEF ResetDemoPassword, Renewed
  <2> DEFINE y == [login[e] EXCEPT !.password = n]
  <2>1. login[e] \in Logins /\ login' = [login EXCEPT ![e] = y] /\ e \in Emails
    BY <1>1, <1>7, <2>0 DEF ResetDemoPassword, Known, CredTypeOK
  <2>2. Touched(e, y)
    BY <2>1, NewlyHashed DEF Touched
  <2>3. QED
    BY <1>7, <2>1, <2>2 DEF ResetDemoPassword, Touched
<1>8. QED
  BY <1>3, <1>4, <1>5, <1>6, <1>7

\* The requests that end leave the others as they are.
LEMMA ClosedMoves ==
  ASSUME \/ desk' = desk
         \/ \E r \in Desks : Closed(r)
  PROVE  DesksMove
BY DEF DesksMove, Closed

\* The actions of that kind are moves.
LEMMA TouchesMove ==
  ASSUME CredTypeOK, RequestsFounded,
         \/ \E link \in mail : VerifyEmail(link)
         \/ \E r \in Desks : NewPassword(r)
         \/ \E e \in Emails : CompleteProfile(e) \/ FinishOnboarding(e) \/ DeleteAuditorProfile(e)
         \/ \E e \in demos : ResetDemoPassword(e)
  PROVE  Moves
<1>1. PICK e \in Emails, y \in Logins : Touched(e, y)
  BY TouchedEffect
<1>2. UsersMove
  BY <1>1, TouchedMoves
<1>3. UNCHANGED <<side, demos, offer, wanted, mail>>
  BY TouchedEffect
<1>4. fresh' \in 0..MaxFresh
  BY RenewedNumber DEF CredTypeOK, VerifyEmail, NewPassword, CompleteProfile, FinishOnboarding,
     DeleteAuditorProfile, ResetDemoPassword
<1>5. DesksMove
  BY ClosedMoves DEF VerifyEmail, NewPassword, CompleteProfile, FinishOnboarding,
     DeleteAuditorProfile, ResetDemoPassword
<1>6. SeatsMove
  <2>1. CASE seat' = seat
    BY <1>2, <2>1, StayingMoves
  <2>2. ASSUME NEW o \in Emails, seat[o] # NoSeat, seat' = [seat EXCEPT ![o].home = Nowhere]
        PROVE  SeatsMove
    <3>1. [seat[o] EXCEPT !.home = Nowhere] \in Seats /\ [seat[o] EXCEPT !.home = Nowhere].code = seat[o].code
      BY <2>2 DEF CredTypeOK, Seats
    <3>2. seat' \in [Emails -> Seats \cup {NoSeat}]
      BY <2>2, <3>1 DEF CredTypeOK
    <3>3. \A i \in Emails : seat[i] # NoSeat => seat'[i] # NoSeat
      BY <2>2, <3>1, UsersAreRows DEF CredTypeOK
    <3>4. \A i \in Emails : seat'[i] # NoSeat => seat[i] # NoSeat
      BY <2>2 DEF CredTypeOK
    <3>5. \A i \in Emails : login[i] # NoLogin => login'[i] # NoLogin
      BY <1>2, UsersAreRows DEF UsersMove, SoundRow
    <3>6. 0 \in Nat /\ \A i \in Emails : seat'[i].code \in {seat[i].code, 0}
      BY <2>2, <3>1 DEF CredTypeOK
    <3>7. \E n \in Nat : \A i \in Emails : seat'[i].code \in {seat[i].code, n}
      BY <3>6
    <3>8. QED
      BY <3>2, <3>3, <3>4, <3>5, <3>7 DEF SeatsMove, CredTypeOK
  <2>3. QED
    BY <2>1, <2>2 DEF VerifyEmail, NewPassword, CompleteProfile, FinishOnboarding,
       DeleteAuditorProfile, ResetDemoPassword
<1>7. QED
  BY <1>2, <1>3, <1>4, <1>5, <1>6, StayingMoves DEF Moves

\* The actions that only read.
LEMMA StartsMove ==
  ASSUME CredTypeOK, RequestsFounded, CodesBounded, NEW r \in Desks,
         \/ \E e \in Emails : EnrolStart(r, e) \/ RemailStart(r, e) \/ ChangeStart(r, e)
         \/ \E link \in mail : ResetStart(r, link)
         \/ \E v \in Offers : TakeUpStart(r, v)
         \/ \E e \in Emails, a \in Homes : AdmitStart(r, e, a)
         \/ LoadRest(r)
         \/ Forgo(r)
  PROVE  Moves
<1>1. UNCHANGED <<side, demos, credTables, mail, fresh>>
  BY DEF EnrolStart, RemailStart, ChangeStart, ResetStart, TakeUpStart, AdmitStart, LoadRest, Forgo
<1>2. 0 \in 0..MaxFresh /\ 0 \in Nat
  BY CredentialsAssumption
<1>3. \A e \in Emails : login[e] \in Logins \cup {NoLogin}
  BY DEF CredTypeOK
<1>4. ASSUME NEW d \in Reading \cup Admitting, desk' = [desk EXCEPT ![r] = d], WellFounded(d)
      PROVE  DesksMove
  <2>1. WellFounded(d)'
    BY <1>1, <1>4 DEF WellFounded, Known, Handed, credTables
  <2>2. QED
    BY <1>4, <2>1 DEF DesksMove
<1>5. ASSUME NEW e \in Emails, EnrolStart(r, e)
      PROVE  DesksMove
  <2> DEFINE d == [op |-> "signup", who |-> e, was |-> login[e], key |-> 0]
  <2>1. d \in Reading
    BY <1>2, <1>3 DEF Reading
  <2>2. WellFounded(d)
    BY <1>5, <2>1 DEF WellFounded, EnrolStart, Known
  <2>3. QED
    BY <1>4, <1>5, <2>1, <2>2 DEF EnrolStart, Opened
<1>6. ASSUME NEW e \in Emails, NEW op \in {"resend", "reset", "password"}, Known(e),
             Opened(r, [op |-> op, who |-> e, was |-> NoLogin, key |-> 0])
      PROVE  DesksMove
  <2> DEFINE d == [op |-> op, who |-> e, was |-> NoLogin, key |-> 0]
  <2>1. d \in Reading
    BY <1>2 DEF Reading
  <2>2. WellFounded(d)
    BY <1>6, <2>1 DEF WellFounded
  <2>3. QED
    BY <1>4, <1>6, <2>1, <2>2 DEF Opened
<1>7. ASSUME NEW link \in mail, ResetStart(r, link)
      PROVE  DesksMove
  <2>1. link.to \in Emails
    BY DEF CredTypeOK, Links
  <2>2. QED
    BY <1>6, <1>7, <2>1 DEF ResetStart
<1>8. ASSUME NEW v \in Offers, TakeUpStart(r, v)
      PROVE  DesksMove
  <2> DEFINE d == Admission("accept", offer[v].to, v, offer[v].home, NoLogin, FALSE)
  <2>1. offer[v] \in OfferRows /\ offer[v] # NoOffer
    BY <1>8 DEF TakeUpStart, CredTypeOK, NoOffer, OfferRows
  <2>2. d \in Admitting
    BY <1>2, <2>1 DEF Admitting, Admission, OfferRows
  <2>3. WellFounded(d)
    BY <2>1, <2>2 DEF WellFounded, Admission
  <2>4. QED
    BY <1>4, <1>8, <2>2, <2>3 DEF TakeUpStart, Opened
<1>9. ASSUME NEW e \in Emails, NEW a \in Homes, AdmitStart(r, e, a)
      PROVE  DesksMove
  <2> DEFINE d == Admission("approve", e, Nowhere, a, login[e], FALSE)
  <2>1. d \in Admitting
    BY <1>2, <1>3 DEF Admitting, Admission
  <2>2. WellFounded(d)
    BY <1>9, <2>1 DEF WellFounded, Admission, AdmitStart, Known
  <2>3. QED
    BY <1>4, <1>9, <2>1, <2>2 DEF AdmitStart, Opened
<1>10. ASSUME LoadRest(r)
       PROVE  DesksMove
  <2> DEFINE x == desk[r]
             was == IF x.op = "accept" THEN login[x.who] ELSE x.was
             had == IF x.op = "approve" THEN seat[x.who] ELSE x.had
             d == [x EXCEPT !.loaded = TRUE, !.was = was, !.had = had, !.code = NextCode]
  <2>1. x \in Admitting /\ WellFounded(x) /\ x.op \in {"accept", "approve"}
    BY <1>10, DeskShapes DEF LoadRest, CredTypeOK, RequestsFounded
  <2>2. desk' = [desk EXCEPT ![r] = d]
    BY <1>10 DEF LoadRest
  <2>3. \A e \in Emails : seat[e].code \in Nat
    BY <1>2 DEF CredTypeOK, Seats, NoSeat
  <2>4. NextCode \in Nat
    BY <2>3, NextCodeIsNext
  <2>5. was \in Logins \cup {NoLogin} /\ had \in Seats \cup {NoSeat}
    BY <2>1, <1>3 DEF Admitting, CredTypeOK
  <2>6. /\ d \in Admitting
        /\ d.op = x.op /\ d.who = x.who /\ d.offer = x.offer
        /\ d.was = was /\ d.had = had
    <3> HIDE DEF x, was, had
    <3>1. PICK w \in Logins \cup {NoLogin}, h \in Seats \cup {NoSeat}, c \in Nat :
             w = was /\ h = had /\ c = NextCode
      BY <2>4, <2>5
    <3>2. d = [x EXCEPT !.loaded = TRUE, !.was = w, !.had = h, !.code = c]
      BY <3>1
    <3> HIDE DEF d
    <3>3. x \in Admitting
      BY <2>1
    <3>4. /\ d \in Admitting
          /\ d.op = x.op /\ d.who = x.who /\ d.offer = x.offer
          /\ d.was = w /\ d.had = h
      BY ONLY <3>2, <3>3 DEF Admitting
    <3>5. QED
      BY <3>1, <3>4
  <2> HIDE DEF d
  <2>7. WellFounded(d)
    BY <2>1, <2>6 DEF WellFounded, Known
  <2>8. QED
    BY <1>4, <2>2, <2>6, <2>7
<1>11. ASSUME Forgo(r)
       PROVE  DesksMove
  BY <1>11, ClosedMoves DEF Forgo
<1>12. DesksMove
  BY <1>5, <1>6, <1>7, <1>8, <1>9, <1>10, <1>11 DEF RemailStart, ChangeStart
<1>13. QED
  BY <1>1, <1>12, StayingMoves DEF Moves, credTables, CredTypeOK

\* The link is mailed and the request remembers its token.
LEMMA PostMoves ==
  ASSUME CredTypeOK, RequestsFounded, NEW r \in Desks, Post(r)
  PROVE  Moves
<1> DEFINE x == desk[r]
<1>1. PICK n \in 1..MaxFresh : n = fresh' /\ n \in 0..MaxFresh
  BY RenewedNumber DEF Post
<1>2. x \in Reading /\ WellFounded(x) /\ x.op \in {"signup", "resend"}
  BY DeskShapes DEF Post, CredTypeOK, RequestsFounded
<1>3. PICK d : d = [x EXCEPT !.key = n]
  OBVIOUS
<1>4. d \in Reading /\ d.op = x.op /\ d.who = x.who /\ d.was = x.was /\ d.key = n
  BY <1>1, <1>2, <1>3 DEF Reading
<1>5. desk' = [desk EXCEPT ![r] = d]
  BY <1>1, <1>3 DEF Post
<1>6. PICK arrived \in BOOLEAN :
        mail' = mail \cup {[kind |-> "verify", to |-> x.who, key |-> n, arrived |-> arrived]}
  BY <1>1 DEF Post
<1>7. WellFounded(d)'
  <2>1. Handed(d.who, d.key)'
    BY <1>4, <1>6 DEF Handed
  <2>2. UNCHANGED <<login, seat, offer, side, demos>>
    BY DEF Post, credTables
  <2>3. QED
    BY <1>2, <1>4, <2>1, <2>2 DEF WellFounded, Known
<1>8. DesksMove
  BY <1>4, <1>5, <1>7 DEF DesksMove
<1>9. RestMoves
  <2>1. [kind |-> "verify", to |-> x.who, key |-> n, arrived |-> arrived] \in Links
    BY <1>1, <1>2 DEF Links, Reading
  <2>2. QED
    BY <1>1, <1>6, <2>1 DEF RestMoves, CredTypeOK, Post, credTables
<1>10. QED
  BY <1>8, <1>9, StayingMoves DEF Moves, Post, credTables

\* A link to reset a password is mailed and nothing else changes.
LEMMA ForgotPasswordMoves ==
  ASSUME CredTypeOK, NEW e \in Emails, ForgotPassword(e)
  PROVE  Moves
<1>1. [kind |-> "reset", to |-> e, key |-> login[e].password, arrived |-> TRUE] \in Links
  BY DEF ForgotPassword, Known, CredTypeOK, Logins, Links
<1>2. RestMoves
  BY <1>1 DEF RestMoves, CredTypeOK, ForgotPassword, credTables
<1>3. QED
  BY <1>2, StayingMoves, ClosedMoves DEF Moves, ForgotPassword, credTables

\* A sign-up admits nobody, and its token was mailed.
LEMMA EnrolMoves ==
  ASSUME CredTypeOK, RequestsFounded, InsertionsAreAlone, NEW r \in Desks, Enrol(r)
  PROVE  Moves
<1> DEFINE d == desk[r]
           e == d.who
<1>1. d \in Reading /\ WellFounded(d) /\ d.op = "signup" /\ d.key # 0
  BY DeskShapes DEF Enrol, CredTypeOK, RequestsFounded
<1>2. e \in Emails /\ Handed(e, d.key)
  BY <1>1 DEF WellFounded, Reading
<1>3. PICK named \in BOOLEAN : login' = [login EXCEPT ![e] =
            IF d.was = NoLogin THEN Enrolled(d, named) ELSE Merged(e, d.was, Enrolled(d, named))]
  BY DEF Enrol
<1>4. PICK y : y = IF d.was = NoLogin THEN Enrolled(d, named) ELSE Merged(e, d.was, Enrolled(d, named))
  OBVIOUS
<1>5. SoundRow(e, y)
  <2>1. CASE d.was = NoLogin
    <3>1. login[e] = NoLogin
      BY <1>1, <2>1 DEF InsertionsAreAlone, Inserting, Known
    <3>2. QED
      BY <1>1, <1>2, <1>4, <2>1, <3>1, EnrolledRow DEF SoundRow
  <2>2. CASE d.was # NoLogin
    <3>1. d.was \in Logins /\ login[e] \in Logins /\ ~d.was.verified
      BY <1>1, <1>2, <2>2 DEF WellFounded, Known, Reading, CredTypeOK
    <3>2. PICK new \in Logins : /\ new = Enrolled(d, named) /\ new.home = d.was.home
                                /\ ~new.verified /\ ~new.approved /\ new.token = d.key
      BY <1>1, <2>2, EnrolledRow
    <3>3. y = Merged(e, d.was, new)
      BY <1>4, <2>2, <3>2
    <3>4. /\ y \in Logins /\ y.home = login[e].home
          /\ y.verified = IF new.verified = d.was.verified THEN login[e].verified ELSE new.verified
          /\ y.approved = IF new.approved = d.was.approved THEN login[e].approved ELSE new.approved
          /\ y.token = IF new.token = d.was.token THEN login[e].token ELSE new.token
      BY <1>2, <3>1, <3>2, <3>3, MergedRow
    <3>5. new.verified = d.was.verified
      BY <3>1, <3>2 DEF Logins
    <3>6. y.verified = login[e].verified
      BY <3>4, <3>5
    <3>7. y.approved => login[e].approved
      BY <3>2, <3>4
    <3>8. y.token \in {login[e].token, d.key}
      BY <3>2, <3>4
    <3>9. login[e] # NoLogin
      BY <3>1, UsersAreRows
    <3>10. y.verified \/ ~login[e].verified
      BY <3>6
    <3>11. QED
      BY <1>2, <3>4, <3>7, <3>8, <3>9, <3>10 DEF SoundRow
  <2>3. QED
    BY <2>1, <2>2
<1>6. login' = [login EXCEPT ![e] = y]
  BY <1>3, <1>4
<1>7. UsersMove
  BY <1>2, <1>5, <1>6, OneUserMoves
<1>8. QED
  BY <1>7, StayingMoves, ClosedMoves DEF Moves, Enrol, CredTypeOK

\* So was that of a link mailed again.
LEMMA RemailMoves ==
  ASSUME CredTypeOK, RequestsFounded, NEW r \in Desks, Remail(r)
  PROVE  Moves
<1> DEFINE d == desk[r]
           e == d.who
<1>1. d \in Reading /\ WellFounded(d) /\ d.op = "resend" /\ d.key # 0
  BY DeskShapes DEF Remail, CredTypeOK, RequestsFounded
<1>2. e \in Emails /\ Handed(e, d.key) /\ login[e] \in Logins /\ d.key \in 1..MaxFresh
  BY <1>1, CredentialsAssumption DEF WellFounded, Reading, Known, CredTypeOK
<1>3. PICK y : y = [login[e] EXCEPT !.token = d.key]
  OBVIOUS
<1>4. /\ y \in Logins /\ y.home = login[e].home
      /\ y.approved = login[e].approved /\ y.token = d.key
      /\ y.verified = login[e].verified
  BY <1>2, <1>3, NewlyMailed
<1>5. login[e] # NoLogin /\ (y.approved => login[e].approved) /\ y.verified = login[e].verified
  BY <1>2, <1>4, UsersAreRows
<1>6. SoundRow(e, y)
  BY <1>2, <1>4, <1>5 DEF SoundRow
<1>7. login' = [login EXCEPT ![e] = y]
  BY <1>3 DEF Remail
<1>8. UsersMove
  BY <1>2, <1>6, <1>7, OneUserMoves
<1>9. QED
  BY <1>8, StayingMoves, ClosedMoves DEF Moves, Remail, CredTypeOK

\* One user's profile is inserted or moved to another organisation.
LEMMA OneSeatMoves ==
  ASSUME CredTypeOK, NEW e \in Emails, NEW x \in Seats, seat' = [seat EXCEPT ![e] = x],
         UsersMove, login'[e] # NoLogin
  PROVE  SeatsMove /\ seat'[e] # NoSeat
<1>1. seat' \in [Emails -> Seats \cup {NoSeat}] /\ seat'[e] = x /\ \A o \in Emails \ {e} : seat'[o] = seat[o]
  BY DEF CredTypeOK
<1>2. x # NoSeat /\ x.code \in Nat
  BY UsersAreRows DEF Seats
<1>3. \A o \in Emails : login[o] # NoLogin => login'[o] # NoLogin
  BY UsersAreRows DEF UsersMove, SoundRow
<1>4. \A o \in Emails : seat'[o].code \in {seat[o].code, x.code}
  BY <1>1
<1>5. \E n \in Nat : \A o \in Emails : seat'[o].code \in {seat[o].code, n}
  BY <1>2, <1>4
<1>6. QED
  BY <1>1, <1>2, <1>3, <1>5 DEF SeatsMove, CredTypeOK

\* Accepting an invitation inserts the profile with the rest.
LEMMA TakeUpMoves ==
  ASSUME CredTypeOK, RequestsFounded, NEW r \in Desks, TakeUp(r)
  PROVE  Moves
<1> DEFINE d == desk[r]
           e == d.who
           v == d.offer
<1>1. d \in Admitting /\ WellFounded(d) /\ d.op = "accept"
  BY DeskShapes DEF TakeUp, CredTypeOK, RequestsFounded
<1>2. e \in Emails /\ v \in Offers /\ offer[v] # NoOffer /\ offer[v].to = e
  BY <1>1 DEF WellFounded, Admitting
<1>3. PICK n \in 1..MaxFresh : n = fresh' /\ n \in 0..MaxFresh
  BY RenewedNumber DEF TakeUp
<1>4. PICK new \in Logins : new = Joined(d, n) /\ new.verified
  BY <1>1, JoinedRow
<1>5. new \in Logins /\ new.verified
  BY <1>4
<1>6. PICK y : y = IF d.was = NoLogin THEN new ELSE Merged(e, d.was, new)
  OBVIOUS
<1>7. login' = [login EXCEPT ![e] = y]
  BY <1>3, <1>4, <1>6 DEF TakeUp
<1>8. PICK x \in Seats : x = [code |-> d.code, home |-> d.home] /\ x # NoSeat
  <2>1. d.code \in Nat /\ d.home \in Homes
    BY <1>1 DEF Admitting
  <2>2. [code |-> d.code, home |-> d.home] \in Seats
    BY <2>1 DEF Seats
  <2>3. QED
    BY <2>2, UsersAreRows
<1>9. seat' = [seat EXCEPT ![e] = x]
  BY <1>8 DEF TakeUp
<1>10. seat'[e] # NoSeat
  BY <1>2, <1>8, <1>9 DEF CredTypeOK
<1>11. SoundRow(e, y)
  <2>1. CASE d.was = NoLogin
    BY <1>5, <1>6, <1>10, <2>1 DEF SoundRow
  <2>2. CASE d.was # NoLogin
    <3>1. d.was \in Logins /\ login[e] \in Logins /\ login[e] # NoLogin
      BY <1>1, <1>2, <2>2, UsersAreRows DEF WellFounded, Known, Admitting, CredTypeOK
    <3>2. new.token = d.was.token
      BY <1>4, <2>2 DEF Joined
    <3>3. y = Merged(e, d.was, new)
      BY <1>6, <2>2
    <3>4. /\ y \in Logins
          /\ y.verified = IF new.verified = d.was.verified THEN login[e].verified ELSE new.verified
          /\ y.token = IF new.token = d.was.token THEN login[e].token ELSE new.token
      BY <1>2, <3>1, <3>3, MergedRow
    <3>5. y.token = login[e].token
      BY <3>2, <3>4
    <3>6. y.verified \/ ~login[e].verified
      BY <1>5, <3>4
    <3>7. QED
      BY <1>10, <3>1, <3>4, <3>5, <3>6 DEF SoundRow
  <2>3. QED
    BY <2>1, <2>2
<1>12. UsersMove /\ login'[e] # NoLogin
  BY <1>2, <1>7, <1>11, OneUserMoves, UsersAreRows DEF SoundRow, CredTypeOK
<1>13. SeatsMove
  BY <1>2, <1>9, <1>12, OneSeatMoves
<1>14. OffersMove
  <2>1. offer[v] \in OfferRows
    BY <1>2 DEF CredTypeOK
  <2>2. PICK w : w = [offer[v] EXCEPT !.state = "accepted"]
    OBVIOUS
  <2>3. w \in OfferRows /\ w.to = e /\ w # NoOffer
    BY <1>2, <2>1, <2>2 DEF OfferRows, NoOffer
  <2>4. offer' = [offer EXCEPT ![v] = w]
    BY <2>2 DEF TakeUp
  <2>5. QED
    BY <1>2, <1>10, <2>3, <2>4 DEF OffersMove, CredTypeOK
<1>15. DesksMove
  BY ClosedMoves DEF TakeUp
<1>16. RestMoves
  BY <1>3, StayingMoves DEF TakeUp
<1>17. QED
  BY <1>12, <1>13, <1>14, <1>15, <1>16 DEF Moves

\* So does approving, which finds the profile or adds it.
LEMMA AdmitMoves ==
  ASSUME CredTypeOK, RequestsFounded, NEW r \in Desks, Admit(r)
  PROVE  Moves
<1> DEFINE d == desk[r]
           e == d.who
<1>1. d \in Admitting /\ WellFounded(d) /\ d.op = "approve"
  BY DeskShapes DEF Admit, CredTypeOK, RequestsFounded
<1>2. e \in Emails /\ d.home \in Homes /\ d.code \in Nat
  BY <1>1 DEF Admitting
<1>3. d.was \in Logins /\ login[e] \in Logins /\ login[e] # NoLogin
  BY <1>1, <1>2, UsersAreRows DEF WellFounded, Known, Admitting, CredTypeOK
<1>4. PICK new \in Logins : /\ new = [d.was EXCEPT !.home = d.home, !.approved = TRUE]
                            /\ new.verified = d.was.verified /\ new.token = d.was.token
  BY <1>2, <1>3, ApprovedRow
<1>5. PICK y : y = Merged(e, d.was, new)
  OBVIOUS
<1>6. login' = [login EXCEPT ![e] = y]
  BY <1>4, <1>5 DEF Admit
<1>7. y \in Logins /\ y.verified = login[e].verified /\ y.token = login[e].token
  <2>1. /\ y \in Logins
        /\ y.verified = IF new.verified = d.was.verified THEN login[e].verified ELSE new.verified
        /\ y.token = IF new.token = d.was.token THEN login[e].token ELSE new.token
    BY <1>2, <1>3, <1>5, MergedRow
  <2>2. QED
    BY <1>4, <2>1
<1>8. PICK x : x = IF d.had = NoSeat THEN [code |-> d.code, home |-> d.home]
                   ELSE IF d.had.home = d.home THEN seat[e]
                   ELSE [seat[e] EXCEPT !.home = d.home]
  OBVIOUS
<1>9. x \in Seats
  <2>1. CASE d.had = NoSeat
    BY <1>2, <1>8, <2>1 DEF Seats
  <2>2. CASE d.had # NoSeat
    <3>1. seat[e] \in Seats
      BY <1>1, <1>2, <2>2 DEF WellFounded, CredTypeOK
    <3>2. [seat[e] EXCEPT !.home = d.home] \in Seats
      BY <1>2, <3>1 DEF Seats
    <3>3. QED
      BY <1>8, <2>2, <3>1, <3>2
  <2>3. QED
    BY <2>1, <2>2
<1>10. seat' = [seat EXCEPT ![e] = x]
  BY <1>8 DEF Admit
<1>11. seat'[e] # NoSeat
  BY <1>2, <1>9, <1>10, UsersAreRows DEF CredTypeOK
<1>12. y.verified \/ ~login[e].verified
  BY <1>7
<1>13. SoundRow(e, y)
  BY <1>3, <1>7, <1>11, <1>12 DEF SoundRow
<1>14. UsersMove /\ login'[e] # NoLogin
  BY <1>2, <1>6, <1>13, OneUserMoves, UsersAreRows DEF SoundRow, CredTypeOK
<1>15. SeatsMove
  BY <1>2, <1>9, <1>10, <1>14, OneSeatMoves
<1>16. QED
  BY <1>14, <1>15, StayingMoves, ClosedMoves DEF Moves, Admit, CredTypeOK

-----------------------------------------------------------------------------
(* The actions without a request *)

\* Who asks for access is admitted nowhere; a created auditor gets his profile.
LEMMA PlayspaceMoves ==
  ASSUME CredTypeOK, NEW e \in Emails,
         RequestAccess(e) \/ \E a \in Homes : CreateAuditorProfile(e, a)
  PROVE  Moves
<1>1. PICK n \in 1..MaxFresh : n = fresh' /\ n \in 0..MaxFresh
  BY RenewedNumber DEF RequestAccess, CreateAuditorProfile
<1>2. 0 \in 0..MaxFresh /\ n \in Nat
  BY CredentialsAssumption
<1>3. ASSUME RequestAccess(e)
      PROVE  Moves
  <2> DEFINE y == [password |-> n, home |-> Nowhere, verified |-> TRUE,
                   approved |-> FALSE, completed |-> FALSE, token |-> 0]
  <2>1. y \in Logins /\ login' = [login EXCEPT ![e] = y]
    BY <1>1, <1>2, <1>3 DEF RequestAccess, Logins
  <2>2. SoundRow(e, y)
    BY <2>1 DEF SoundRow
  <2>3. UsersMove
    BY <2>1, <2>2, OneUserMoves
  <2>4. RestMoves
    BY <1>1, <1>3 DEF RequestAccess, RestMoves, CredTypeOK
  <2>5. QED
    BY <1>3, <2>3, <2>4, StayingMoves, ClosedMoves DEF Moves, RequestAccess
<1>4. ASSUME NEW a \in Homes, CreateAuditorProfile(e, a)
      PROVE  Moves
  <2> DEFINE y == [password |-> n, home |-> a, verified |-> TRUE,
                   approved |-> TRUE, completed |-> FALSE, token |-> 0]
             x == [code |-> n, home |-> a]
  <2>1. y \in Logins /\ login' = [login EXCEPT ![e] = y]
    BY <1>1, <1>2, <1>4 DEF CreateAuditorProfile, Logins
  <2>2. x \in Seats /\ seat' = [seat EXCEPT ![e] = x]
    BY <1>1, <1>2, <1>4 DEF CreateAuditorProfile, Seats
  <2>3. seat'[e] # NoSeat
    BY <2>2, UsersAreRows DEF CredTypeOK
  <2>4. SoundRow(e, y)
    BY <2>1, <2>3 DEF SoundRow
  <2>5. UsersMove /\ login'[e] # NoLogin
    BY <2>1, <2>4, OneUserMoves, UsersAreRows DEF CredTypeOK
  <2>6. SeatsMove
    BY <2>2, <2>5, OneSeatMoves
  <2>7. RestMoves
    BY <1>1, <1>4, StayingMoves DEF CreateAuditorProfile
  <2>8. QED
    BY <1>4, <2>5, <2>6, <2>7, StayingMoves, ClosedMoves DEF Moves, CreateAuditorProfile
<1>5. QED
  BY <1>3, <1>4

\* Restoring the demonstration accounts touches no other.
LEMMA ReconcileMoves ==
  ASSUME CredTypeOK, Reconcile
  PROVE  Moves
<1>1. \A e \in Emails \ demos : login'[e] = login[e]
  BY DEF Reconcile
<1>2. ASSUME NEW e \in demos
      PROVE  SoundRow(e, login'[e])
  <2>1. e \in Emails
    BY DEF CredTypeOK
  <2>2. PICK n : n = IF Known(e) THEN login[e].token ELSE 0
    OBVIOUS
  <2>3. n \in 0..MaxFresh
    BY <2>1, <2>2, CredentialsAssumption DEF CredTypeOK, Known, Logins
  <2>4. login'[e] = [DemoRow EXCEPT !.token = n]
    BY <2>1, <2>2 DEF Reconcile
  <2>5. QED
    BY <2>3, <2>4, DemoRows DEF SoundRow
<1>3. login' \in [Emails -> Logins \cup {NoLogin}]
  <2>1. login' = [e \in Emails |-> login'[e]]
    BY DEF Reconcile
  <2>2. \A e \in Emails : login'[e] \in Logins \cup {NoLogin}
    BY <1>1, <1>2 DEF SoundRow, CredTypeOK
  <2>3. QED
    BY <2>1, <2>2
<1>4. UsersMove
  BY <1>1, <1>2, <1>3 DEF UsersMove
<1>5. QED
  BY <1>4, StayingMoves, ClosedMoves DEF Moves, Reconcile, CredTypeOK

\* An invitation is made, or expires before it is accepted.
LEMMA OfferingMoves ==
  ASSUME CredTypeOK, NEW v \in Offers,
         \/ OfferExpires(v)
         \/ \E e \in Emails, a \in Homes : InviteAuditor(v, e, a)
  PROVE  Moves
<1>1. OffersMove
  <2>1. ASSUME OfferExpires(v)
        PROVE  OffersMove
    <3>1. offer[v] \in OfferRows
      BY <2>1 DEF OfferExpires, CredTypeOK, NoOffer
    <3>2. PICK w : w = [offer[v] EXCEPT !.state = "expired"]
      OBVIOUS
    <3>3. w \in OfferRows /\ w.to = offer[v].to /\ w # NoOffer /\ w.state = "expired"
      BY <3>1, <3>2 DEF OfferRows, NoOffer
    <3>4. offer' = [offer EXCEPT ![v] = w]
      BY <2>1, <3>2 DEF OfferExpires
    <3>5. QED
      BY <3>3, <3>4 DEF OffersMove, CredTypeOK
  <2>2. ASSUME NEW e \in Emails, NEW a \in Homes, InviteAuditor(v, e, a)
        PROVE  OffersMove
    <3> DEFINE w == [state |-> "open", to |-> e, home |-> a]
    <3>1. w \in OfferRows /\ w # NoOffer
      BY DEF OfferRows, NoOffer
    <3>2. offer[v] = NoOffer /\ offer' = [offer EXCEPT ![v] = w]
      BY <2>2 DEF InviteAuditor
    <3>3. QED
      BY <3>1, <3>2 DEF OffersMove, CredTypeOK
  <2>3. QED
    BY <2>1, <2>2
<1>2. QED
  BY <1>1, StayingMoves, ClosedMoves DEF Moves, OfferExpires, InviteAuditor, CredTypeOK

\* Every step of the component.
LEMMA StepsMove ==
  ASSUME CredTypeOK, CodesBounded, RequestsFounded, InsertionsAreAlone, CredNext
  PROVE  Moves
BY TouchesMove, StartsMove, PostMoves, ForgotPasswordMoves, EnrolMoves, RemailMoves, TakeUpMoves,
   AdmitMoves, PlayspaceMoves, ReconcileMoves, OfferingMoves DEF CredNext, Serve

-----------------------------------------------------------------------------
(* The steps keep the invariant *)

\* What is known of each table after a step.
LEMMA TablesAfterStep ==
  ASSUME CredTypeOK, Moves
  PROVE  /\ \A e \in Emails : Known(e) => Known(e)'
         /\ \A e \in Emails : seat[e] # NoSeat => seat'[e] # NoSeat
         /\ mail \subseteq mail' /\ side' = side /\ demos' = demos
BY UsersAreRows DEF Moves, UsersMove, SoundRow, SeatsMove, RestMoves, Known

\* A request keeps what it rests on while it waits.
LEMMA FoundedStays ==
  ASSUME CredTypeOK, Moves, NEW d, WellFounded(d)
  PROVE  WellFounded(d)'
<1>1. d \in Reading \cup Admitting \cup {NoDesk}
  BY DEF WellFounded
<1>2. d.op \in {"signup", "resend", "reset", "password", "accept", "approve"} => d.who \in Emails
  BY <1>1 DEF Reading, Admitting, NoDesk
<1>3. \A v \in Offers : offer[v] # NoOffer => offer'[v] # NoOffer /\ offer'[v].to = offer[v].to
  BY DEF Moves, OffersMove
<1>4. /\ \A e \in Emails : Known(e) => Known(e)'
      /\ \A e \in Emails : seat[e] # NoSeat => seat'[e] # NoSeat
      /\ mail \subseteq mail'
  BY TablesAfterStep
<1>5. d.op \in {"resend", "reset", "password", "approve"} => Known(d.who)'
  BY <1>2, <1>4 DEF WellFounded
<1>6. d.op \in {"signup", "accept", "approve"} => (d.was # NoLogin => Known(d.who)')
  BY <1>2, <1>4 DEF WellFounded
<1>7. d.op = "approve" => d.was # NoLogin /\ (d.had # NoSeat => seat'[d.who] # NoSeat)
  BY <1>2, <1>4 DEF WellFounded
<1>8. d.op \in {"signup", "resend"} => (d.key # 0 => Handed(d.who, d.key)')
  BY <1>4 DEF WellFounded, Handed
<1>9. d.op = "accept" =>
        d.offer \in Offers /\ offer'[d.offer] # NoOffer /\ offer'[d.offer].to = d.who
  BY <1>3 DEF WellFounded
<1>10. d.op = "signup" => (d.was # NoLogin => ~d.was.verified) /\ side' = "yee" /\ d.who \notin demos'
  BY TablesAfterStep DEF WellFounded
<1>11. QED
  BY <1>1, <1>5, <1>6, <1>7, <1>8, <1>9, <1>10 DEF WellFounded

\* Every request keeps what it rests on, the one that the step is of included.
LEMMA RequestsFoundedStep ==
  ASSUME CredTypeOK, RequestsFounded, Moves
  PROVE  /\ RequestsFounded'
         /\ desk' \in [Desks -> Reading \cup Admitting \cup {NoDesk}]
<1>1. \A r \in Desks : WellFounded(desk[r])
  BY DEF RequestsFounded
<1>2. ASSUME NEW r \in Desks
      PROVE  /\ \E d : d = desk'[r] /\ WellFounded(d)'
             /\ desk'[r] \in Reading \cup Admitting \cup {NoDesk}
  <2>1. CASE desk'[r] = desk[r]
    <3>1. PICK d : d = desk[r] /\ WellFounded(d)
      BY <1>1
    <3>2. WellFounded(d)'
      BY <3>1, FoundedStays
    <3>3. QED
      BY <2>1, <3>1, <3>2 DEF CredTypeOK
  <2>2. CASE desk'[r] = NoDesk
    <3>1. PICK d : d = NoDesk
      OBVIOUS
    <3>2. WellFounded(d)'
      BY <3>1 DEF WellFounded, NoDesk
    <3>3. QED
      BY <2>2, <3>1, <3>2
  <2>3. ASSUME NEW o \in Desks, NEW d \in Reading \cup Admitting,
               desk' = [desk EXCEPT ![o] = d], WellFounded(d)', o = r
        PROVE  /\ \E x : x = desk'[r] /\ WellFounded(x)'
               /\ desk'[r] \in Reading \cup Admitting \cup {NoDesk}
    <3>1. d = desk'[r]
      BY <2>3 DEF CredTypeOK
    <3>2. QED
      BY <2>3, <3>1
  <2>4. QED
    BY <2>1, <2>2, <2>3 DEF Moves, DesksMove, CredTypeOK
<1>3. RequestsFounded'
  BY <1>2 DEF RequestsFounded
<1>4. desk' = [r \in Desks |-> desk'[r]]
  BY DEF Moves, DesksMove, CredTypeOK
<1>5. QED
  BY <1>2, <1>3, <1>4

\* The types follow from the moves of the tables.
LEMMA CredTypesStep ==
  ASSUME CredTypeOK, RequestsFounded, Moves
  PROVE  CredTypeOK'
<1>1. login' \in [Emails -> Logins \cup {NoLogin}]
  BY DEF Moves, UsersMove
<1>2. /\ seat' \in [Emails -> Seats \cup {NoSeat}]
      /\ \A e \in Emails : seat'[e] # NoSeat => login'[e] # NoLogin
  BY DEF Moves, SeatsMove
<1>3. offer' \in [Offers -> OfferRows \cup {NoOffer}]
  BY DEF Moves, OffersMove
<1>4. /\ mail' \subseteq Links /\ wanted' \subseteq Emails /\ fresh' \in 0..MaxFresh
      /\ side' \in {"yee", "playspace"} /\ demos' \subseteq Emails
  BY DEF Moves, RestMoves, CredTypeOK
<1>5. QED
  BY <1>1, <1>2, <1>3, <1>4, RequestsFoundedStep DEF CredTypeOK

\* At most one new code comes with a step.
LEMMA CodesBoundedStep ==
  ASSUME CredTypeOK, CodesBounded, Moves
  PROVE  CodesBounded'
<1>1. PICK b \in Nat : \A e \in Emails : seat[e].code <= b
  BY DEF CodesBounded
<1>2. PICK n \in Nat : \A e \in Emails : seat'[e].code \in {seat[e].code, n}
  BY DEF Moves, SeatsMove
<1>3. PICK c \in Nat : c = IF b < n THEN n ELSE b
  BY <1>1, <1>2
<1>4. \A e \in Emails : seat[e].code \in Nat
  BY DEF CredTypeOK, Seats, NoSeat
<1>5. \A e \in Emails : seat'[e].code <= c
  BY <1>1, <1>2, <1>3, <1>4
<1>6. QED
  BY <1>5 DEF CodesBounded

\* An invitation is accepted with the profile, which stays.
LEMMA AcceptedHaveSeatsStep ==
  ASSUME CredTypeOK, AcceptedHaveSeats, Moves
  PROVE  AcceptedHaveSeats'
<1>1. SUFFICES ASSUME NEW v \in Offers, offer'[v].state = "accepted"
               PROVE  seat'[offer'[v].to] # NoSeat
  BY DEF AcceptedHaveSeats
<1>2. CASE offer[v].state = "accepted"
  <2>1. offer[v] # NoOffer /\ offer[v].to \in Emails /\ seat[offer[v].to] # NoSeat
    BY <1>2 DEF AcceptedHaveSeats, CredTypeOK, NoOffer, OfferRows
  <2>2. offer'[v].to = offer[v].to
    BY <2>1 DEF Moves, OffersMove
  <2>3. QED
    BY <2>1, <2>2, TablesAfterStep
<1>3. CASE offer[v].state # "accepted"
  BY <1>1, <1>3 DEF Moves, OffersMove
<1>4. QED
  BY <1>2, <1>3

\* A row that a step writes admits nobody without a profile.
LEMMA AdmittedHaveAProfileStep ==
  ASSUME CredTypeOK, AdmittedHaveAProfile, Moves
  PROVE  AdmittedHaveAProfile'
<1>1. demos' = demos
  BY TablesAfterStep
<1>2. SUFFICES ASSUME NEW e \in Emails \ demos, login'[e] # NoLogin,
                      login'[e].approved \/ login'[e].home # Nowhere
               PROVE  seat'[e] # NoSeat
  BY <1>1 DEF AdmittedHaveAProfile, Known
<1>3. CASE login'[e] = login[e]
  BY <1>2, <1>3, TablesAfterStep DEF AdmittedHaveAProfile, Known
<1>4. CASE SoundRow(e, login'[e])
  <2>1. CASE seat'[e] # NoSeat
    BY <2>1
  <2>2. CASE /\ login[e] # NoLogin
             /\ login'[e].approved => login[e].approved
             /\ login'[e].home \in {login[e].home, Nowhere}
    <3>1. login[e].approved \/ login[e].home # Nowhere
      BY <1>2, <2>2
    <3>2. seat[e] # NoSeat
      BY <2>2, <3>1 DEF AdmittedHaveAProfile, Known
    <3>3. QED
      BY <3>2, TablesAfterStep
  <2>3. QED
    BY <1>2, <1>4, <2>1, <2>2 DEF SoundRow
<1>5. QED
  BY <1>3, <1>4 DEF Moves, UsersMove

\* A row that a step writes has a token that was mailed, or the one it had.
LEMMA UnverifiedWereMailedStep ==
  ASSUME CredTypeOK, UnverifiedWereMailed, Moves
  PROVE  UnverifiedWereMailed'
<1>1. side' = side /\ mail \subseteq mail'
  BY TablesAfterStep
<1>2. SUFFICES ASSUME NEW e \in Emails, login'[e] # NoLogin, side = "yee", ~login'[e].verified
               PROVE  Handed(e, login'[e].token)
  BY <1>1 DEF UnverifiedWereMailed, Known, Handed
<1>3. \A o \in Emails : login[o] # NoLogin /\ ~login[o].verified => Handed(o, login[o].token)
  BY <1>2 DEF UnverifiedWereMailed, Known
<1>4. CASE login'[e] = login[e]
  BY <1>2, <1>3, <1>4
<1>5. CASE SoundRow(e, login'[e])
  <2>1. CASE Handed(e, login'[e].token)
    BY <2>1
  <2>2. CASE login[e] # NoLogin /\ ~login[e].verified /\ login'[e].token = login[e].token
    BY <1>3, <2>2
  <2>3. QED
    BY <1>2, <1>5, <2>1, <2>2 DEF SoundRow
<1>6. QED
  BY <1>4, <1>5 DEF Moves, UsersMove

\* Insertions that go on stay alone while nobody gets their addresses.
LEMMA InsertionsGoOn ==
  ASSUME InsertionsAreAlone,
         \A r \in Desks : Inserting(desk'[r]) => desk'[r] = desk[r],
         \A r \in Desks : Inserting(desk'[r]) /\ ~Known(desk[r].who) => ~Known(desk[r].who)'
  PROVE  InsertionsAreAlone'
BY DEF InsertionsAreAlone, Known, Inserting

\* A sign-up inserts an address that nobody has and no other inserts, and no
\* other request can insert it before it commits.
LEMMA InsertionsStep ==
  ASSUME CredTypeOK, CodesBounded, RequestsFounded, InsertionsAreAlone, CredNext
  PROVE  InsertionsAreAlone'
<1> USE DEF Inserting
<1>1. ~Inserting(NoDesk)
  BY DEF NoDesk
<1>2. \A r \in Desks : Inserting(desk[r]) =>
        desk[r].who \in Emails /\ side = "yee" /\ desk[r].who \notin demos /\ ~Known(desk[r].who)
  BY DeskShapes DEF CredTypeOK, RequestsFounded, WellFounded, Reading, InsertionsAreAlone
<1>3. ASSUME \/ \E link \in mail : VerifyEmail(link)
             \/ \E r \in Desks : NewPassword(r)
             \/ \E e \in Emails : CompleteProfile(e) \/ FinishOnboarding(e) \/ DeleteAuditorProfile(e)
             \/ \E e \in demos : ResetDemoPassword(e)
      PROVE  InsertionsAreAlone'
  <2>1. PICK e \in Emails, y \in Logins : Touched(e, y)
    BY <1>3, TouchedEffect
  <2>2. \A o \in Emails : login[o] = NoLogin => login'[o] = NoLogin
    BY <2>1, UsersAreRows DEF Touched, CredTypeOK
  <2>3. desk' = desk \/ \E r \in Desks : Closed(r)
    BY <1>3 DEF VerifyEmail, NewPassword, CompleteProfile, FinishOnboarding,
       DeleteAuditorProfile, ResetDemoPassword
  <2>4. \A r \in Desks : Inserting(desk'[r]) => desk'[r] = desk[r]
    BY <1>1, <2>3 DEF Closed, CredTypeOK
  <2>5. QED
    BY <1>2, <2>2, <2>4, InsertionsGoOn DEF Known
<1>4. ASSUME NEW r \in Desks, NEW d, desk' = [desk EXCEPT ![r] = d], ~Inserting(d), login' = login
      PROVE  InsertionsAreAlone'
  <2>1. \A o \in Desks : Inserting(desk'[o]) => desk'[o] = desk[o]
    BY <1>4 DEF CredTypeOK
  <2>2. QED
    BY <1>4, <2>1, InsertionsGoOn DEF Known
<1>5. ASSUME NEW r \in Desks,
             \/ \E e \in Emails : EnrolStart(r, e) \/ RemailStart(r, e) \/ ChangeStart(r, e)
             \/ \E link \in mail : ResetStart(r, link)
             \/ \E v \in Offers : TakeUpStart(r, v)
             \/ \E e \in Emails, a \in Homes : AdmitStart(r, e, a)
             \/ LoadRest(r)
             \/ Forgo(r)
      PROVE  InsertionsAreAlone'
  <2>1. login' = login
    BY <1>5 DEF EnrolStart, RemailStart, ChangeStart, ResetStart, TakeUpStart, AdmitStart, LoadRest,
       Forgo, credTables
  <2>2. CASE \E e \in Emails : EnrolStart(r, e) \/ RemailStart(r, e) \/ ChangeStart(r, e)
    BY <1>4, <2>1, <2>2 DEF EnrolStart, RemailStart, ChangeStart, Opened
  <2>3. CASE \E link \in mail : ResetStart(r, link)
    BY <1>4, <2>1, <2>3 DEF ResetStart, Opened
  <2>4. CASE \E v \in Offers : TakeUpStart(r, v)
    BY <1>4, <2>1, <2>4 DEF TakeUpStart, Opened, Admission
  <2>5. CASE \E e \in Emails, a \in Homes : AdmitStart(r, e, a)
    BY <1>4, <2>1, <2>5 DEF AdmitStart, Opened, Admission
  <2>6. CASE LoadRest(r)
    <3>1. desk[r] \in Admitting /\ desk[r].op # "signup"
      BY <2>6, DeskShapes DEF LoadRest, CredTypeOK
    <3>2. PICK d : desk' = [desk EXCEPT ![r] = d] /\ d = [desk[r] EXCEPT
            !.loaded = TRUE,
            !.was = IF desk[r].op = "accept" THEN login[desk[r].who] ELSE @,
            !.had = IF desk[r].op = "approve" THEN seat[desk[r].who] ELSE @,
            !.code = NextCode]
      BY <2>6 DEF LoadRest
    <3>3. d.op = desk[r].op
      BY <3>1, <3>2 DEF Admitting
    <3>4. QED
      BY <1>4, <2>1, <3>1, <3>2, <3>3
  <2>7. CASE Forgo(r)
    BY <1>1, <1>4, <2>1, <2>7 DEF Forgo, Closed
  <2>8. QED
    BY <1>5, <2>2, <2>3, <2>4, <2>5, <2>6, <2>7
<1>6. ASSUME NEW r \in Desks, Post(r)
      PROVE  InsertionsAreAlone'
  <2>1. desk[r] \in Reading /\ login' = login
    BY <1>6, DeskShapes DEF Post, CredTypeOK, credTables
  <2>2. PICK d : desk' = [desk EXCEPT ![r] = d] /\ d = [desk[r] EXCEPT !.key = fresh']
    BY <1>6 DEF Post
  <2>3. d.op = desk[r].op /\ d.who = desk[r].who /\ d.was = desk[r].was
    BY <2>1, <2>2 DEF Reading
  <2>4. CASE ~Inserting(d)
    BY <1>4, <2>1, <2>2, <2>4
  <2>5. CASE Inserting(d)
    <3>1. Vacant(d.who)
      BY <1>6, <2>3, <2>5 DEF Post
    <3>2. /\ desk'[r] = d
          /\ \A o \in Desks \ {r} : desk'[o] = desk[o]
      BY <2>2 DEF CredTypeOK
    <3>3. \A o \in Desks \ {r} : Inserting(desk[o]) => desk[o].who # d.who
      BY <3>1 DEF Vacant
    <3>4. QED
      BY <2>1, <3>1, <3>2, <3>3 DEF InsertionsAreAlone, Vacant, Known
  <2>6. QED
    BY <2>4, <2>5
<1>7. ASSUME NEW r \in Desks, Closed(r),
             \A e \in Emails \ {desk[r].who} : login'[e] = login[e],
             \/ Inserting(desk[r]) \/ Known(desk[r].who) \/ Vacant(desk[r].who)
      PROVE  InsertionsAreAlone'
  <2>1. \A o \in Desks : Inserting(desk'[o]) => o # r /\ desk'[o] = desk[o]
    BY <1>1, <1>7 DEF Closed, CredTypeOK
  <2>2. \A o \in Desks : Inserting(desk'[o]) => desk[o].who # desk[r].who
    BY <1>2, <1>7, <2>1 DEF InsertionsAreAlone, Vacant
  <2>3. QED
    BY <1>2, <1>7, <2>1, <2>2, InsertionsGoOn DEF Known
<1>8. ASSUME NEW r \in Desks, Enrol(r) \/ Remail(r) \/ TakeUp(r) \/ Admit(r)
      PROVE  InsertionsAreAlone'
  <2>1. \A e \in Emails \ {desk[r].who} : login'[e] = login[e]
    BY <1>8 DEF Enrol, Remail, TakeUp, Admit, CredTypeOK
  <2>2. Inserting(desk[r]) \/ Known(desk[r].who) \/ Vacant(desk[r].who)
    BY <1>8 DEF Enrol, Remail, TakeUp, Admit, RequestsFounded, WellFounded
  <2>3. QED
    BY <1>7, <1>8, <2>1, <2>2 DEF Enrol, Remail, TakeUp, Admit
<1>9. ASSUME NEW e \in Emails,
             \/ ForgotPassword(e) \/ RequestAccess(e) \/ \E a \in Homes : CreateAuditorProfile(e, a)
             \/ \E v \in Offers, a \in Homes : InviteAuditor(v, e, a)
      PROVE  InsertionsAreAlone'
  <2>1. desk' = desk /\ (side = "yee" => login' = login)
    BY <1>9 DEF ForgotPassword, RequestAccess, CreateAuditorProfile, InviteAuditor, credTables
  <2>2. QED
    BY <1>2, <2>1, InsertionsGoOn DEF Known
<1>10. ASSUME Reconcile \/ \E v \in Offers : OfferExpires(v)
       PROVE  InsertionsAreAlone'
  <2>1. desk' = desk /\ \A e \in Emails \ demos : login'[e] = login[e]
    BY <1>10 DEF Reconcile, OfferExpires
  <2>2. QED
    BY <1>2, <2>1, InsertionsGoOn DEF Known
<1>11. QED
  BY <1>3, <1>5, <1>6, <1>8, <1>9, <1>10 DEF CredNext, Serve

\* The codes of the seeded rows are at most as many as the demo accounts.
LEMMA CredInitHolds ==
  ASSUME CredInit
  PROVE  CredInv
<1>1. PICK seeded \in {{}, demos} :
        /\ login = [e \in Emails |-> IF e \in seeded THEN DemoRow ELSE NoLogin]
        /\ \E code \in [Emails -> 0..Cardinality(demos)] :
            /\ \A e \in seeded : code[e] > 0
            /\ seat = [e \in Emails |-> IF e \in seeded THEN [code |-> code[e], home |-> DemoRow.home] ELSE NoSeat]
  BY DEF CredInit
<1>2. PICK code \in [Emails -> 0..Cardinality(demos)] :
        /\ \A e \in seeded : code[e] > 0
        /\ seat = [e \in Emails |-> IF e \in seeded THEN [code |-> code[e], home |-> DemoRow.home] ELSE NoSeat]
  BY <1>1
<1>3. demos \subseteq Emails /\ seeded \subseteq Emails
  BY <1>1 DEF CredInit
<1>4. Cardinality(demos) \in Nat
  BY <1>3, CredentialsAssumption, FS_Subset, FS_CardinalityType
<1>5. \A e \in Emails : code[e] \in Nat /\ code[e] <= Cardinality(demos)
  BY <1>2, <1>4
<1>6. \A e \in Emails : seat[e] = IF e \in seeded THEN [code |-> code[e], home |-> DemoRow.home] ELSE NoSeat
  BY <1>2
<1>7. \A e \in Emails : e \in seeded => seat[e] \in Seats
  <2>1. \A n \in Nat : [code |-> n, home |-> DemoRow.home] \in Seats
    BY DemoRows DEF Seats
  <2> HIDE DEF DemoRow
  <2>2. QED
    BY <1>5, <1>6, <2>1
<1>8. seat \in [Emails -> Seats \cup {NoSeat}]
  BY <1>2, <1>6, <1>7
<1>9. login \in [Emails -> Logins \cup {NoLogin}] /\ \A e \in seeded : login[e] # NoLogin /\ login[e].verified
  BY <1>1, <1>3, DemoRows, UsersAreRows DEF DemoRow
<1>10. /\ offer = [v \in Offers |-> NoOffer] /\ wanted = {} /\ mail = {} /\ fresh = 1
       /\ desk = [r \in Desks |-> NoDesk] /\ side \in {"yee", "playspace"}
  BY DEF CredInit
<1>11. fresh \in 0..MaxFresh
  BY <1>10, CredentialsAssumption
<1>12. CredTypeOK
  BY <1>3, <1>6, <1>8, <1>9, <1>10, <1>11 DEF CredTypeOK
<1>13. CodesBounded
  <2>1. \A e \in Emails : seat[e].code <= Cardinality(demos)
    <3>1. ASSUME NEW e \in Emails
          PROVE  seat[e].code \in {code[e], 0}
      <4>1. CASE e \in seeded
        <5>1. seat[e] = [code |-> code[e], home |-> DemoRow.home]
          BY <1>6, <4>1
        <5>2. PICK a : a = DemoRow.home
          OBVIOUS
        <5>3. seat[e] = [code |-> code[e], home |-> a]
          BY <5>1, <5>2
        <5>4. QED
          BY <5>3
      <4>2. CASE e \notin seeded
        <5>1. seat[e] = NoSeat
          BY <1>6, <4>2
        <5>2. NoSeat.code = 0
          BY DEF NoSeat
        <5>3. QED
          BY <5>1, <5>2
      <4>3. QED
        BY <4>1, <4>2
    <3>2. QED
      BY <1>4, <1>5, <3>1
  <2>2. QED
    BY <1>4, <2>1 DEF CodesBounded
<1>14. RequestsFounded
  BY <1>10 DEF RequestsFounded, WellFounded, NoDesk
<1>15. AcceptedHaveSeats
  BY <1>10 DEF AcceptedHaveSeats, NoOffer
<1>16. AdmittedHaveAProfile
  <2>1. \A e \in Emails \ demos : login[e] = NoLogin
    BY <1>1
  <2>2. QED
    BY <2>1 DEF AdmittedHaveAProfile, Known
<1>17. UnverifiedWereMailed
  <2>1. \A e \in Emails : login[e] # NoLogin => e \in seeded
    BY <1>1
  <2>2. QED
    BY <1>9, <2>1 DEF UnverifiedWereMailed, Known
<1>18. InsertionsAreAlone
  BY <1>10 DEF InsertionsAreAlone, Inserting, NoDesk
<1>19. QED
  BY <1>12, <1>13, <1>14, <1>15, <1>16, <1>17, <1>18 DEF CredInv

\* Every step keeps the invariant.
LEMMA CredInvariantStep ==
  ASSUME CredInv, [CredNext]_credVars
  PROVE  CredInv'
<1>1. CASE CredNext
  BY <1>1, StepsMove, CredTypesStep, CodesBoundedStep, RequestsFoundedStep, AcceptedHaveSeatsStep,
     AdmittedHaveAProfileStep, UnverifiedWereMailedStep, InsertionsStep DEF CredInv
<1>2. CASE UNCHANGED credVars
  BY <1>2 DEF CredInv, credVars, credTables, CredTypeOK, CodesBounded, RequestsFounded, WellFounded,
     Known, AcceptedHaveSeats, AdmittedHaveAProfile, UnverifiedWereMailed, Handed,
     InsertionsAreAlone, Inserting
<1>3. QED
  BY <1>1, <1>2

\* The invariant holds in every behaviour.
LEMMA CredentialsInvariant == CredSpec => []CredInv
BY CredInitHolds, CredInvariantStep, PTL DEF CredSpec

-----------------------------------------------------------------------------
(* Results *)

\* Users, profiles, invitations, links and requests have their types for any
\* number of addresses, organisations, invitations and overlapping requests.
THEOREM CredentialsTypes == CredSpec => []CredTypeOK
<1>1. CredInv => CredTypeOK
  BY DEF CredInv
<1>2. QED
  BY <1>1, CredentialsInvariant, PTL

\* Whoever is approved or is in an organisation has an auditor profile,
\* whatever sign-ups, approvals and acceptances of invitations overlap
\* (approve_user of src/app/dashboard_router.py and accept_invite of
\* src/app/auth.py).
THEOREM ApprovalBringsAProfile == CredSpec => []AdmittedHaveAProfile
<1>1. CredInv => AdmittedHaveAProfile
  BY DEF CredInv
<1>2. QED
  BY <1>1, CredentialsInvariant, PTL

\* Who is verified stays so, though requests that loaded him unverified write
\* later; and the token that the database has for who is not verified was given
\* to the mailer for him, although mail goes out before the commit and requests
\* for it overlap.  Whether that mail arrived is not known to the code, which
\* ignores the mailer's answer (_send_or_log_verification_email of
\* src/app/auth.py).
THEOREM VerificationStays == CredSpec => VerificationIsKept
<1>1. ASSUME CredInv, CredInv', CredNext, NEW e \in Emails, side = "yee"
      PROVE  /\ Known(e) /\ login[e].verified => login'[e].verified
             /\ Known(e)' /\ ~login'[e].verified => \E arrived \in BOOLEAN :
                  [kind |-> "verify", to |-> e, key |-> login'[e].token, arrived |-> arrived] \in mail'
  <2>1. Moves
    BY <1>1, StepsMove DEF CredInv
  <2>2. login'[e] = login[e] \/ SoundRow(e, login'[e])
    BY <2>1 DEF Moves, UsersMove
  <2>3. Known(e) /\ login[e].verified => login'[e].verified
    BY <2>2 DEF SoundRow, Known
  <2>4. side' = "yee"
    BY <1>1, <2>1, TablesAfterStep DEF CredInv
  <2>5. UnverifiedWereMailed'
    BY <1>1 DEF CredInv
  <2>6. QED
    BY <2>3, <2>4, <2>5 DEF UnverifiedWereMailed, Handed
<1>2. CredInv /\ CredInv' /\ [CredNext]_credVars =>
        [\A e \in Emails : side = "yee" =>
          /\ Known(e) /\ login[e].verified => login'[e].verified
          /\ Known(e)' /\ ~login'[e].verified => \E arrived \in BOOLEAN :
                [kind |-> "verify", to |-> e, key |-> login'[e].token, arrived |-> arrived] \in mail']_credVars
  BY <1>1
<1>3. QED
  BY <1>2, CredentialsInvariant, PTL DEF CredSpec, VerificationIsKept

\* A second acceptance of an invitation changes neither the user nor the
\* profile: the first has left a profile, which a unique constraint keeps one.
THEOREM OneAcceptanceCounts == CredSpec => InvitationsAreSpentOnce
<1>1. ASSUME CredInv, CredNext, NEW r \in Desks,
             desk[r].op = "accept", desk'[r] = NoDesk, offer[desk[r].offer].state = "accepted"
      PROVE  UNCHANGED <<login, seat>>
  <2>1. WellFounded(desk[r]) /\ desk[r] # NoDesk /\ desk \in [Desks -> Reading \cup Admitting \cup {NoDesk}]
    BY <1>1 DEF CredInv, RequestsFounded, NoDesk, CredTypeOK
  <2>2. seat[desk[r].who] # NoSeat
    BY <1>1, <2>1 DEF CredInv, AcceptedHaveSeats, WellFounded
  <2>3. desk' # desk
    BY <1>1, <2>1
  <2>4. ASSUME NEW o \in Desks, Closed(o)
        PROVE  o = r
    BY <1>1, <2>1, <2>4 DEF Closed
  <2>5. ~TakeUp(r)
    BY <2>2 DEF TakeUp, Insertable
  <2>6. ~Enrol(r) /\ ~Remail(r) /\ ~NewPassword(r) /\ ~Admit(r)
    BY <1>1 DEF Enrol, Remail, NewPassword, Admit
  <2>7. ASSUME NEW o \in Desks, Enrol(o) \/ Remail(o) \/ NewPassword(o) \/ TakeUp(o) \/ Admit(o)
        PROVE  FALSE
    BY <2>4, <2>5, <2>6, <2>7 DEF Enrol, Remail, NewPassword, TakeUp, Admit
  <2>8. ASSUME NEW o \in Desks, Serve(o)
        PROVE  UNCHANGED <<login, seat>>
    BY <2>7, <2>8 DEF Serve, EnrolStart, RemailStart, ChangeStart, ResetStart, TakeUpStart, AdmitStart,
       Post, LoadRest, Forgo, credTables
  <2>9. \E o \in Desks : Serve(o)
    BY <1>1, <2>3 DEF CredNext, VerifyEmail, ForgotPassword, CompleteProfile, FinishOnboarding,
       RequestAccess, DeleteAuditorProfile, CreateAuditorProfile, InviteAuditor, OfferExpires,
       Reconcile, ResetDemoPassword
  <2>10. QED
    BY <2>8, <2>9
<1>2. CredInv /\ [CredNext]_credVars =>
        [\A r \in Desks :
            /\ desk[r].op = "accept" /\ desk'[r] = NoDesk
            /\ offer[desk[r].offer].state = "accepted"
            => UNCHANGED <<login, seat>>]_credVars
  BY <1>1
<1>3. QED
  BY <1>2, CredentialsInvariant, PTL DEF CredSpec, InvitationsAreSpentOnce
=============================================================================
