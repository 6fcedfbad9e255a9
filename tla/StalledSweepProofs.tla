------------------------- MODULE StalledSweepProofs -------------------------
(***************************************************************************)
(* Safety of the stalled-submission sweep, for any number of audits and    *)
(* any limit and periods: types, the selection a run owns, stamps only     *)
(* after mails, and no mail inside the renotify window.                    *)
(***************************************************************************)
EXTENDS StalledSweep, FiniteSetTheorems, TLAPS

\* Clocks stay in their range, and never run backwards.
LEMMA LaterType ==
  ASSUME NEW last \in Nat, NEW n \in 0..last
  PROVE  Later(n, last) \in 0..last /\ n <= Later(n, last)
BY DEF Later

\* A later clock never shows less: what was mailed before the stamp was set
\* stays so as time goes on.
LEMMA LaterMonotone ==
  ASSUME NEW last \in Nat, NEW m \in 0..last, NEW n \in 0..last, m <= n
  PROVE  Later(m, last) <= Later(n, last)
BY DEF Later

LEMMA AnnouncedCount ==
  Cardinality(Announced) \in Nat
<1>1. IsFiniteSet(Announced)
  BY SweepAssumption, FS_Subset DEF Announced
<1>2. QED
  BY <1>1, FS_CardinalityType

\* The variables of a run are unchanged when the application moves.
LEMMA ApplicationFrame ==
  ASSUME NEW a \in Audits, Application(a)
  PROVE  UNCHANGED <<silence, mailed, run, crashes>>
BY DEF Application, Announce, Deliver, Erase, ChangeAddress

\* Skipping an audit changes nothing but the list of what is left to do.
LEMMA SkipFrame ==
  ASSUME NEW a \in Audits, SkipUnknown(a) \/ SendFails(a)
  PROVE  /\ IsNext(a) /\ Handled(a)
         /\ UNCHANGED <<app, silence, mailed, pc, sent, age, crashes>>
BY DEF SkipUnknown, SendFails, Skip

\* Clocks, runs and rows have their types, for any limit and periods.
THEOREM TypeCorrect == Spec => []TypeOK
<1>1. Init => TypeOK
  BY SweepAssumption DEF Init, TypeOK, LongAgo
<1>2. TypeOK /\ [Next]_vars => TypeOK'
  <2> SUFFICES ASSUME TypeOK, [Next]_vars
      PROVE  TypeOK'
    OBVIOUS
  <2> USE SweepAssumption
  <2>1. CASE Tick
    <3>1. waited' \in [Audits -> 0..Stall]
      BY <2>1, LaterType DEF TypeOK, Tick
    <3>2. silence' \in [Audits -> 0..LongAgo] /\ mailed' \in [Audits -> 0..LongAgo]
      BY <2>1, LaterType DEF TypeOK, Tick, LongAgo
    <3>3. age' \in 0..LongAgo
      BY <2>1, LaterType DEF TypeOK, Tick, LongAgo
    <3>4. QED
      BY <2>1, <3>1, <3>2, <3>3 DEF TypeOK, Tick
  <2>2. CASE Start
    BY <2>2 DEF TypeOK, Start, app, Selected, Eligible, LongAgo
  <2>3. CASE Finish
    <3>1. silence' \in [Audits -> 0..LongAgo]
      BY <2>3 DEF TypeOK, Finish, Stamped
    <3>2. QED
      BY <2>3, <3>1 DEF TypeOK, Finish, Close, app, LongAgo
  <2>4. ASSUME NEW a \in Audits, SkipUnknown(a) \/ SendFails(a)
        PROVE  TypeOK'
    BY <2>4, SkipFrame DEF TypeOK, Handled, app
  <2>5. ASSUME NEW a \in Audits, Send(a)
        PROVE  TypeOK'
    BY <2>5 DEF TypeOK, Send, Handled, app, LongAgo
  <2>6. CASE Crash
    BY <2>6 DEF TypeOK, Crash, Close, app, LongAgo
  <2>7. ASSUME NEW a \in Audits, Application(a)
        PROVE  TypeOK'
    <3>1. UNCHANGED <<silence, mailed, run, crashes>>
      BY <2>7, ApplicationFrame
    <3>2. CASE Announce(a)
      BY <3>2, AnnouncedCount DEF TypeOK, Announce, run
    <3>3. CASE Deliver(a) \/ Erase(a) \/ ChangeAddress(a)
      BY <3>3 DEF TypeOK, Deliver, Erase, ChangeAddress, run
    <3>4. QED
      BY <2>7, <3>2, <3>3 DEF Application
  <2>8. CASE UNCHANGED vars
    BY <2>8 DEF TypeOK, vars, app, run
  <2>9. QED
    BY <2>1, <2>2, <2>3, <2>4, <2>5, <2>6, <2>7, <2>8 DEF Next, Sweep
<1>3. QED
  BY <1>1, <1>2, PTL DEF Spec

\* The inductive invariant: what a run works on is unstamped, what it has
\* mailed is younger than the run, and old stamps cover older mails.
Inv == TypeOK /\ RunOwnsItsSelection /\ StampMeansSent

LEMMA InvPreserved ==
  ASSUME Inv, TypeOK', [Next]_vars
  PROVE  Inv'
<1> USE SweepAssumption
<1>1. CASE Tick
  <2>1. \A a \in Audits : /\ silence'[a] = Later(silence[a], LongAgo)
                          /\ mailed'[a] = Later(mailed[a], LongAgo)
                          /\ silence[a] <= silence'[a]
                          /\ silence'[a] <= LongAgo
    BY <1>1, LaterType DEF Inv, TypeOK, Tick, LongAgo
  <2>2. StampMeansSent'
    <3> SUFFICES ASSUME NEW a \in Audits, silence'[a] < LongAgo
        PROVE  mailed'[a] <= silence'[a]
      BY DEF StampMeansSent, LongAgo
    <3>1. silence[a] < LongAgo /\ silence[a] \in 0..LongAgo /\ mailed[a] \in 0..LongAgo
      BY <2>1 DEF Inv, TypeOK, LongAgo
    <3>2. mailed[a] <= silence[a]
      BY <3>1 DEF Inv, StampMeansSent
    <3>3. QED
      BY <2>1, <3>1, <3>2, LaterMonotone DEF LongAgo
  <2>3. \A a \in todo \cup sent : silence'[a] = LongAgo
    BY <2>1 DEF Inv, TypeOK, RunOwnsItsSelection, LongAgo, Later
  <2>4. ASSUME NEW a \in sent
        PROVE  mailed'[a] <= age'
    <3>1. pc = "sending" /\ a \in Audits /\ mailed[a] <= age
      BY DEF Inv, TypeOK, RunOwnsItsSelection
    <3>2. mailed[a] \in 0..LongAgo /\ age \in 0..LongAgo /\ LongAgo \in Nat
      BY <3>1 DEF Inv, TypeOK, LongAgo
    <3>3. age' = Later(age, LongAgo) /\ mailed'[a] = Later(mailed[a], LongAgo)
      BY <1>1, <2>1, <3>1 DEF Tick
    <3>4. QED
      BY <3>1, <3>2, <3>3, LaterMonotone
  <2>5. QED
    BY <1>1, <2>2, <2>3, <2>4 DEF Inv, RunOwnsItsSelection, Tick, TypeOK, LongAgo
<1>2. CASE Start
  BY <1>2 DEF Inv, TypeOK, RunOwnsItsSelection, StampMeansSent, Start, Selected, Eligible, app, LongAgo
<1>3. CASE Finish
  <2>1. \A a \in Audits : /\ mailed'[a] = mailed[a]
                          /\ silence'[a] = IF a \in sent /\ status[a] # "gone"
                                             THEN age ELSE silence[a]
    BY <1>3 DEF Finish, Stamped
  <2>2. StampMeansSent'
    BY <2>1 DEF Inv, RunOwnsItsSelection, StampMeansSent, LongAgo
  <2>3. QED
    BY <1>3, <2>2 DEF Inv, RunOwnsItsSelection, Finish, Close
<1>4. ASSUME NEW a \in Audits, SkipUnknown(a) \/ SendFails(a)
      PROVE  Inv'
  BY <1>4, SkipFrame DEF Inv, RunOwnsItsSelection, StampMeansSent, Handled, LongAgo
<1>5. ASSUME NEW a \in Audits, Send(a)
      PROVE  Inv'
  <2>1. /\ \A b \in Audits : mailed'[b] = IF b = a THEN 0 ELSE mailed[b]
        /\ sent' = sent \cup {a} /\ todo' = todo \ {a}
        /\ silence' = silence /\ age' = age /\ a \in todo
        /\ pc = "sending" /\ pc' = "sending"
    BY <1>5 DEF Inv, TypeOK, Send, Handled, IsNext
  <2>2. StampMeansSent'
    BY <2>1 DEF Inv, TypeOK, StampMeansSent, LongAgo
  <2>3. RunOwnsItsSelection'
    BY <2>1 DEF Inv, TypeOK, RunOwnsItsSelection, LongAgo
  <2>4. QED
    BY <2>2, <2>3 DEF Inv
<1>6. CASE Crash
  BY <1>6 DEF Inv, RunOwnsItsSelection, StampMeansSent, Crash, Close, LongAgo
<1>7. ASSUME NEW a \in Audits, Application(a)
      PROVE  Inv'
  BY <1>7, ApplicationFrame DEF Inv, RunOwnsItsSelection, StampMeansSent, run, LongAgo
<1>8. CASE UNCHANGED vars
  BY <1>8 DEF Inv, RunOwnsItsSelection, StampMeansSent, vars, run, LongAgo
<1>9. QED
  BY <1>1, <1>2, <1>3, <1>4, <1>5, <1>6, <1>7, <1>8 DEF Next, Sweep

\* A stamp is of a mail that left, and what a run works on is its own.
THEOREM Owned == Spec => [](StampMeansSent /\ RunOwnsItsSelection)
<1>1. Init => RunOwnsItsSelection /\ StampMeansSent
  BY SweepAssumption DEF Init, RunOwnsItsSelection, StampMeansSent, LongAgo
<1>2. QED
  BY <1>1, TypeCorrect, InvPreserved, PTL DEF Spec, Inv

\* What a run has selected or mailed stays its own until it ends
\* (notify_stalled_submissions), whatever the application does meanwhile.
THEOREM Selection == Spec => []RunOwnsItsSelection
BY Owned, PTL

\* A mail that leaves is never inside the renotify window of a stamp.
THEOREM Quiet == Spec => NoEarlyRepeat
<1>1. RunOwnsItsSelection /\ [Next]_vars =>
        [\A a \in Audits : a \in sent' \ sent => silence[a] = LongAgo]_vars
  <2> SUFFICES ASSUME RunOwnsItsSelection, Next, NEW a \in Audits, a \in sent' \ sent
      PROVE  silence[a] = LongAgo
    OBVIOUS
  <2>1. ASSUME NEW b \in Audits, Send(b)
        PROVE  a \in todo
    BY <2>1 DEF Send, IsNext
  <2>2. ASSUME NEW b \in Audits, SkipUnknown(b) \/ SendFails(b)
        PROVE  FALSE
    BY <2>2, SkipFrame
  <2>3. ASSUME NEW b \in Audits, Application(b)
        PROVE  FALSE
    BY <2>3, ApplicationFrame DEF run
  <2>4. a \in todo
    BY <2>1, <2>2, <2>3 DEF Next, Sweep, Tick, Start, Finish, Crash, Close
  <2>5. QED
    BY <2>4 DEF RunOwnsItsSelection
<1>2. QED
  BY <1>1, Owned, PTL DEF Spec, NoEarlyRepeat
=============================================================================
