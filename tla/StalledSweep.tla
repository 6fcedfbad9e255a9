---------------------------- MODULE StalledSweep ----------------------------
(***************************************************************************)
(* The scheduled job that mails auditors whose announced submission never  *)
(* arrived (jobs/stalled_submissions.py, notify_stalled_submissions).      *)
(*                                                                         *)
(* A run selects the oldest stalled drafts once, mails their auditors one  *)
(* by one, and stamps the mailed ones in a single commit at the end.  The  *)
(* application goes on meanwhile: drafts are delivered, announced and      *)
(* removed, and the run decides by what it selected.  The cron service     *)
(* never runs two of them at once (render.yaml).                           *)
(*                                                                         *)
(* Time is counted in ticks, and every clock stops at the last value that  *)
(* a comparison of the code tells apart.                                   *)
(***************************************************************************)
EXTENDS Naturals, FiniteSets

CONSTANTS
    Audits,     \* submissions, in progress at first
    Limit,      \* --limit: how many one run selects
    Stall,      \* --stall-hours, in ticks
    Renotify,   \* --renotify-hours, in ticks
    MaxCrashes  \* bound: how many runs may die half-way

ASSUME SweepAssumption ==
    /\ IsFiniteSet(Audits)
    /\ Limit \in Nat \ {0}
    /\ Stall \in Nat
    /\ Renotify \in Nat \ {0}
    /\ MaxCrashes \in Nat

VARIABLES
    status,     \* status[a]: draft, submitted, or gone with its project
    rank,       \* rank[a]: order of submit_intended_at, 0 while it is null
    waited,     \* waited[a]: ticks since submit_intended_at
    silence,    \* silence[a]: ticks since submit_stall_notified_at
    mailed,     \* mailed[a]: ticks since a notice really left (not stored)
    reachable,  \* audits whose auditor profile has an e-mail address
    pc,         \* "idle", or "sending" while a run is in its loop
    todo,       \* selected audits the run has not handled yet
    known,      \* those of them that had an address when selected
    sent,       \* audits the run has mailed
    age,        \* ticks since the run's evaluation_time
    crashes     \* runs that died half-way

app == <<status, rank, waited, reachable>>
run == <<pc, todo, known, sent, age>>
vars == <<app, silence, mailed, run, crashes>>

\* "Never" and "at least Renotify ago" are the same to every comparison.
LongAgo == Renotify

TypeOK ==
    /\ status \in [Audits -> {"draft", "submitted", "gone"}]
    /\ rank \in [Audits -> Nat]
    /\ waited \in [Audits -> 0..Stall]
    /\ silence \in [Audits -> 0..LongAgo]
    /\ mailed \in [Audits -> 0..LongAgo]
    /\ reachable \in SUBSET Audits
    /\ pc \in {"idle", "sending"}
    /\ todo \in SUBSET Audits
    /\ known \in SUBSET todo
    /\ sent \in SUBSET Audits
    /\ age \in 0..LongAgo
    /\ crashes \in 0..MaxCrashes

Init ==
    /\ status = [a \in Audits |-> "draft"]
    /\ rank = [a \in Audits |-> 0]
    /\ waited = [a \in Audits |-> 0]
    /\ silence = [a \in Audits |-> LongAgo]
    /\ mailed = [a \in Audits |-> LongAgo]
    /\ reachable \in SUBSET Audits
    /\ pc = "idle"
    /\ todo = {} /\ known = {} /\ sent = {}
    /\ age = 0
    /\ crashes = 0

Announced == {a \in Audits : rank[a] # 0}
-----------------------------------------------------------------------------
(***************************************************************************)
(* What the application does to the rows, one commit at a time.            *)
(***************************************************************************)

\* record_submit_intent stamps submit_intended_at, once.
Announce(a) ==
    /\ status[a] = "draft" /\ rank[a] = 0
    /\ rank' = [rank EXCEPT ![a] = 1 + Cardinality(Announced)]
    /\ UNCHANGED <<status, waited, reachable, silence, mailed, run, crashes>>

\* submit_audit
Deliver(a) ==
    /\ status[a] = "draft"
    /\ status' = [status EXCEPT ![a] = "submitted"]
    /\ UNCHANGED <<rank, waited, reachable, silence, mailed, run, crashes>>

\* The project or the place is deleted.
Erase(a) ==
    /\ status[a] # "gone"
    /\ status' = [status EXCEPT ![a] = "gone"]
    /\ UNCHANGED <<rank, waited, reachable, silence, mailed, run, crashes>>

\* update_auditor_profile sets or clears the address.
ChangeAddress(a) ==
    /\ reachable' = IF a \in reachable THEN reachable \ {a} ELSE reachable \cup {a}
    /\ UNCHANGED <<status, rank, waited, silence, mailed, run, crashes>>

Later_Bug(n, last) == n + 1

Later(n, last) == IF n < last THEN n + 1 ELSE last

Tick ==
    /\ waited' = [a \in Audits |-> IF rank[a] = 0 THEN 0 ELSE Later(waited[a], Stall)]
    /\ silence' = [a \in Audits |-> Later(silence[a], LongAgo)]
    /\ mailed' = [a \in Audits |-> Later(mailed[a], LongAgo)]
    /\ age' = IF pc = "sending" THEN Later(age, LongAgo) ELSE age
    /\ UNCHANGED <<status, rank, reachable, pc, todo, known, sent, crashes>>
-----------------------------------------------------------------------------
(***************************************************************************)
(* One run of the sweep.                                                   *)
(***************************************************************************)
\* (Definitions named ..._Bug are mistakes the properties below would notice.)
Eligible_Bug == {a \in Audits : status[a] = "draft" /\ rank[a] # 0 /\ waited[a] = Stall}

\* The WHERE clause of the SELECT.
Eligible == {a \in Audits : /\ status[a] = "draft"
                            /\ rank[a] # 0
                            /\ waited[a] = Stall
                            /\ silence[a] = LongAgo}

\* ORDER BY submit_intended_at LIMIT limit
Selected == {a \in Eligible : Cardinality({b \in Eligible : rank[b] < rank[a]}) < Limit}

Start ==
    /\ pc = "idle"
    /\ pc' = "sending"
    /\ todo' = Selected
    /\ known' = Selected \cap reachable
    /\ sent' = {}
    /\ age' = 0
    /\ UNCHANGED <<app, silence, mailed, crashes>>

\* The loop takes the selected audits in their order.
IsNext(a) == /\ pc = "sending"
             /\ a \in todo
             /\ \A b \in todo : rank[a] <= rank[b]

Handled(a) == todo' = todo \ {a} /\ known' = known \ {a}

SkipAll_Bug(a) ==
    /\ IsNext(a)
    /\ todo' = {} /\ known' = {}
    /\ UNCHANGED <<app, silence, mailed, pc, sent, age, crashes>>
SkipStamps_Bug(a) ==
    /\ IsNext(a)
    /\ Handled(a)
    /\ sent' = sent \cup {a}
    /\ UNCHANGED <<app, silence, mailed, pc, age, crashes>>

\* No address, or the mail helper reports or raises a failure.
Skip(a) ==
    /\ IsNext(a)
    /\ Handled(a)
    /\ UNCHANGED <<app, silence, mailed, pc, sent, age, crashes>>

SkipUnknown(a) == a \notin known /\ Skip(a)
SendFails(a) == a \in known /\ Skip(a)

Send(a) ==
    /\ IsNext(a)
    /\ a \in known
    /\ Handled(a)
    /\ mailed' = [mailed EXCEPT ![a] = 0]
    /\ sent' = sent \cup {a}
    /\ UNCHANGED <<app, silence, pc, age, crashes>>

Close == pc' = "idle" /\ todo' = {} /\ known' = {} /\ sent' = {} /\ age' = 0

\* The stamp is the time the run was started, not the time of the mail; the
\* UPDATE of a row that is gone changes nothing.
Stamped == [a \in Audits |->
              IF a \in sent /\ status[a] # "gone" THEN age ELSE silence[a]]

Finish ==
    /\ pc = "sending" /\ todo = {}
    /\ silence' = Stamped
    /\ Close
    /\ UNCHANGED <<app, mailed, crashes>>

\* The job is killed, or the database is lost: mails have left, no stamp.
Crash ==
    /\ pc = "sending"
    /\ crashes < MaxCrashes
    /\ crashes' = crashes + 1
    /\ Close
    /\ UNCHANGED <<app, silence, mailed>>
-----------------------------------------------------------------------------
Application(a) == Announce(a) \/ Deliver(a) \/ Erase(a) \/ ChangeAddress(a)

Sweep == \/ Start \/ Finish
         \/ \E a \in Audits : SkipUnknown(a) \/ SendFails(a) \/ Send(a)

Next == Tick \/ Sweep \/ Crash \/ \E a \in Audits : Application(a)

Spec == Init /\ [][Next]_vars

\* Time passes, the cron service starts runs and a run goes on; a mail that is
\* tried again and again gets through in the end.  MaxCrashes bounds the runs
\* that die.
FairSpec == /\ Spec
            /\ WF_vars(Tick) /\ WF_vars(Start) /\ WF_vars(Finish)
            /\ \A a \in Audits : WF_vars(SkipUnknown(a) \/ SendFails(a) \/ Send(a))
            /\ \A a \in Audits : SF_vars(Send(a))
-----------------------------------------------------------------------------
\* An audit is silenced only by a mail that did leave: while the stamp keeps
\* it out of the selection, a notice is at most as old as the stamp.  Missing
\* addresses, mail failures and runs that die never silence anybody
\* (notify_stalled_submissions, "Only on confirmed delivery").
StampMeansSent ==
    \A a \in Audits : silence[a] < LongAgo => mailed[a] <= silence[a]

\* "a later run does not re-notify too soon": a mail leaves only when the
\* last stamp is at least Renotify old, also when the run that sends it was
\* started long ago.
NoEarlyRepeat ==
    [][\A a \in Audits : a \in sent' \ sent => silence[a] = LongAgo]_vars

\* What NoEarlyRepeat rests on: nobody else stamps, so what a run selected
\* stays unstamped while it is at work, and each audit is handled once.
RunOwnsItsSelection ==
    /\ \A a \in todo \cup sent : silence[a] = LongAgo
    /\ \A a \in sent : mailed[a] <= age
    /\ todo \cap sent = {}
    /\ pc = "idle" => todo \cup sent = {}

Waiting(a) == status[a] = "draft" /\ rank[a] # 0 /\ a \in reachable

\* An announced draft that is never delivered, of an auditor who keeps an
\* address, is noticed again and again, if one run can select everything.
EveryStalledNoticed ==
    \A a \in Audits : <>[]Waiting(a) => []<>(mailed[a] = 0)

\* stalled_submissions.py:6: "this job notices the stalled intent and emails
\* the auditor so the data is not silently lost", at least once and whatever
\* the limit.
NotSilentlyLost ==
    \A a \in Audits : <>[]Waiting(a) => <>(mailed[a] = 0)
=============================================================================
