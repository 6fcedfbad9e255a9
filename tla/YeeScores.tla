----------------------------- MODULE YeeScores -----------------------------
(***************************************************************************)
(* What a version of YEE's instrument must satisfy to be published         *)
(* (instrument_activation.py) and what an audit taken under it scores      *)
(* (scoring_engine.py) once its answers are complete                       *)
(* (submission_validation.py).  A version is either a legacy form, scored  *)
(* by the fixed table ITEM_SPECS, or an authored one that carries its own  *)
(* questions; a copy may change the wording of its parent, a structural    *)
(* version stands alone.                                                   *)
(*                                                                         *)
(* Left out: the order of the options of a question, prompts, a scalar     *)
(* answer for a whole matrix item, and rows that are deleted or activated  *)
(* concurrently (module Instruments).                                      *)
(***************************************************************************)
EXTENDS Integers, Sequences, FiniteSets, FiniteSetsExt, Totals

CONSTANTS
    Specs,          \* ITEM_SPECS: what the engine scores by itself
    Shipped,        \* the form in yee.active.instrument.json
    Forms,          \* what administrators try to publish
    Weightings,     \* the importance that a participant gives each domain
    MaxVersions,    \* bound: how many versions there are at most
    NoItem,         \* an item that a question does not bind
    NoAnswer

\* A label is what the clients' affirmative tests make of it.
MobileYes == {"yes", "and yes,"}
WebYes == {"yes", " yes"}
Labels == MobileYes \cup WebYes \cup {"other"}

Domains == {Specs[i].domain : i \in DOMAIN Specs}
NoFollow == [none |-> TRUE]

-----------------------------------------------------------------------------
(* The questions of a form *)

ScoresOf(options) == [o \in DOMAIN options |-> options[o].score]
LabelsOf(options) == [o \in DOMAIN options |-> options[o].label]
Offer(scores, labels) ==
    [o \in DOMAIN scores \cap DOMAIN labels |-> [score |-> scores[o], label |-> labels[o]]]
Paired(spec) == spec.cond # NoItem

\* The reading of one scored item of a form without authoring.
DerivedQuestion(f, spec) ==
    LET options == IF Paired(spec) /\ spec.cond \in DOMAIN f.items
                   THEN Offer(spec.condition, f.items[spec.cond].labels) ELSE <<>> IN
    [id |-> spec.id, domain |-> spec.domain, item |-> spec.item, choice |-> spec.choice, cond |-> spec.cond,
     method |-> IF Paired(spec) THEN "product" ELSE "option",
     options |-> Offer(spec.primary, f.items[spec.item].labels),
     follow |-> IF DOMAIN options = {} THEN NoFollow
                ELSE [triggers |-> {o \in DOMAIN spec.primary : spec.primary[o] > 0},
                      required |-> TRUE, options |-> options]]

\* In the order of ITEM_SPECS, what the items of the form can be asked for.
Read(f) == {i \in DOMAIN Specs : Specs[i].item \in DOMAIN f.items /\ Specs[i].choice \in f.items[Specs[i].item].choices}
NthRead(f, n) == CHOOSE i \in Read(f) : Cardinality({j \in Read(f) : j < i}) = n - 1
Derived(f) == [n \in 1..Cardinality(Read(f)) |-> DerivedQuestion(f, Specs[NthRead(f, n)])]

Questions(f) == IF f.authored THEN f.questions ELSE Derived(f)

\* An authored document that is only the view of the items is not stored.
Stripped(f) ==
    IF f.authored /\ f.questions = Derived(f) THEN [f EXCEPT !.authored = FALSE, !.questions = <<>>] ELSE f

-----------------------------------------------------------------------------
(* What is assumed of the constants *)

\* ITEM_SPECS: a pair has a second item with its scores, another item has none.
IsMarking(m) ==
    /\ m \in [DOMAIN m -> Int] /\ DOMAIN m # {} /\ IsFiniteSet(DOMAIN m) /\ NoAnswer \notin DOMAIN m

SpecsAssumption ==
    /\ Specs \in Seq({Specs[i] : i \in DOMAIN Specs})
    /\ \A i, j \in DOMAIN Specs : Specs[i].id = Specs[j].id => i = j
    /\ \A i \in DOMAIN Specs : LET s == Specs[i] IN
         /\ s = [id |-> s.id, domain |-> s.domain, item |-> s.item, choice |-> s.choice, cond |-> s.cond,
                 primary |-> s.primary, condition |-> s.condition]
         /\ s.item # NoItem /\ IsMarking(s.primary)
         /\ IF Paired(s) THEN IsMarking(s.condition) /\ \E o \in DOMAIN s.primary : s.primary[o] > 0
            ELSE s.condition = <<>>

\* The fields of a form, and those of its options.
IsOffer(options) ==
    IsFiniteSet(DOMAIN options) /\ NoAnswer \notin DOMAIN options /\ \A o \in DOMAIN options : options[o].score \in Int

IsForm(f) ==
    /\ f = [authored |-> f.authored, questions |-> f.questions, items |-> f.items] /\ f.authored \in BOOLEAN
    /\ f.questions \in Seq({f.questions[i] : i \in DOMAIN f.questions})
    /\ \A i \in DOMAIN f.questions : LET q == f.questions[i] IN
         IsOffer(q.options) /\ (q.follow # NoFollow => IsOffer(q.follow.options))

\* A form with a label for every answer that ITEM_SPECS scores; no gate asks for it.
Labelled(f) == \A i \in DOMAIN Specs : LET s == Specs[i] IN
    /\ s.item \in DOMAIN f.items /\ s.choice \in f.items[s.item].choices
    /\ DOMAIN s.primary \subseteq DOMAIN f.items[s.item].labels
    /\ Paired(s) => s.cond \in DOMAIN f.items /\ DOMAIN s.condition \subseteq DOMAIN f.items[s.cond].labels

YeeFormAssumption ==
    /\ Weightings \subseteq [Domains -> 0..3] /\ MaxVersions \in Nat \ {0}
    /\ ~Shipped.authored /\ Labelled(Shipped)
    /\ \A f \in Forms \cup {Shipped} : IsForm(f)

ASSUME SpecsAssumption
ASSUME YeeFormAssumption

VARIABLES
    versions,       \* the versions that have been published, in order
    current,        \* the active one
    enforced,       \* whether incomplete submissions are refused
    audit           \* one audit: its stamp, its answers and its stored score

yeeScoreVars == <<versions, current, enforced, audit>>

-----------------------------------------------------------------------------
(* Scoring *)

SpecOf(q) == [id |-> q.id, domain |-> q.domain, item |-> q.item, choice |-> q.choice, cond |-> q.cond,
              primary |-> ScoresOf(q.options),
              condition |-> IF q.follow = NoFollow THEN <<>> ELSE ScoresOf(q.follow.options)]

Scorable(q) ==
    /\ q.domain \in Domains /\ q.item # NoItem /\ DOMAIN q.options # {}
    /\ \/ q.method = "option" /\ q.cond = NoItem /\ q.follow = NoFollow
       \/ /\ q.method = "product" /\ q.cond # NoItem /\ q.follow # NoFollow
          /\ q.follow.triggers # {} /\ q.follow.triggers \subseteq DOMAIN q.options
          /\ DOMAIN q.follow.options # {}

DistinctIds(qs) == \A i, j \in DOMAIN qs : qs[i].id = qs[j].id => i = j
Resolves(f) == f.authored => DistinctIds(f.questions) /\ \A i \in DOMAIN f.questions : Scorable(f.questions[i])
Contract(f) == IF f.authored THEN [i \in DOMAIN f.questions |-> SpecOf(f.questions[i])] ELSE Specs

\* Answers are kept by cell: an item of the matrix and one of its choices.
Given(answers, item, choice) == IF <<item, choice>> \in DOMAIN answers THEN answers[<<item, choice>>] ELSE NoAnswer
Counts(spec, answers) == Given(answers, spec.item, spec.choice) \in DOMAIN spec.primary
ItemScore(spec, answers) ==
    LET primary == Given(answers, spec.item, spec.choice)
        condition == Given(answers, spec.cond, spec.choice)
    IN IF primary \notin DOMAIN spec.primary THEN 0
       ELSE IF ~Paired(spec) THEN spec.primary[primary]
       ELSE IF condition \notin DOMAIN spec.condition THEN 0
       ELSE spec.primary[primary] * spec.condition[condition]

ItemMaximum(spec) ==
    IF Paired(spec)
    THEN Max({0} \cup {spec.primary[o] * spec.condition[c] : o \in DOMAIN spec.primary, c \in DOMAIN spec.condition})
    ELSE Max({spec.primary[o] : o \in DOMAIN spec.primary})

InDomain(contract, d) == {i \in DOMAIN contract : contract[i].domain = d}
RawScore(contract, answers, d) == Total([i \in InDomain(contract, d) |-> ItemScore(contract[i], answers)])
RawMaximum(contract, d) == Total([i \in InDomain(contract, d) |-> ItemMaximum(contract[i])])

\* In hundredths: a sum over the items of a domain, averaged and weighted.
Hundredths(n, m) == (200 * n + m) \div (2 * m)
Weighted(contract, weights, sum, d) ==
    LET all == Total(weights)
        items == Cardinality(InDomain(contract, d))
    IN IF all = 0 \/ items = 0 THEN 0 ELSE Hundredths(sum * weights[d], items * all)

Snapshot(contract, answers, weights) ==
    [raw |-> [d \in Domains |-> RawScore(contract, answers, d)],
     maximum |-> [d \in Domains |-> RawMaximum(contract, d)],
     weighted |-> [d \in Domains |-> Weighted(contract, weights, RawScore(contract, answers, d), d)],
     weightedMaximum |-> [d \in Domains |-> Weighted(contract, weights, RawMaximum(contract, d), d)],
     gap |-> [d \in Domains |->
         Weighted(contract, weights, RawMaximum(contract, d) - RawScore(contract, answers, d), d)],
     matched |-> Cardinality({i \in DOMAIN contract : Counts(contract[i], answers)})]

-----------------------------------------------------------------------------
(* Completeness *)

Follows(q, answers) ==
    q.follow # NoFollow /\ q.cond # NoItem /\ Given(answers, q.item, q.choice) \in q.follow.triggers

Unanswered_Bug(q, answers) == Given(answers, q.item, q.choice) = NoAnswer

Unanswered(q, answers) ==
    \/ Given(answers, q.item, q.choice) = NoAnswer
    \/ Follows(q, answers) /\ q.follow.required /\ Given(answers, q.cond, q.choice) = NoAnswer

Missing(f, answers) == {Questions(f)[i].id : i \in {j \in DOMAIN Questions(f) : Unanswered(Questions(f)[j], answers)}}

-----------------------------------------------------------------------------
(* May a form be published? *)

Required == (UNION {{Specs[i].item, Specs[i].cond} : i \in DOMAIN Specs}) \ {NoItem}
HasScoringItems(f) == Required \subseteq DOMAIN f.items
HasScoringChoices(f) ==
    /\ HasScoringItems(f)
    /\ \A i \in DOMAIN Specs : /\ Specs[i].choice \in f.items[Specs[i].item].choices
                               /\ Paired(Specs[i]) => Specs[i].choice \in f.items[Specs[i].cond].choices

\* A structural version: its answers can be stored, shown and scored.
Binds(f, item, choice) == item \in DOMAIN f.items /\ choice \in f.items[item].choices
StandsAlone(f) ==
    /\ f.authored /\ f.questions # <<>> /\ DistinctIds(f.questions)
    /\ \A i \in DOMAIN f.questions : LET q == f.questions[i] IN
         /\ Binds(f, q.item, q.choice)
         /\ q.follow # NoFollow => /\ Binds(f, q.cond, q.choice)
                                   /\ q.follow.triggers # {} /\ q.follow.triggers \subseteq DOMAIN q.options
                                   /\ DOMAIN q.follow.options # {}
    /\ Resolves(f)

\* A copy: nothing that affects a score differs from its parent.
SameReading(q, p) ==
    \A o \in DOMAIN q.options \cap DOMAIN p.options :
        /\ q.options[o].label \in MobileYes <=> p.options[o].label \in MobileYes
        /\ q.options[o].label \in WebYes <=> p.options[o].label \in WebYes

Binding(q) == <<q.id, q.item, q.choice, q.cond>>
KeepsQuestion_Bug(q, p) ==
    /\ q.method = p.method /\ q.domain = p.domain
    /\ (q.follow = NoFollow) = (p.follow = NoFollow)
    /\ ScoresOf(q.options) = ScoresOf(p.options)
    /\ q.follow # NoFollow => /\ ScoresOf(q.follow.options) = ScoresOf(p.follow.options)
                              /\ q.follow.triggers = p.follow.triggers
    /\ SameReading(q, p)

KeepsQuestion(q, p) ==
    /\ q.method = p.method /\ q.domain = p.domain
    /\ (q.follow = NoFollow) = (p.follow = NoFollow)
    /\ ScoresOf(q.options) = ScoresOf(p.options)
    /\ q.follow # NoFollow => /\ ScoresOf(q.follow.options) = ScoresOf(p.follow.options)
                              /\ q.follow.triggers = p.follow.triggers
                              /\ q.follow.required = p.follow.required
    /\ SameReading(q, p)

KeepsStructure(qs, ps) ==
    /\ DOMAIN qs = DOMAIN ps /\ \A i \in DOMAIN qs : Binding(qs[i]) = Binding(ps[i])
    /\ DOMAIN qs = DOMAIN Specs /\ \A i \in DOMAIN qs : qs[i].id = Specs[i].id
    /\ \A i, j \in DOMAIN qs : qs[i].id = ps[j].id => KeepsQuestion(qs[i], ps[j])

\* What a form writes into the items of its parent, question by question.
Writes(qs) ==
    {[item |-> qs[i].item, choice |-> qs[i].choice, labels |-> LabelsOf(qs[i].options)] : i \in DOMAIN qs}
    \cup {[item |-> qs[i].cond, choice |-> qs[i].choice, labels |-> LabelsOf(qs[i].follow.options)] :
            i \in {j \in DOMAIN qs : qs[j].cond # NoItem /\ qs[j].follow # NoFollow}}

CanProject(qs, items) ==
    /\ \A w \in Writes(qs) : w.item \in DOMAIN items
    /\ \A w, x \in Writes(qs) : w.item = x.item /\ w.labels # x.labels => w.labels = items[w.item].labels

\* An item whose questions disagree about its options keeps its own.
Projected(qs, items) ==
    [m \in DOMAIN items |->
        LET into == {w \in Writes(qs) : w.item = m} IN
        IF Cardinality({w.labels : w \in into}) # 1 THEN items[m]
        ELSE LET labels == (CHOOSE w \in into : TRUE).labels IN
             [choices |-> items[m].choices \cup {w.choice : w \in into},
              labels |-> [o \in DOMAIN items[m].labels \cup DOMAIN labels |->
                            IF o \in DOMAIN labels THEN labels[o] ELSE items[m].labels[o]]]]

CopyOf(f, p) == [f EXCEPT !.items = Projected(f.questions, p.items)]
MayCopy(f, p) ==
    /\ CanProject(f.questions, p.items)
    /\ KeepsStructure(f.questions, Questions(p))
    /\ HasScoringChoices(p) /\ HasScoringChoices(CopyOf(f, p))

\* An authored form needs a parent that nobody can change any more.
NoParent == 0
Frozen(p) == p = current \/ p = audit.stamp
Admissible(f, kind, p) ==
    /\ HasScoringItems(f)
    /\ IF f.authored
       THEN /\ p # NoParent /\ Frozen(p)
            /\ IF kind = "structural" THEN StandsAlone(f) ELSE MayCopy(f, versions[p].form)
       ELSE kind = "copy_only"

Admitted(f, kind, p) == IF f.authored /\ kind = "copy_only" THEN CopyOf(f, versions[p].form) ELSE f

-----------------------------------------------------------------------------
(* Steps *)

Unstamped == 0
Untaken == [stamp |-> Unstamped, taken |-> FALSE, answers |-> <<>>, weights |-> <<>>, score |-> <<>>]

\* Before the catalogue, audits bore no stamp: the shipped form reads them.
FormOf(stamp) == IF stamp = Unstamped THEN Shipped ELSE versions[stamp].form

Cells(f) == {<<w.item, w.choice>> : w \in Writes(Questions(f))}
Begun(stamp, f, weights) ==
    [stamp |-> stamp, taken |-> TRUE, answers |-> [c \in Cells(f) |-> NoAnswer], weights |-> weights, score |-> <<>>]

YeeScoreInit ==
    /\ versions = <<[form |-> Shipped, parent |-> NoParent, kind |-> "copy_only"]>>
    /\ current = 1
    /\ enforced \in BOOLEAN
    /\ audit \in {Untaken} \cup {Begun(Unstamped, Shipped, weights) : weights \in Weightings}

Publish(f, kind, p) ==
    /\ Len(versions) < MaxVersions
    /\ Admissible(f, kind, p)
    /\ versions' = Append(versions, [form |-> Admitted(f, kind, p), parent |-> p, kind |-> kind])
    /\ current' = Len(versions')
    /\ UNCHANGED <<enforced, audit>>

\* A new version comes from a client that may send back the derived view; a
\* draft was forked from its parent with that view stored in it.
CreateActive == \E f \in Forms, kind \in {"copy_only", "structural"}, p \in DOMAIN versions \cup {NoParent} :
    Publish(Stripped(f), kind, p)

PublishDraft == \E f \in Forms, kind \in {"copy_only", "structural"}, p \in DOMAIN versions :
    f.authored /\ Publish(f, kind, p)

\* An older version becomes active again; a copy is projected again.
ActivateAgain == \E v \in DOMAIN versions, kind \in {"copy_only", "structural"} :
    /\ Admissible(versions[v].form, kind, versions[v].parent)
    /\ versions' = [versions EXCEPT ![v].form = Admitted(@, kind, versions[v].parent), ![v].kind = kind]
    /\ current' = v
    /\ UNCHANGED <<enforced, audit>>

\* By the active version, or by one that a phone still holds.
StartAudit == \E weights \in Weightings, stamp \in DOMAIN versions :
    /\ ~audit.taken
    /\ Resolves(FormOf(stamp))
    /\ audit' = Begun(stamp, FormOf(stamp), weights)
    /\ UNCHANGED <<versions, current, enforced>>

\* What scoring by its stamp gives, and what a reader is shown: the stored score,
\* or else the audit is scored again.
Scored == Snapshot(Contract(FormOf(audit.stamp)), audit.answers, audit.weights)
ScoreShown == IF audit.score # <<>> THEN audit.score[1] ELSE Scored

\* Clients offer the options of a question, and of its follow-up while it shows.
Reply == \E i \in DOMAIN Questions(FormOf(audit.stamp)) :
    LET q == Questions(FormOf(audit.stamp))[i] IN
    /\ audit.taken /\ audit.score = <<>>
    /\ \/ \E o \in DOMAIN q.options : audit' = [audit EXCEPT !.answers[<<q.item, q.choice>>] = o]
       \/ /\ Follows(q, audit.answers)
          /\ \E o \in DOMAIN q.follow.options : audit' = [audit EXCEPT !.answers[<<q.cond, q.choice>>] = o]
    /\ UNCHANGED <<versions, current, enforced>>

SubmitAnswers ==
    /\ audit.taken /\ audit.score = <<>>
    /\ Resolves(FormOf(audit.stamp))
    /\ enforced => Missing(FormOf(audit.stamp), audit.answers) = {}
    /\ audit' = [audit EXCEPT !.score = <<Scored>>]
    /\ UNCHANGED <<versions, current, enforced>>

YeeScoreNext == CreateActive \/ PublishDraft \/ ActivateAgain \/ StartAudit \/ Reply \/ SubmitAnswers
YeeScoreSpec == YeeScoreInit /\ [][YeeScoreNext]_yeeScoreVars

-----------------------------------------------------------------------------
(* Properties *)

\* Versions, stamps and stored scores have their shapes.
YeeScoreTypeOK ==
    /\ current \in DOMAIN versions /\ Len(versions) <= MaxVersions
    /\ \A v \in DOMAIN versions : versions[v].parent \in {NoParent} \cup DOMAIN versions
    /\ audit.stamp \in {Unstamped} \cup DOMAIN versions
    /\ Len(audit.score) <= 1

\* A form that asks for whatever its contract scores.
Entire(f) == IF f.authored THEN Resolves(f) ELSE Labelled(f)

\* instrument_activation.py, what a publication promises to audits.  A copy asks
\* for the same answers as its parent does, and every published version can
\* score an audit, a copy with the scores of its parent.  One way leads out of
\* the second promise, a copy of a form without authoring that lacks labels
\* (the gate of a copy compares the questions, and those read from such a form
\* lack options), and copies of that copy.  The score that is shown is what
\* scoring by the audit's stamp now gives.
PublishedVersionsScore ==
    /\ \A v \in DOMAIN versions :
         LET f == versions[v].form
             p == versions[versions[v].parent].form
             copied == versions[v].parent # NoParent /\ versions[v].kind = "copy_only" /\ f.authored
         IN /\ copied => Missing(f, audit.answers) = Missing(p, audit.answers)
            /\ (copied => Entire(p)) => Resolves(f)
            /\ copied /\ Entire(p) /\ audit.taken =>
                 Snapshot(Contract(f), audit.answers, audit.weights)
                    = Snapshot(Contract(p), audit.answers, audit.weights)
    /\ audit.taken /\ Resolves(FormOf(audit.stamp)) => ScoreShown = Scored

\* Two questions do not share a cell, nor a question with its own follow-up.
OwnCells(f) ==
    LET qs == Questions(f) IN
    \A i, j \in DOMAIN qs : qs[i].choice = qs[j].choice =>
        /\ qs[i].item = qs[j].item => i = j
        /\ qs[i].cond # NoItem => qs[i].cond # qs[j].item /\ (qs[i].cond = qs[j].cond => i = j)

\* What a question is worth by what its auditor sees: an answer of a follow-up
\* counts only while it shows.
Worth(q, answers) ==
    LET primary == Given(answers, q.item, q.choice) IN
    IF q.method = "option" THEN q.options[primary].score
    ELSE IF ~Follows(q, answers) \/ Given(answers, q.cond, q.choice) = NoAnswer THEN 0
    ELSE q.options[primary].score * q.follow.options[Given(answers, q.cond, q.choice)].score

\* submission_validation.py with scoring_engine.py.  Where completeness is
\* enforced, the form asks for what it scores (Entire) and every question has a
\* cell of its own, a submission scores every question for what it shows: no
\* item is unmatched, no follow-up that the instrument requires is missing, an
\* answer of a follow-up that is hidden again counts nothing where its question
\* scored nothing, and no domain, raw or weighted, exceeds its maximum or
\* differs from it by more than its gap.
CompleteAuditsCount ==
    LET f == FormOf(audit.stamp)
        qs == Questions(f)
        score == audit.score[1]
    IN enforced /\ audit.score # <<>> /\ Entire(f) /\ OwnCells(f) =>
         /\ score.matched = Len(qs)
         /\ \A i \in DOMAIN qs :
              /\ Follows(qs[i], audit.answers) /\ qs[i].follow.required =>
                   Given(audit.answers, qs[i].cond, qs[i].choice) \in DOMAIN qs[i].follow.options
              /\ \A o \in DOMAIN qs[i].options :
                   (qs[i].method = "product" /\ o \notin qs[i].follow.triggers => qs[i].options[o].score = 0)
                   => (Given(audit.answers, qs[i].item, qs[i].choice) = o
                         => ItemScore(SpecOf(qs[i]), audit.answers) = Worth(qs[i], audit.answers))
         /\ \A d \in Domains :
              /\ score.raw[d] <= score.maximum[d]
              /\ score.weighted[d] <= score.weightedMaximum[d]
              /\ score.weightedMaximum[d] - score.weighted[d] - score.gap[d] \in {-1, 0, 1}
=============================================================================
