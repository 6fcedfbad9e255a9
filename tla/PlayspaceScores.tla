--------------------------- MODULE PlayspaceScores ---------------------------
(***************************************************************************)
(* Progress and scores of a Playspace audit (scoring.py), over the answers *)
(* that its saves accept (audit_state.py) and the version of the           *)
(* instrument that reads them (_resolve_playspace_instrument_for_audit),   *)
(* while other versions are published.  Answers stay in their rows when    *)
(* later answers hide their question or their scale, and when a version    *)
(* becomes active that asks something else.                                *)
(***************************************************************************)
EXTENDS Integers, FiniteSets, FiniteSetsExt

CONSTANTS
    Edition,        \* the content of each version of the instrument, by question key
    OnDisk,         \* the version in the file, used when the table has none
    NoEdition

Editions == DOMAIN Edition
Scales == {"provision", "variety", "challenge", "sociability"}
Modes == {"audit", "survey", "both"}
\* By section and question: a condition names a question of its own section.
QuestionKeys == UNION {DOMAIN Edition[v] : v \in Editions}

\* SOCIABILITY_MULTI_SELECT_KEYS
SociabilityKeys == {"play_alone", "small_group", "large_group"}

Keys(question, s) == {o.key : o \in question.scales[s].options}

\* What is validated before auditors see an edition (InstrumentScaleOptionResponse,
\* _validate_sociability_scale, _validate_instrument_identities): questions and
\* scales are of known kinds, a scaled question has scales, no two options of a
\* scale share a key, and options of company that can be named together are the
\* three given ones, each worth one.  Numbers may be any, Unsure may open
\* follow-ups, and a condition may name any answer.
EditionAssumption ==
    /\ OnDisk \in Editions /\ NoEdition \notin Editions
    /\ \A v \in Editions : IsFiniteSet(DOMAIN Edition[v])
    /\ \A v \in Editions : \A q \in DOMAIN Edition[v] :
         LET question == Edition[v][q] IN
         /\ question.mode \in Modes /\ question.type \in {"scaled", "checklist"}
         /\ IsFiniteSet(question.domains)
         /\ DOMAIN question.scales \subseteq Scales
         /\ question.type = "scaled" => DOMAIN question.scales # {}
         /\ \A s \in DOMAIN question.scales :
              /\ IsFiniteSet(question.scales[s].options)
              /\ \A o \in question.scales[s].options :
                   /\ o.add \in Int /\ o.boost \in Int /\ o.kind \in {"plain", "unsure", "na"}
                   /\ \A other \in question.scales[s].options : o.key = other.key => o = other
              /\ s = "sociability" /\ question.scales[s].multiple =>
                   /\ Keys(question, s) = SociabilityKeys
                   /\ \A o \in question.scales[s].options : o.kind = "plain" /\ o.add = 1 /\ o.boost = 1

ASSUME EditionAssumption

VARIABLES
    stored,         \* the versions that have a row in the table instruments
    active,         \* the one that is active, or NoEdition
    stamp,          \* the version that the audit's row names, or NoEdition before it is created
    mode,           \* its execution mode
    spaceSetUp,     \* whether the required pre-audit questions are answered
    answers,        \* answers[q]: what is stored of a question, by scale
    scored          \* what its submission computed, or NotScored

scoreVars == <<stored, active, stamp, mode, spaceSetUp, answers, scored>>

-----------------------------------------------------------------------------
(* Stored answers *)

\* A scale answer: one option key, or several.
One(key) == [list |-> FALSE, keys |-> {key}]
Several(keys) == [list |-> TRUE, keys |-> keys]

\* The option of a single choice; an answer that is no option reads as none.
Chosen(question, given, s) ==
    IF s \in DOMAIN question.scales /\ s \in DOMAIN given
    THEN {o \in question.scales[s].options : ~given[s].list /\ given[s].keys = {o.key}}
    ELSE {}

-----------------------------------------------------------------------------
(* Which version reads the audit *)

AnsweredKeys == {q \in QuestionKeys : DOMAIN answers[q] # {}}
Matches(v) == Cardinality(AnsweredKeys \cap DOMAIN Edition[v])

ReadsEveryAnswer(v) ==
    \A q \in AnsweredKeys \cap DOMAIN Edition[v] :
        \A s \in DOMAIN Edition[v][q].scales \cap DOMAIN answers[q] :
            /\ answers[q][s].list = Edition[v][q].scales[s].multiple
            /\ answers[q][s].keys \subseteq Keys(Edition[v][q], s)

Resolved ==
    IF stamp \in stored
    THEN IF active # NoEdition /\ Matches(active) > Matches(stamp) /\ ReadsEveryAnswer(active)
         THEN active ELSE stamp
    ELSE IF active # NoEdition THEN active ELSE OnDisk

-----------------------------------------------------------------------------
(* Progress *)

Holds(c, given) ==
    /\ c.question \in DOMAIN given /\ c.scale \in DOMAIN given[c.question]
    /\ given[c.question][c.scale].keys \cap c.anyOf # {}
Shows(question, given) == question.showIf = {} \/ \E c \in question.showIf : Holds(c, given)

Visible(v, m, given) ==
    {q \in DOMAIN Edition[v] : /\ m = "both" \/ (m # "none" /\ Edition[v][q].mode \in {m, "both"})
                               /\ Shows(Edition[v][q], given)}

\* A follow-up must be answered with options of its scale, one or several.
FollowUpComplete_Bug(question, given, s) == s \in DOMAIN given
FollowUpComplete(question, given, s) ==
    IF question.scales[s].multiple
    THEN s \in DOMAIN given /\ given[s].list /\ given[s].keys # {} /\ given[s].keys \subseteq Keys(question, s)
    ELSE Chosen(question, given, s) # {}

Complete(question, given) ==
    IF question.type = "checklist"
    THEN "checklist" \in DOMAIN given
    ELSE \E p \in Chosen(question, given, "provision") :
            p.more => \A s \in DOMAIN question.scales \ {"provision"} : FollowUpComplete(question, given, s)

\* The questions about the space are asked in an audit only, and required there.
SpaceComplete == mode \in {"audit", "both"} => spaceSetUp

ReadyToSubmit(v, given) ==
    LET visible == Visible(v, mode, given) IN
    /\ SpaceComplete
    /\ visible # {}
    /\ \A q \in visible : Edition[v][q].required => Complete(Edition[v][q], given[q])

-----------------------------------------------------------------------------
(* Scores *)

Policies == {"excluded", "zero", "max"}
Columns == Scales \cup {"play_value", "usability"}
Nought == [total |-> [c \in Columns |-> 0], max |-> [c \in Columns |-> 0]]
Plus(x, y) == [total |-> [c \in Columns |-> x.total[c] + y.total[c]],
               max |-> [c \in Columns |-> x.max[c] + y.max[c]]]

Best(values, least) == Max(values \cup {least})
Candidates(question, s) == {o \in question.scales[s].options : o.kind = "plain"}
Excluding_Bug(option, policy) == option.kind = "na" \/ (option.kind = "unsure" /\ policy # "max")
Excluding(option, policy) == option.kind = "na" \/ (option.kind = "unsure" /\ policy = "excluded")

\* Variety and challenge add a column of their own and multiply the construct.
Column(option) == Best({option.add - 1}, 0)
MostOf(question, s) ==
    IF s \notin DOMAIN question.scales THEN [total |-> 0, boost |-> 1]
    ELSE [total |-> Best({Column(o) : o \in Candidates(question, s)}, 0),
          boost |-> Best({o.boost : o \in Candidates(question, s)}, 1)]

FollowUp(question, given, s, policy) ==
    LET most == MostOf(question, s)
        none == [total |-> 0, boost |-> 1]
    IN
    CASE Chosen(question, given, s) = {} -> [total |-> 0, boost |-> 1, most |-> most]
      [] OTHER -> LET o == CHOOSE o \in Chosen(question, given, s) : TRUE IN
         CASE Excluding(o, policy) -> [total |-> 0, boost |-> 1, most |-> none]
           [] o.kind = "unsure" /\ policy = "max" -> [total |-> most.total, boost |-> most.boost, most |-> most]
           [] o.kind = "unsure" /\ policy = "zero" -> [total |-> 0, boost |-> 1, most |-> most]
           [] OTHER -> [total |-> Column(o), boost |-> IF o.add <= 0 THEN 1 ELSE o.boost, most |-> most]

Multiple(question) == "sociability" \in DOMAIN question.scales /\ question.scales["sociability"].multiple
MostSociable(question) == IF Multiple(question) THEN 3 ELSE MostOf(question, "sociability").total

\* A scale with other options than the given ones, or a stored answer that the
\* scale does not read, is a ValueError, unlike an answer that is missing.
Unreadable(question, given) ==
    /\ Multiple(question)
    /\ \/ Keys(question, "sociability") # SociabilityKeys
       \/ /\ "sociability" \in DOMAIN given
          /\ LET a == given["sociability"] IN ~(a.list /\ a.keys # {} /\ a.keys \subseteq SociabilityKeys)

Sociable(question, given, policy) ==
    IF Multiple(question)
    THEN [total |-> IF "sociability" \in DOMAIN given THEN Cardinality(given["sociability"].keys) ELSE 0, max |-> 3]
    ELSE LET read == FollowUp(question, given, "sociability", policy) IN
         [total |-> read.total, max |-> read.most.total]

\* The columns of a question, once it is known what its follow-ups give.
Tally(question, provision, variety, challenge, sociability) ==
    LET most == Best({o.add : o \in Candidates(question, "provision")}, 0)
        construct(name) ==
            IF name \notin question.constructs THEN [total |-> 0, max |-> 0]
            ELSE [total |-> provision * variety.boost * challenge.boost,
                  max |-> most * variety.most.boost * challenge.most.boost]
        column(c) ==
            CASE c = "provision" -> [total |-> provision, max |-> most]
              [] c = "variety" -> [total |-> variety.total, max |-> variety.most.total]
              [] c = "challenge" -> [total |-> challenge.total, max |-> challenge.most.total]
              [] c = "sociability" -> sociability
              [] OTHER -> construct(c)
    IN [total |-> [c \in Columns |-> column(c).total], max |-> [c \in Columns |-> column(c).max]]

\* _score_question
QuestionScore(question, given, policy) ==
    LET full(s) == LET m == MostOf(question, s) IN [total |-> m.total, boost |-> m.boost, most |-> m]
        none(s) == [total |-> 0, boost |-> 1, most |-> MostOf(question, s)]
        best == Best({o.add : o \in Candidates(question, "provision")}, 0)
    IN
    IF question.type # "scaled" \/ Chosen(question, given, "provision") = {} THEN Nought
    ELSE LET p == CHOOSE p \in Chosen(question, given, "provision") : TRUE IN
      IF Excluding(p, policy) THEN Nought
      ELSE IF p.kind = "unsure" /\ policy = "max"
      THEN Tally(question, best, full("variety"), full("challenge"),
                 [total |-> MostSociable(question), max |-> MostSociable(question)])
      ELSE IF p.more
      THEN Tally(question, p.add, FollowUp(question, given, "variety", policy),
                 FollowUp(question, given, "challenge", policy), Sociable(question, given, policy))
      ELSE Tally(question, p.add, none("variety"), none("challenge"),
                 [total |-> 0, max |-> IF Multiple(question) /\ p.kind # "unsure" THEN 0 ELSE MostSociable(question)])

\* _add_score_totals, over the questions or domains of S
Sum(tally, S) == MapThenFoldSet(Plus, Nought, LAMBDA x : tally[x], LAMBDA T : CHOOSE x \in T : TRUE, S)

\* score_audit: by section, by domain and by partition.  The overall score is
\* the sum over domains: a question counts once for each of its domains.
Buckets(v, given, policy) ==
    LET asked == Edition[v]
        seen == Visible(v, mode, given)
        tally == [q \in seen |-> QuestionScore(asked[q], given[q], policy)]
        domain == [d \in UNION {asked[q].domains : q \in seen} |-> Sum(tally, {q \in seen : d \in asked[q].domains})]
    IN [overall |-> Sum(domain, DOMAIN domain),
        audit |-> Sum(tally, {q \in seen : asked[q].mode \in {"audit", "both"}}),
        survey |-> Sum(tally, {q \in seen : asked[q].mode \in {"survey", "both"}}),
        section |-> [s \in {asked[q].section : q \in seen} |-> Sum(tally, {q \in seen : asked[q].section = s})],
        domain |-> domain]

\* _count_unsure_answers
UnsureAnswers_Bug(v, given) ==
    {at \in Visible(v, mode, given) \X Scales :
        LET question == Edition[v][at[1]] reply == given[at[1]] IN
        /\ question.type = "scaled" /\ Chosen(question, reply, "provision") # {}
        /\ \E o \in Chosen(question, reply, at[2]) : o.kind = "unsure"}
UnsureAnswers(v, given) ==
    {at \in Visible(v, mode, given) \X Scales :
        LET question == Edition[v][at[1]] reply == given[at[1]] IN
        /\ question.type = "scaled"
        /\ \E p \in Chosen(question, reply, "provision") :
             /\ at[2] # "provision" => p.more
             /\ \E o \in Chosen(question, reply, at[2]) : o.kind = "unsure"}

\* score_audit_for_audit, with the alternate readings of Unsure
NotScored == [version |-> NoEdition]

\* The scoring of one question raises, and with it that of the whole audit: the
\* question lacks the scale of provision, or a follow-up that is read is
\* unreadable.
Breaks(question, given) ==
    /\ question.type = "scaled"
    /\ \/ "provision" \notin DOMAIN question.scales
       \/ \E p \in Chosen(question, given, "provision") :
            p.more /\ p.kind # "na" /\ Unreadable(question, given)
Fails(v, given) == \E q \in Visible(v, mode, given) : Breaks(Edition[v][q], given[q])
Score(v, given) ==
    [version |-> v, overall |-> [policy \in Policies |-> Buckets(v, given, policy).overall]]

-----------------------------------------------------------------------------
(* The audit and the catalogue *)

Draft == stamp # NoEdition /\ scored = NotScored

\* create_or_resume_audit
BeginAudit(m) ==
    /\ stamp = NoEdition
    /\ stamp' = IF active # NoEdition THEN active ELSE OnDisk
    /\ mode' = m
    /\ UNCHANGED <<stored, active, spaceSetUp, answers, scored>>

SetUpSpace(m, complete) ==
    /\ Draft
    /\ mode' = m
    /\ spaceSetUp' = complete
    /\ UNCHANGED <<stored, active, stamp, answers, scored>>

\* _normalize_scale_answer_value refuses a string for a multiple choice, and a
\* list for any other scale or with keys that the scale does not have.
Accepted(q, s, value) ==
    LET asked == Edition[Resolved]
        known == q \in DOMAIN asked /\ s \in DOMAIN asked[q].scales
    IN
    IF value.list
    THEN known /\ asked[q].scales[s].multiple /\ value.keys \subseteq Keys(asked[q], s)
    ELSE known => ~asked[q].scales[s].multiple

\* The phone answers what some version asks, which need not be the version
\* that reads the audit by now.
AnswerScale(q, s, value) ==
    /\ Draft
    /\ s = "checklist" \/ Accepted(q, s, value)
    /\ answers' = [answers EXCEPT ![q] = [t \in DOMAIN @ \cup {s} |-> IF t = s THEN value ELSE answers[q][t]]]
    /\ UNCHANGED <<stored, active, stamp, mode, spaceSetUp, scored>>

Withdraw(q, s) ==
    /\ Draft
    /\ s \in DOMAIN answers[q]
    /\ answers' = [answers EXCEPT ![q] = [t \in DOMAIN @ \ {s} |-> answers[q][t]]]
    /\ UNCHANGED <<stored, active, stamp, mode, spaceSetUp, scored>>

\* submit_audit: a scoring that fails is an error 500 and changes nothing.
SubmitAudit ==
    /\ Draft
    /\ ReadyToSubmit(Resolved, answers)
    /\ ~Fails(Resolved, answers)
    /\ stamp' = Resolved
    /\ scored' = Score(Resolved, answers)
    /\ UNCHANGED <<stored, active, mode, spaceSetUp, answers>>

PublishEdition(v) ==
    /\ active # v
    /\ stored' = stored \cup {v}
    /\ active' = v
    /\ UNCHANGED <<stamp, mode, spaceSetUp, answers, scored>>

WithdrawEdition ==
    /\ active # NoEdition
    /\ active' = NoEdition
    /\ UNCHANGED <<stored, stamp, mode, spaceSetUp, answers, scored>>

\* (A mistake: the active version can be deleted, too.)
DeleteEdition_Bug(v) ==
    /\ v \in stored \ {stamp}
    /\ stored' = stored \ {v}
    /\ UNCHANGED <<active, stamp, mode, spaceSetUp, answers, scored>>

\* Only a version that is not active and that no audit names can be deleted.
DeleteEdition(v) ==
    /\ v \in stored \ {active, stamp}
    /\ stored' = stored \ {v}
    /\ UNCHANGED <<active, stamp, mode, spaceSetUp, answers, scored>>

ScoreInit ==
    /\ stored = {} /\ active = NoEdition
    /\ stamp = NoEdition /\ mode = "none" /\ spaceSetUp = FALSE
    /\ answers = [q \in QuestionKeys |-> <<>>]
    /\ scored = NotScored

\* What version v lets the auditor answer to scale s of question q.
Offered(question, s) ==
    IF s = "checklist" THEN {Several({"ticked"})}
    ELSE IF question.scales[s].multiple THEN {Several(keys) : keys \in (SUBSET Keys(question, s)) \ {{}}}
    ELSE {One(key) : key \in Keys(question, s)}

ScoreNext ==
    \/ \E m \in Modes : BeginAudit(m) \/ \E complete \in BOOLEAN : SetUpSpace(m, complete)
    \/ \E v \in stored \cup {OnDisk} : \E q \in DOMAIN Edition[v] :
         \E s \in (IF Edition[v][q].type = "checklist" THEN {"checklist"} ELSE DOMAIN Edition[v][q].scales) :
            \/ \E value \in Offered(Edition[v][q], s) : AnswerScale(q, s, value)
            \/ Withdraw(q, s)
    \/ SubmitAudit
    \/ \E v \in Editions : PublishEdition(v) \/ DeleteEdition(v)
    \/ WithdrawEdition

ScoreSpec == ScoreInit /\ [][ScoreNext]_scoreVars

ScoreTypeOK ==
    /\ stored \subseteq Editions /\ active \in stored \cup {NoEdition}
    /\ stamp \in Editions \cup {NoEdition} /\ mode \in Modes \cup {"none"} /\ spaceSetUp \in BOOLEAN
    /\ \A q \in QuestionKeys : \A s \in DOMAIN answers[q] :
         s \in Scales \cup {"checklist"} /\ answers[q][s].list \in BOOLEAN
    /\ scored.version \in Editions \cup {NoEdition}

-----------------------------------------------------------------------------
(* Properties, whatever has been answered and published so far *)

\* The options of a question add nothing below zero, multipliers do not reduce,
\* and Unsure and not applicable add and open nothing.  The instruments in the
\* repository are so; validation does not ask for it.
Measures(question) ==
    \A s \in DOMAIN question.scales : \A o \in question.scales[s].options :
        /\ o.add \in Nat /\ o.boost \in Nat \ {0}
        /\ o.kind # "plain" => o.add = 0 /\ ~o.more

\* A report shows the score with Unsure as zero and as the maximum as the range
\* in which the canonical score, which excludes it, can lie (SCHEMA.md, Unsure
\* answers): the three agree when no Unsure answer is counted, and in every
\* bucket and column the totals are in this order and within their maxima, and
\* only the canonical maximum is reduced, when the questions that are seen
\* measure (Measures) and are scored without error.
UnsureRange ==
    LET v == Resolved
        excluded == Buckets(v, answers, "excluded")
        zero == Buckets(v, answers, "zero")
        most == Buckets(v, answers, "max")
        within(e, z, m) == \A c \in Columns :
            /\ 0 <= e.total[c] /\ e.total[c] = z.total[c] /\ z.total[c] <= m.total[c]
            /\ e.total[c] <= e.max[c] /\ e.max[c] <= z.max[c]
            /\ m.total[c] <= m.max[c] /\ m.max[c] = z.max[c]
    IN
    /\ UnsureAnswers(v, answers) = {} => excluded = zero /\ zero = most
    /\ ~Fails(v, answers) /\ (\A q \in Visible(v, mode, answers) : Measures(Edition[v][q])) =>
        /\ within(excluded.overall, zero.overall, most.overall)
        /\ within(excluded.audit, zero.audit, most.audit)
        /\ within(excluded.survey, zero.survey, most.survey)
        /\ \A s \in DOMAIN excluded.section : within(excluded.section[s], zero.section[s], most.section[s])
        /\ \A d \in DOMAIN excluded.domain : within(excluded.domain[d], zero.domain[d], most.domain[d])

\* The answers that the auditor sees: to questions that are visible, and to
\* follow-ups only while the answer about provision opens them.
Seen(v, given, q, s) ==
    /\ q \in Visible(v, mode, given)
    /\ s \in {"provision", "checklist"} \/ \E p \in Chosen(Edition[v][q], given[q], "provision") : p.more
Scrubbed(v, given) ==
    [q \in QuestionKeys |-> [s \in {s \in DOMAIN given[q] : Seen(v, given, q, s)} |-> given[q][s]]]

\* A question is visible only by an answer that is not seen any more: a condition
\* may name a follow-up, or a question that has a condition itself, and
\* _is_question_visible looks at the stored answer only.
ShownByStale(v, given) ==
    \E q \in Visible(v, mode, given) :
        LET conditions == Edition[v][q].showIf IN
        /\ conditions # {}
        /\ \A c \in conditions : Holds(c, given) => ~Seen(v, given, c.question, c.scale)

\* What the auditor no longer sees counts in no way but one, by keeping a question
\* visible: otherwise the answers that are hidden change neither progress nor
\* scores nor the number of Unsure answers, nor whether scoring fails.
StaleAnswersDontCount ==
    LET v == Resolved
        seen == Scrubbed(v, answers)
    IN
    seen # answers /\ ~ShownByStale(v, answers) =>
    /\ ReadyToSubmit(v, answers) = ReadyToSubmit(v, seen)
    /\ Fails(v, answers) = Fails(v, seen)
    /\ UnsureAnswers(v, answers) = UnsureAnswers(v, seen)
    /\ Buckets(v, answers, "zero") = Buckets(v, seen, "zero")

\* An audit that is ready to be submitted can be scored, although its answers
\* may have been stored under a version that asked otherwise: no question that
\* must be answered makes the scoring fail (one that need not be answered can,
\* as progress does not look at it), and each has a denominator unless it does
\* not apply or its scale of provision adds nothing.
ReadyAuditsScore ==
    LET v == Resolved IN
    ReadyToSubmit(v, answers) =>
        \A q \in Visible(v, mode, answers) :
            LET question == Edition[v][q] IN
            question.required =>
                /\ ~Breaks(question, answers[q])
                /\ question.type = "scaled" /\ (\E o \in Candidates(question, "provision") : o.add > 0) =>
                    \E p \in Chosen(question, answers[q], "provision") :
                        p.kind = "na" \/ QuestionScore(question, answers[q], "zero").max["provision"] > 0
=============================================================================
