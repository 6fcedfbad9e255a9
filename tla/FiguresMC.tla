----------------------------- MODULE FiguresMC -----------------------------
(***************************************************************************)
(* Scores and views, on a small instance of each.  As in AdministrationMC  *)
(* a behaviour moves one component and leaves the others where they start. *)
(***************************************************************************)
EXTENDS PlayspaceScores, YeeScores, PlayspaceViews, YeeViews, TLC

VARIABLE part   \* the component that moves

figureVars == <<part, scoreVars, yeeScoreVars, viewVars, yeeViewVars>>

FiguresInit ==
    /\ part \in {"playspace scores", "yee scores", "playspace views", "yee views"}
    /\ ScoreInit
    /\ YeeScoreInit /\ (part # "yee scores" => enforced /\ audit = Untaken)
    \* bound: where completeness is not enforced, the audit began before the catalogue
    /\ enforced \/ audit # Untaken
    /\ ViewsInit    /\ roster["v"] = "A" /\ (part # "playspace views" => roster["u"] = "A")
    /\ YeeViewsInit /\ (part # "yee views" => \A q \in Spots : lot[q] = Unplaced)

FiguresNext ==
    /\ UNCHANGED part
    /\ IF part = "playspace scores" THEN ScoreNext ELSE UNCHANGED scoreVars
    \* bound: of company, large groups are named or all three
    /\ \A q \in QuestionKeys : "sociability" \in DOMAIN answers'[q] =>
         answers'[q]["sociability"].keys \in {{"large_group"}, SociabilityKeys}
    /\ IF part = "yee scores" THEN YeeScoreNext ELSE UNCHANGED yeeScoreVars
    \* bound: a form without authoring names no parent, nothing would read it
    /\ \A v \in DOMAIN versions' : versions'[v].form.authored \/ versions'[v].parent = NoParent
    /\ IF part = "playspace views" THEN ViewsNext ELSE UNCHANGED viewVars
    /\ IF part = "yee views" THEN YeeViewsNext ELSE UNCHANGED yeeViewVars

FiguresSpec == FiguresInit /\ [][FiguresNext]_figureVars

\* Every variable of the component that moves has a value of its type.
FiguresTypeOK ==
    /\ part = "playspace scores" => ScoreTypeOK
    /\ part = "yee scores" => YeeScoreTypeOK
    /\ part = "playspace views" => ViewsTypeOK
    /\ part = "yee views" => YeeViewsTypeOK

\* What publishing a YEE instrument promises (instrument_activation.py): every
\* published version can score an audit, a copy as its parent does, and an audit
\* that was submitted complete has each of its answers counted as its form says.
PublicationKeepsItsPromise ==
    part = "yee scores" => PublishedVersionsScore /\ CompleteAuditsCount

\* The pages, lists, totals and exports of each product agree with one another
\* (products/playspace/services/dashboard.py and admin.py, dashboard_router.py).
EveryViewAgrees ==
    /\ part = "playspace views" => ViewsAgree
    /\ part = "yee views" => YeeViewsAgree

-----------------------------------------------------------------------------
(* Playspace views: two projects of two accounts, one place, and two auditors, of whom
   "v" begins in the account of "j" *)

TwoHomes == ("j" :> "A") @@ ("k" :> "B")
ThreeSessions == {<<"u", "j", "q">>, <<"v", "j", "q">>, <<"u", "k", "q">>}
AsksAll == ("audit" :> {"audit"}) @@ ("both" :> {"audit", "survey"})

(* YEE views: two projects of one account and one of another *)

ThreeFirms == ("f" :> "A") @@ ("g" :> "A") @@ ("h" :> "B")

(* Playspace scores: an edition and its successor *)

Choice(key, add, boost, more, kind) == [key |-> key, add |-> add, boost |-> boost, more |-> more, kind |-> kind]
OneOf(options) == [multiple |-> FALSE, options |-> options]
Provision == OneOf({Choice("no", 0, 1, FALSE, "plain"), Choice("a_lot", 2, 3, TRUE, "plain")})
Variety == OneOf({Choice("a_lot_of_variety", 2, 3, FALSE, "plain"),
                   Choice("unsure", 0, 1, FALSE, "unsure")})
SingleSociability == OneOf({Choice("large_group", 3, 3, FALSE, "plain")})
ManySociability == [multiple |-> TRUE, options |-> {Choice(key, 1, 1, FALSE, "plain") : key \in SociabilityKeys}]
Asking(m, constructs, domains, scales, required, showIf) ==
    [mode |-> m, constructs |-> constructs, domains |-> domains, section |-> "s", scales |-> scales,
     type |-> IF scales = <<>> THEN "checklist" ELSE "scaled", required |-> required, showIf |-> showIf]
MainQuestion(sociability) == Asking("both", {"play_value"}, {"d"},
    ("provision" :> Provision) @@ ("variety" :> Variety) @@ ("sociability" :> sociability), TRUE, {})
TickList == Asking("audit", {}, {}, <<>>, FALSE, {[question |-> "q1", scale |-> "provision", anyOf |-> {"a_lot"}]})
\* Its condition names a follow-up, so a stale answer can show it.
UseQuestion == Asking("survey", {"play_value", "usability"}, {"d", "e"},
    ("provision" :> OneOf({Choice("yes", 2, 3, FALSE, "plain"), Choice("not_applicable", 0, 1, FALSE, "na"), Choice("unsure", 0, 1, FALSE, "unsure")})), TRUE,
    {[question |-> "q1", scale |-> "variety", anyOf |-> {"a_lot_of_variety"}]})
TwoEditions == ("old" :> (("q1" :> MainQuestion(SingleSociability)) @@ ("q2" :> TickList)))
   @@ ("new" :> (("q1" :> MainQuestion(ManySociability)) @@ ("q2" :> TickList) @@ ("q3" :> UseQuestion)))

(* YEE scores: the shipped form of two items, and what may be drafted from it *)

YesNo == ("1" :> 1) @@ ("2" :> 0)
Rating == ("1" :> 1) @@ ("2" :> 3)
Degree == ("1" :> 2) @@ ("2" :> 0)
ItemSpecs == <<
  [id |-> "access.q1", domain |-> "access", item |-> "presence", choice |-> "1", cond |-> "condition",
   primary |-> YesNo, condition |-> Rating],
  [id |-> "use.q1", domain |-> "use", item |-> "degree", choice |-> "1", cond |-> NoItem,
   primary |-> Degree, condition |-> <<>>] >>
YesLabels == ("1" :> "yes") @@ ("2" :> "other")
Others == ("1" :> "other") @@ ("2" :> "other")
ShippedItems ==
  ("presence" :> [choices |-> {"1"}, labels |-> YesLabels])
  @@ ("condition" :> [choices |-> {"1"}, labels |-> Others])
  @@ ("degree" :> [choices |-> {"1"}, labels |-> Others])
ShippedForm == [authored |-> FALSE, questions |-> <<>>, items |-> ShippedItems]
First == [id |-> "access.q1", domain |-> "access", item |-> "presence", choice |-> "1", cond |-> "condition",
   method |-> "product", options |-> Offer(YesNo, YesLabels),
   follow |-> [triggers |-> {"1"}, required |-> TRUE, options |-> Offer(Rating, Others)]]
Second == [id |-> "use.q1", domain |-> "use", item |-> "degree", choice |-> "1", cond |-> NoItem,
   method |-> "option", options |-> Offer(Degree, Others), follow |-> NoFollow]
Authored(qs) == [authored |-> TRUE, questions |-> qs, items |-> ShippedItems]
Maybe == ("1" :> [score |-> 2, label |-> "yes"]) @@ ("2" :> [score |-> 0, label |-> "other"]) @@ ("3" :> [score |-> 1, label |-> "and yes,"])
Drafts == {
  \* without authoring, and without a label for any rating
  [ShippedForm EXCEPT !.items["condition"].labels = <<>>],
  Authored(<<First, Second>>),                                              \* the derived view sent back
  Authored(<<[First EXCEPT !.follow.required = FALSE], Second>>),
  Authored(<<[First EXCEPT !.follow = NoFollow], Second>>),
  \* structural: "3" scores, untriggered; other scores and labels
  Authored(<<[First EXCEPT !.options = Maybe], [Second EXCEPT !.options["2"].score = 1, !.options["1"].label = " yes"]>>),
  Authored(<<First, [Second EXCEPT !.item = "presence", !.id = "use.q2"]>>) \* two questions, one cell
}
Importance == {("access" :> 1) @@ ("use" :> 2)}
=============================================================================
