---------------------------- MODULE MCCoreRuntime ----------------------------
EXTENDS CoreRuntime

Act(id) == [id |-> id, callback |-> TRUE]
Null(id) == [id |-> id, callback |-> FALSE]
Step(id, phase, need) == [id |-> id, callback |-> TRUE, phase |-> phase, need |-> need]
Plan(ps) == [storage |-> TRUE, early |-> Act("outputs"), gate |-> Act("gate"), participants |-> ps]

Good == {
  Plan(<<>>),
  Plan(<<Step("rtc", 3, "OPTIONAL"), Step("domain", 4, "REQUIRED"), Step("web", 7, "OPTIONAL")>>)}
Bad == {
  [Plan(<<>>) EXCEPT !.storage = FALSE],
  [Plan(<<>>) EXCEPT !.early = Null("outputs")], [Plan(<<>>) EXCEPT !.gate = Null("gate")],
  [Plan(<<>>) EXCEPT !.early = Act(NoId)], [Plan(<<>>) EXCEPT !.gate = Act(NoId)],
  [Plan(<<>>) EXCEPT !.gate = Act("outputs")]}
  \cup {Plan(<<p>>) : p \in {
          Step("gate", 1, "REQUIRED"), Step("outputs", 1, "REQUIRED"), Step(NoId, 1, "REQUIRED"),
          Step("a", 9, "REQUIRED"), Step("a", SAFETY_VALIDATION, "REQUIRED"), Step("a", RUNNING, "OPTIONAL"),
          Step("a", 6, "REQUIRED"), Step("a", 2, "?"),
          [Step("a", 2, "REQUIRED") EXCEPT !.callback = FALSE]}}
  \cup {Plan(<<Step("a", 2, "REQUIRED"), q>>) : q \in {
          Step("a", 3, "REQUIRED"), Step("b", 1, "REQUIRED")}}
MCPlans == Good \cup Bad

MCSays == {Trusted, [health |-> Bogus, safety |-> "LOCKED"]}
=============================================================================
