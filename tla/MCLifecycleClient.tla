-------------------------- MODULE MCLifecycleClient --------------------------
EXTENDS LifecycleClient

Plain == [Status |-> "Enabled", Prefix |-> Nil, Filter |-> Nil, Newer |-> Nil, Action |-> "expire"]
Filter == [Prefix |-> Nil, Tag |-> Nil, Large |-> FALSE, And |-> Nil]
And == [Prefix |-> "logs", Tags |-> <<2, 1>>, Large |-> FALSE]
Ask(rules) == [LifecycleConfiguration |-> rules, Disabled |-> FALSE]

\* Rules with each form of filter, no rules, no configuration, disabled.
WellFormed ==
  { Ask(<<[Plain EXCEPT !.Prefix = "logs"],
          [Plain EXCEPT !.Action = "move", !.Filter = [Filter EXCEPT !.Prefix = "logs"]]>>),
    Ask(<<[Plain EXCEPT !.Filter = [Filter EXCEPT !.Tag = 1]],
          [Plain EXCEPT !.Action = "move", !.Newer = 1, !.Filter = [Filter EXCEPT !.And = And]]>>),
    Ask(<<[Plain EXCEPT !.Status = "Disabled"]>>),
    Ask(<<>>), Ask(Nil),
    [LifecycleConfiguration |-> <<Plain>>, Disabled |-> TRUE] }

ASSUME WellFormedAssumption == \A s \in WellFormed : Convertible(s)

\* A filter by size, and an expiration that keeps newer versions.
Sized ==
  { Ask(<<[Plain EXCEPT !.Filter = [Filter EXCEPT !.Large = TRUE]]>>),
    Ask(<<[Plain EXCEPT !.Newer = 1]>>) }

ClientOrder == <<"lifecycle", "acl", "objectlock">>
=============================================================================
