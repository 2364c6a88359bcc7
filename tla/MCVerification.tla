--------------------------- MODULE MCVerification ---------------------------
(* Two executors, two checks and the contracts that tell the rules apart.    *)
EXTENDS Verification, TLC

CONSTANTS x, y, k1, k2, m1, m2

MCExecutors == {x, y}
MCModels == {m1, m2}
MCChecks == {k1, k2}

Entry(models, declared, cost) ==
    [enabled |-> TRUE, models |-> models, declared |-> declared,
     offers |-> {"spawn", "observe", "cancel", "context"},
     files |-> "workspace-write", network |-> "unsupported", process |-> "unsupported",
     proven |-> TRUE, slots |-> 1, cost |-> cost]

(* y is dearer and declares which model it runs; only y denies the network.  *)
MCCatalog ==
    (x :> Entry({AnyModel}, AnyModel, 1)) @@
    (y :> [Entry({m1}, m1, 2) EXCEPT !.network = "deny"])

MCReports == {k1 :> "pass" @@ k2 :> "fail", k2 :> "pass"}

Bind(e, models, roles) == [executor |-> e, models |-> models, roles |-> roles]

Grants ==
    {[policy |-> "closed", bindings |-> <<>>],
     [policy |-> "explicit_allow", bindings |-> <<>>],
     [policy |-> "closed",
      bindings |-> <<Bind(x, {m2}, {"executor"}), Bind(y, {m2}, Roles)>>],
     [policy |-> "explicit_allow",
      bindings |-> <<Bind(x, {m2}, {"executor"}), Bind(y, {m1}, Roles), Bind(x, {AnyModel}, Roles)>>]}

Free == [needs |-> {"spawn"}, context |-> FALSE, files |-> "workspace-write",
         network |-> "any", process |-> "any", packages |-> FALSE]

Of(kind, mandatory) == [kind |-> kind, mandatory |-> mandatory]

Group(comb, leaves) == [comb |-> comb, leaves |-> leaves]
Tree(comb, groups) == [comb |-> comb, groups |-> groups]

Acceptances ==
    {[checks |-> <<>>, spec |-> NoSpec, workspace |-> TRUE],
     [checks |-> k1 :> Of("content", TRUE), spec |-> NoSpec, workspace |-> TRUE],
     [checks |-> k1 :> Of("command", TRUE) @@ k2 :> Of("text", FALSE),
      spec |-> Tree("any", {Group("all", {k1, k2}), Group("one", {User})}),
      workspace |-> TRUE],
     [checks |-> k1 :> Of("present", FALSE) @@ k2 :> Of("structure", FALSE),
      spec |-> Tree("all", {Group("any", {k1, k2}), Group("one", {k2})}),
      workspace |-> TRUE],
     [checks |-> k1 :> Of("command", FALSE) @@ k2 :> Of("stage", TRUE),
      spec |-> Tree("one", {Group("any", {k1, k2, User})}), workspace |-> TRUE],
     [checks |-> k1 :> Of("content", TRUE),
      spec |-> Tree("all", {Group("any", {k1, k2}), Group("one", {k2})}), workspace |-> TRUE],
     [checks |-> k1 :> Of("present", TRUE),
      spec |-> Tree("one", {Group("any", {k1, k2})}), workspace |-> FALSE]}

(* Every acceptance with the open grant, every grant with the simplest one,  *)
(* and demands only one executor, or no adapter, can meet.                   *)
Term(grant, demand, a) ==
    [grant |-> grant, demand |-> demand, checks |-> a.checks, spec |-> a.spec,
     workspace |-> a.workspace]

Open == [policy |-> "closed", bindings |-> <<>>]

MCTerms ==
    {Term(Open, Free, a) : a \in Acceptances}
    \cup {Term(g, Free, [checks |-> <<>>, spec |-> NoSpec, workspace |-> TRUE]) : g \in Grants}
    \cup {Term(Open, d, [checks |-> <<>>, spec |-> NoSpec, workspace |-> TRUE]) :
            d \in {[Free EXCEPT !.network = "deny"], [Free EXCEPT !.packages = TRUE]}}
=============================================================================
