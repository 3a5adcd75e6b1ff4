------------------------------ MODULE MCAutonomy ------------------------------
(* Small instances of Autonomy for TLC. *)
EXTENDS Autonomy, TLC

CONSTANTS s1, s2, s3, workstation, controller, account, service
SomeTargets == {workstation, controller, account, service}
SomeParses == (workstation :> {"endpoint", "user", "process", "any"})
              @@ (controller :> {"endpoint", "user", "process", "any"})
              @@ (account :> {"user", "any"}) @@ (service :> {"user", "any"})
SomeBuiltin == (workstation :> "STANDARD") @@ (controller :> "CRITICAL")
               @@ (account :> "STANDARD") @@ (service :> "SERVICE")
NoOverrides == <<>>

Verb(words) == [words |-> words, phrasing |-> "plain"]
Isolate(target) == [verb |-> Verb({"isolate"}), target |-> target]

\* What happens drifts: s2 is like s1 and like s3, which are not like each other.
Usual == [techniques |-> {"T1"}, title |-> {"beacon"}, analysis |-> {}, sources |-> {"edr"},
          entities |-> {<<"host", 1>>}, severity |-> 1]
Drifted == [Usual EXCEPT !.sources = {"edr", "siem"}, !.severity = 2,
                         !.entities = {<<"host", 1>>, <<"host", 2>>}]
Other == [Usual EXCEPT !.sources = {"siem"}, !.entities = {<<"host", 2>>}, !.severity = 3]
Drifting == (s1 :> Usual) @@ (s2 :> Drifted) @@ (s3 :> Other)
\* Or all are alike.
AllAlike == [s \in Situations |-> Usual]

NoEntries == [broken |-> FALSE, static |-> <<>>, patterns |-> <<>>, defaults |-> TRUE]
BuiltinOnly == [assets |-> NoEntries, identities |-> NoEntries]
\* A lab exempts its controller and sets a workstation apart.
Lab == [BuiltinOnly EXCEPT !.assets.static = controller :> "STANDARD",
                           !.assets.patterns = workstation :> "CRITICAL"]
JustBuiltin == {BuiltinOnly}
TwoFiles == {BuiltinOnly, Lab}

Ordinary == {Isolate(workstation)}
Delicate == {Isolate(controller), [verb |-> Verb({"revoke session"}), target |-> account]}
Doubtful == {[verb |-> Verb({"notify", "kill process"}), target |-> workstation]}
SomePlans == {Delicate, Doubtful}
JustOrdinary == {Ordinary}
Compound == {[verb |-> Verb({"disable account", "isolate"}), target |-> controller]}
JustCompound == {Compound}
Ends == {[s \in {s1, s2, s3} |-> s], (s1 :> s3) @@ (s2 :> s2) @@ (s3 :> s1)}
Symmetry == Permutations({s1, s2, s3})
=============================================================================
