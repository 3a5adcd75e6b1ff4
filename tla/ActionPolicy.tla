----------------------------- MODULE ActionPolicy -----------------------------
(***************************************************************************)
(* Which actions may be dispatched, and which a machine may take: the      *)
(* classification of verbs, the shape of targets, what a target is         *)
(* (action_policy.py, asset_criticality.py, identity_role.py).             *)
(*                                                                         *)
(* A verb is free text: here, the registry's keywords found in it and      *)
(* whether it is phrased as undoing something.  A target is a value with   *)
(* the kinds it parses as.                                                 *)
(***************************************************************************)
EXTENDS Integers, Sequences, FiniteSets

CONSTANTS
    Targets,          \* what an action may name as its target
    Parses,           \* the kinds a target parses as, [Targets -> SUBSET Kinds]
    Protected,        \* PROTECTED_TARGETS
    Builtin,          \* what the built-in name patterns say, [Targets -> Levels]
    Overrides,        \* ACTION_RISK_OVERRIDES, a function from some verbs to risks
    AllowDestructive, \* ACTION_ALLOW_DESTRUCTIVE
    MaxAutopilotRisk  \* ACTION_MAX_AUTOPILOT_RISK

Risks == <<"READ", "LOW_WRITE", "HIGH_WRITE", "DESTRUCTIVE">>
RiskOrder(risk) == CHOOSE i \in DOMAIN Risks : Risks[i] = risk
Disruptive(risk) == RiskOrder(risk) >= RiskOrder("HIGH_WRITE")
Kinds == {"ip", "endpoint", "user", "hash", "url", "process", "case", "any"}
Levels == {"STANDARD", "CRITICAL", "PRIVILEGED", "SERVICE"}

\* The registry, with one keyword for all that are treated alike.
Rule(words, risk, kind) == [words |-> words, risk |-> risk, kind |-> kind]
Rules == <<
    Rule({"wipe"}, "DESTRUCTIVE", "endpoint"),
    Rule({"reimage"}, "DESTRUCTIVE", "endpoint"),
    Rule({"delete"}, "DESTRUCTIVE", "any"),
    Rule({"disable account", "revoke session", "reset password"}, "HIGH_WRITE", "user"),
    Rule({"isolate"}, "HIGH_WRITE", "endpoint"),
    Rule({"block ip"}, "HIGH_WRITE", "ip"),
    Rule({"block url"}, "HIGH_WRITE", "url"),
    Rule({"kill process"}, "HIGH_WRITE", "process"),
    Rule({"quarantine file"}, "HIGH_WRITE", "hash"),
    Rule({"stop service", "restart host"}, "HIGH_WRITE", "endpoint"),
    Rule({"contain"}, "HIGH_WRITE", "endpoint"),
    Rule({"collect"}, "LOW_WRITE", "endpoint"),
    Rule({"watchlist"}, "LOW_WRITE", "any"),
    Rule({"notify"}, "LOW_WRITE", "case"),
    Rule({"tag"}, "LOW_WRITE", "any"),
    Rule({"lookup"}, "READ", "any")>>
Keywords == UNION {Rules[i].words : i \in DOMAIN Rules}
SelfLimiting == {"revoke session"}
Inverses == {"disable account", "isolate", "block ip", "block url", "quarantine file", "stop service"}
Verbs == [words : SUBSET Keywords, phrasing : {"plain", "undoing", "blank"}]

ASSUME PolicyAssumption ==
    /\ Parses \in [Targets -> SUBSET Kinds] /\ Builtin \in [Targets -> Levels]
    /\ Protected \subseteq Targets /\ DOMAIN Overrides \subseteq Verbs
    /\ \A v \in DOMAIN Overrides : Overrides[v] \in {Risks[i] : i \in DOMAIN Risks}
    /\ AllowDestructive \in BOOLEAN
    /\ MaxAutopilotRisk \in {"READ", "LOW_WRITE", "HIGH_WRITE"}

-----------------------------------------------------------------------------
(* Verbs                                                                   *)

Matching(verb) == {i \in DOMAIN Rules : Rules[i].words \cap verb.words # {}}
FirstMatch(verb) == CHOOSE i \in Matching(verb) : \A j \in Matching(verb) : i <= j
Unclassified == [risk |-> "HIGH_WRITE", kind |-> "any"]
\* classify_action: the first rule that matches, but for verbs that undo; a
\* site's override changes the risk and not the kind.
Classify(verb) ==
    LET known == /\ verb.phrasing = "plain"
                 /\ Matching(verb) # {}
        rule == IF known
                THEN LET found == Rules[FirstMatch(verb)] IN [risk |-> found.risk, kind |-> found.kind]
                ELSE Unclassified
    IN IF verb \in DOMAIN Overrides /\ verb.phrasing # "blank"
       THEN [rule EXCEPT !.risk = Overrides[verb]] ELSE rule

\* classify_reversibility.
Reversibility(verb, risk) ==
    CASE ~Disruptive(risk) -> "NOT_APPLICABLE"
      [] Disruptive(risk) /\ verb.phrasing = "undoing" -> "IRREVERSIBLE"
      [] Disruptive(risk) /\ verb.phrasing # "undoing" /\ verb.words \cap SelfLimiting # {} -> "SELF_LIMITING"
      [] OTHER -> IF verb.words \cap Inverses # {} THEN "REVERSIBLE" ELSE "IRREVERSIBLE"

-----------------------------------------------------------------------------
(* Targets, by the site's two files.  A file holds a static map and        *)
(* patterns (networks count as patterns), may switch the built-in patterns *)
(* off, and when it cannot be read counts as an empty one.                 *)

EmptyFile == [static |-> <<>>, patterns |-> <<>>, defaults |-> TRUE]
\* _build.
InForce(file) == IF file.broken THEN EmptyFile
                 ELSE [static |-> file.static, patterns |-> file.patterns, defaults |-> file.defaults]
Says(map, target, level) == target \in DOMAIN map /\ map[target] = level

\* classify_asset and classify_identity: what is listed is final, and of the
\* patterns that match the one that protects most.
LevelIn(file, target, levels) ==
    LET config == InForce(file)
        matched == {level \in levels : \/ Says(config.patterns, target, level)
                                       \/ config.defaults /\ Builtin[target] = level}
    IN CASE target \in DOMAIN config.static -> config.static[target]
         [] target \notin DOMAIN config.static /\ "PRIVILEGED" \in matched -> "PRIVILEGED"
         [] OTHER -> IF matched = {} THEN "STANDARD" ELSE CHOOSE level \in matched : TRUE
Criticality(files, target) == LevelIn(files.assets, target, {"CRITICAL"})
IdentityRole(files, target) == LevelIn(files.identities, target, {"PRIVILEGED", "SERVICE"})

-----------------------------------------------------------------------------
(* Actions: [verb, target]                                                 *)

\* assess_action.
Allowed(action) ==
    LET class == Classify(action.verb) IN
    /\ action.verb.phrasing # "blank"
    /\ action.target \notin Protected
    /\ class.risk = "DESTRUCTIVE" => AllowDestructive
    /\ class.kind \in Parses[action.target]
Assess(action, files) ==
    LET class == Classify(action.verb) IN
    [risk |-> class.risk,
     allowed |-> Allowed(action),
     level |-> IF class.kind \in {"ip", "endpoint"} THEN Criticality(files, action.target)
               ELSE IF class.kind = "user" THEN IdentityRole(files, action.target) ELSE "STANDARD",
     reversibility |-> Reversibility(action.verb, class.risk)]

\* autopilot_allows: all of a plan or nothing.
\* (mutant: what a target is does not matter)
MachineMayAnywhere(action, files) ==
    LET a == Assess(action, files) IN
    /\ a.allowed
    /\ a.reversibility # "IRREVERSIBLE"
    /\ RiskOrder(a.risk) <= RiskOrder(MaxAutopilotRisk)
MachineMay(action, files) ==
    LET a == Assess(action, files) IN
    /\ a.allowed
    /\ ~(a.level # "STANDARD" /\ Disruptive(a.risk))
    /\ a.reversibility # "IRREVERSIBLE"
    /\ RiskOrder(a.risk) <= RiskOrder(MaxAutopilotRisk)
AutopilotAllows(plan, files) == plan # {} /\ \A action \in plan : MachineMay(action, files)
=============================================================================
