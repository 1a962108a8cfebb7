----------------------------- MODULE Reasoning -----------------------------
(***************************************************************************)
(* How one diagnosis asks its models: a planning phase, the tools, and a   *)
(* finalizing phase, each of which takes the desensitization rules and the *)
(* provider bindings of its moment, lets a local model look for sensitive  *)
(* values if the rules say so, masks the context, asks the primary model,  *)
(* on failure the assist model, and otherwise falls back to its own        *)
(* heuristics.  Texts are reduced to the values they name: a value of the  *)
(* context, or a mark such as [HOST_1].                                    *)
(***************************************************************************)
EXTENDS Integers, Sequences, FiniteSets, Listing

CONSTANTS
    Models, NoModel,   \* configured model endpoints; none
    Contexts,          \* what a session can be about
    MaskRules,         \* desensitization configurations
    Bindings,          \* provider registries: platform models and enabled entries
    RoleBindings,      \* the model bindings of the session's agent role
    PlannerAnswers,    \* the plans a model may answer with, marks and all
    FinalAnswers,      \* the conclusions one may answer with
    Names,             \* what a text can name: values, marks, or nothing
    HostMarks, PathMarks, \* the marks [HOST_1], [HOST_2], ... and [PATH_1], ..., by number
    LocalFallback,     \* localCommandFallbackEnable
    MaxReasonEdits     \* bound: edits of the configuration

MarksOf(kind) == IF kind = "HOST" THEN HostMarks ELSE PathMarks
MarkSet(kind) == {MarksOf(kind)[n] : n \in DOMAIN MarksOf(kind)}
Marks == MarkSet("HOST") \cup MarkSet("PATH")
KindOf(v) == IF v = "loadavg" THEN "PATH" ELSE "HOST"
Nothing == "nothing"

\* a step of a plan: the tool, its command, and the host, or the path of cat
PlanTools == {"metrics", "logs", "observability", "delivery", "knowledge", "command", "bogus"}
PlanCommands == {"none", "uptime", "cat", "restart"}
Proposals == [tool : PlanTools, cmd : PlanCommands, arg : Names]

\* the host of a context is a host, no value looks like a mark, and there are marks enough
ASSUME ReasoningAssumption ==
    /\ NoModel \notin Models /\ MaxReasonEdits \in Nat /\ LocalFallback \in BOOLEAN
    /\ HostMarks \in Seq(Names) /\ PathMarks \in Seq(Names) /\ PathMarks # <<>>
    /\ Nothing \in Names
    /\ MarkSet("HOST") \cap MarkSet("PATH") = {}
    /\ \A c \in Contexts :
          LET values == {c.host} \cup c.mentions IN
          /\ KindOf(c.host) = "HOST" /\ IsFiniteSet(values)
          /\ values \subseteq Names /\ values \cap Marks = {}
          /\ \A k \in {"HOST", "PATH"} : Cardinality({v \in values : KindOf(v) = k}) <= Len(MarksOf(k))
    /\ MaskRules # {} /\ \A r \in MaskRules : r.detector \in Models \cup {NoModel}
    /\ \A b \in Bindings : {b.primary, b.assist} \subseteq Models \cup {NoModel} /\ b.entries \subseteq Models
    /\ PlannerAnswers \subseteq Seq(Proposals)
    /\ \A answer \in FinalAnswers : answer.summary \in {"blank", "finding", "unrelated"}

VARIABLES
    rules,      \* the current desensitization configuration
    registry,   \* the current provider registry
    subject,    \* the session's context
    binding,    \* its role's model binding
    stage,      \* "plan", "tools", "final" or "done"
    asking,     \* who is asked: "nobody", "detector", "primary", "assist" or "heuristic"
    snap,       \* what the running phase captured
    draft,      \* the tool plan
    planSnap,   \* the rules and marks of the planning phase
    results,    \* what the tools brought: a critical query failed, evidence was found
    out,        \* the diagnosis
    reasonEdits,
    asked,      \* history: the requests of the running phase
    echoed      \* history: the value the planner knew under a mark the final summary names

reasonVars == <<rules, registry, subject, binding, stage, asking, snap, draft, planSnap,
                results, out, reasonEdits, asked, echoed>>


NoMasks == [rules |-> CHOOSE r \in MaskRules : TRUE, marks |-> <<>>]
NoSnap == [rules |-> NoMasks.rules, marks |-> <<>>, found |-> FALSE,
           primary |-> NoModel, assist |-> NoModel]
NoOutput == [summary |-> "blank", names |-> Nothing, hint |-> "none", arg |-> Nothing]

ReasoningInit ==
    /\ rules \in MaskRules /\ registry \in Bindings /\ subject \in Contexts /\ binding \in RoleBindings
    /\ stage = "plan" /\ asking = "nobody" /\ snap = NoSnap /\ planSnap = NoMasks /\ draft = <<>>
    /\ results = [failed |-> FALSE, evidence |-> FALSE] /\ out = NoOutput
    /\ reasonEdits = 0 /\ asked = {} /\ echoed = Nothing

-----------------------------------------------------------------------------
(* Masking.                                                                *)

\* a value under a key such as "host" is replaced whole, one inside a text where the
\* rules say so or where the detector has named it
Masked(r, found) ==
    IF r.enabled THEN {subject.host} \cup {v \in subject.mentions : found \/ KindOf(v) \in r.inline} ELSE {}

\* maps are walked in random order, so each value of a kind may get any of the numbers
Numberings(vals) ==
    {f \in [vals -> Marks] :
        /\ \A v \in vals :
               \E n \in 1..Cardinality({w \in vals : KindOf(w) = KindOf(v)}) : f[v] = MarksOf(KindOf(v))[n]
        /\ \A v, w \in vals : f[v] = f[w] => v = w}

RawContext == [raw |-> {subject.host} \cup subject.mentions, secrets |-> subject.secrets]

\* what is left of the context: the values nobody masked, and the secrets no rule
\* and no detection recognised
Desensitize(r, found) ==
    [raw |-> RawContext.raw \ Masked(r, found),
     secrets |-> IF ~r.enabled THEN subject.secrets
                 ELSE IF found THEN {} ELSE subject.secrets \ {"assignment"}]

\* a mark this phase issued, of a kind the rules let back, becomes its value
Rehydrate(x, s) ==
    IF x \in Marks /\ \E v \in DOMAIN s.marks : s.marks[v] = x /\ KindOf(v) \in s.rules.back
    THEN CHOOSE v \in DOMAIN s.marks : s.marks[v] = x
    ELSE x

-----------------------------------------------------------------------------
(* Choosing models.                                                        *)

\* plausible bug: the first candidate, even the model that just failed
ChooseDistinctAssist_First(primary, candidates) ==
    LET usable == {i \in DOMAIN candidates : candidates[i] # NoModel} IN
    IF usable = {} THEN NoModel ELSE candidates[CHOOSE i \in usable : \A j \in usable : i <= j]

ChooseDistinctAssist(primary, candidates) ==
    LET usable == {i \in DOMAIN candidates : candidates[i] \notin {NoModel, primary}} IN
    IF usable = {} THEN NoModel ELSE candidates[CHOOSE i \in usable : \A j \in usable : i <= j]

\* a role's target counts while its provider entry is enabled
RoleTarget(m) == IF m \in registry.entries THEN m ELSE NoModel

RuntimesForInput ==
    LET platform == registry.primary
        role == RoleTarget(binding.primary)
        spare == RoleTarget(binding.fallback)
        pick(p, candidates) == [primary |-> p, assist |-> ChooseDistinctAssist(p, candidates)]
    IN  IF ~binding.set THEN pick(platform, <<registry.assist>>)
        ELSE IF role # NoModel THEN pick(role, <<spare, registry.assist, platform>>)
        ELSE IF binding.inherit \/ binding.primary = NoModel
             THEN pick(platform, <<spare, registry.assist>>)
        ELSE IF spare # NoModel THEN pick(spare, <<registry.assist, platform>>)
        ELSE pick(platform, <<registry.assist>>)

-----------------------------------------------------------------------------
(* Commands a model or the heuristics propose.                             *)

\* restart is what the user asked for in so many words, uptime and reading
\* /proc/loadavg only repeat what monitoring knows
Generic(c, arg) == c = "uptime" \/ (c = "cat" /\ arg = "loadavg")
ExplicitlyAllowed(c) == subject.asksHost \/ (subject.direct /\ c = "restart")

SanitizeExecutionHint_Eager(c, arg) ==
    IF c = "tool" THEN "none"
    ELSE IF ExplicitlyAllowed(c) THEN c
    ELSE IF Generic(c, arg) \/ c = "sudo" THEN "none" ELSE c

SanitizeExecutionHint(c, arg) ==
    IF c = "tool" THEN "none"
    ELSE IF ExplicitlyAllowed(c) THEN c
    ELSE IF results.evidence \/ Generic(c, arg) \/ c = "sudo" THEN "none" ELSE c

-----------------------------------------------------------------------------
(* Plans.  A step is [tool, cmd, arg]: the host, or the path of cat.       *)

Proposal(tool, cmd, arg) == [tool |-> tool, cmd |-> cmd, arg |-> arg]

\* plausible bug: any command is kept
Keeps_Any(e) == e.tool # "bogus"

\* unknown tools, empty commands and unasked generic commands are dropped
Keeps(e) ==
    /\ e.tool # "bogus"
    /\ e.tool = "command" => ExplicitlyAllowed(e.cmd) \/ ~Generic(e.cmd, e.arg)

WithDefaults(e) == IF e.arg = Nothing THEN [e EXCEPT !.arg = subject.host] ELSE e

FirstCommand(steps) == Picked(steps, {i \in DOMAIN steps : steps[i].tool = "command"})

\* plausible bug: the command keeps its place
EnforceOfficialDiskPlan_CommandFirst(steps) ==
    SubSeq(FirstCommand(steps), 1, IF FirstCommand(steps) = <<>> THEN 0 ELSE 1)
      \o <<Proposal("metrics", "none", subject.host), Proposal("metrics", "none", subject.host),
           Proposal("knowledge", "none", Nothing)>>

\* usage, forecast and guidance first, then the first command of the model's plan
EnforceOfficialDiskPlan(steps) ==
    <<Proposal("metrics", "none", subject.host), Proposal("metrics", "none", subject.host),
      Proposal("knowledge", "none", Nothing)>>
      \o SubSeq(FirstCommand(steps), 1, IF FirstCommand(steps) = <<>> THEN 0 ELSE 1)

NormalizePlannerToolPlan(entries) ==
    LET kept == Picked(entries, {i \in DOMAIN entries : Keeps(entries[i])})
        steps == [i \in DOMAIN kept |-> WithDefaults(kept[i])]
    IN  IF entries = <<>> THEN <<>>
        ELSE IF subject.disk /\ ~subject.skill THEN EnforceOfficialDiskPlan(steps) ELSE steps

\* plausible bug: the plan keeps its marks
RehydrateToolPlan_Kept(steps) == steps

RehydrateToolPlan(steps) ==
    [i \in DOMAIN steps |-> [steps[i] EXCEPT !.arg = Rehydrate(@, snap)]]

FallbackReadOnlyToolPlan ==
    LET read(t) == Proposal(t, "none", subject.host) IN
    CASE subject.intent = "cause" -> <<read("metrics"), read("logs"), read("observability")>>
      [] subject.intent = "delivery" ->
           <<read("metrics"), read("logs"), read("observability"), read("delivery")>>
      [] subject.intent = "metrics" -> <<read("metrics")>>
      [] OTHER -> <<>>

FallbackDiagnosisPlan ==
    IF subject.direct THEN <<Proposal("command", "restart", subject.host)>> ELSE FallbackReadOnlyToolPlan

-----------------------------------------------------------------------------
(* The two phases.                                                         *)

\* who is asked first: nobody is left when neither model is configured
FirstAsked(s) ==
    IF s.primary # NoModel THEN "primary" ELSE IF s.assist # NoModel THEN "assist" ELSE "heuristic"

\* the context is masked by the rules of the phase, then the runtimes are looked up
MaskAndChoose(r, found) ==
    \E marks \in Numberings(Masked(r, found)) :
        /\ snap' = [rules |-> r, marks |-> marks, found |-> found,
                    primary |-> RuntimesForInput.primary, assist |-> RuntimesForInput.assist]
        /\ asking' = FirstAsked(snap')

\* plausible bug: a bound assist model is reason enough to detect
Detects_WhenBound(r) == r.detect \/ registry.assist # NoModel

Detects(r) == r.detect

\* the rules are taken; the detector is asked first where they say so
BeginPhase ==
    /\ stage \in {"plan", "final"} /\ asking = "nobody"
    /\ asked' = {}
    /\ IF Detects(rules) THEN snap' = [NoSnap EXCEPT !.rules = rules] /\ asking' = "detector"
       ELSE MaskAndChoose(rules, FALSE)
    /\ UNCHANGED <<rules, registry, subject, binding, stage, draft, planSnap, results, out,
                   reasonEdits, echoed>>

\* detectSensitiveValues: the platform's assist model of this moment, or the endpoint of
\* the rules, is sent the context as it is; without either, or when the request fails,
\* that is only logged
DetectSensitiveValues ==
    /\ asking = "detector"
    /\ LET model == IF registry.assist # NoModel THEN registry.assist ELSE snap.rules.detector IN
       \/ /\ model # NoModel
          /\ asked' = asked \cup {[by |-> asking, model |-> model, rules |-> snap.rules, sent |-> RawContext,
                                   prompt |-> {}]}
          /\ \E found \in BOOLEAN : MaskAndChoose(snap.rules, found)
       \/ /\ model = NoModel
          /\ UNCHANGED asked
          /\ MaskAndChoose(snap.rules, FALSE)
    /\ UNCHANGED <<rules, registry, subject, binding, stage, draft, planSnap, results, out,
                   reasonEdits, echoed>>

AskedModel == IF asking = "primary" THEN snap.primary ELSE snap.assist

\* what the system prompt names: it holds the role's prompt and, for the planner, the
\* summary of the session's capabilities, and is not masked
PromptNames == subject.rolePrompt \cup (IF stage = "plan" THEN subject.offers ELSE {})

\* plausible bug: the assist model gets the input of before the masking
Ask_RawOnFailover ==
    asked' = asked \cup {[by |-> asking, model |-> AskedModel, rules |-> snap.rules,
                          sent |-> IF asking = "assist" THEN RawContext
                                   ELSE Desensitize(snap.rules, snap.found),
                          prompt |-> PromptNames]}

Ask ==
    asked' = asked \cup {[by |-> asking, model |-> AskedModel, rules |-> snap.rules,
                          sent |-> Desensitize(snap.rules, snap.found), prompt |-> PromptNames]}

\* no answer, an error status or an answer that is not the JSON asked for
ModelFails ==
    /\ asking \in {"primary", "assist"}
    /\ Ask
    /\ asking' = IF asking = "primary" /\ snap.assist # NoModel THEN "assist" ELSE "heuristic"
    /\ UNCHANGED <<rules, registry, subject, binding, stage, snap, draft, planSnap, results, out,
                   reasonEdits, echoed>>

EndPlanning(steps) ==
    /\ draft' = steps /\ planSnap' = [rules |-> snap.rules, marks |-> snap.marks]
    /\ stage' = "tools" /\ asking' = "nobody"
    /\ UNCHANGED <<rules, registry, subject, binding, snap, results, out, reasonEdits, echoed>>

PlanAnswered ==
    /\ stage = "plan" /\ asking \in {"primary", "assist"}
    /\ Ask
    /\ \E entries \in PlannerAnswers :
           LET steps == RehydrateToolPlan(NormalizePlannerToolPlan(entries)) IN
           EndPlanning(IF steps = <<>> THEN FallbackDiagnosisPlan ELSE steps)

PlanByHeuristic ==
    /\ stage = "plan" /\ asking = "heuristic"
    /\ EndPlanning(FallbackDiagnosisPlan)
    /\ UNCHANGED asked

\* a failed query of these tools makes a conclusion cautious
Critical(p) == \E i \in DOMAIN p : p[i].tool \in {"metrics", "knowledge", "observability", "delivery"}

\* what any of these tools found makes a command redundant
Reads(p) == Critical(p) \/ \E i \in DOMAIN p : p[i].tool = "logs"

\* the executor: which of the read-only steps failed or found something
RunTools ==
    /\ stage = "tools"
    /\ \E failed, evidence \in BOOLEAN :
           /\ (failed => Critical(draft)) /\ (evidence => Reads(draft))
           /\ results' = [failed |-> failed, evidence |-> evidence]
    /\ stage' = "final" /\ asking' = "nobody"
    /\ UNCHANGED <<rules, registry, subject, binding, snap, draft, planSnap, out, reasonEdits,
                   asked, echoed>>

\* plausible bug: only a blank summary is replaced
NormalizeFinalSummary_Trusting(summary) == summary

\* plausible bug: the failed tool's message becomes the summary
NormalizeFinalSummary_ToolError(summary) ==
    IF summary = "unrelated" /\ results.failed THEN "error" ELSE summary

NormalizeFinalSummary(summary) ==
    IF summary = "unrelated" /\ results.failed THEN "cautious" ELSE summary

\* evidence, the automation's result, or the request itself: never blank
FallbackSummary == IF results.evidence THEN "evidence" ELSE "analysed"

\* plausible bug: a blank answer is stored
SummaryOrFallback_Blank(summary) == summary

SummaryOrFallback(summary) == IF summary = "blank" THEN FallbackSummary ELSE summary

\* the marks a plan kept are part of the finalizing context, with the meaning they had when it was made
PlanMeaning(mark) ==
    IF /\ \E i \in DOMAIN draft : draft[i].arg = mark
       /\ \E v \in DOMAIN planSnap.marks : planSnap.marks[v] = mark
    THEN CHOOSE v \in DOMAIN planSnap.marks : planSnap.marks[v] = mark
    ELSE Nothing

FinalAnswered ==
    /\ stage = "final" /\ asking \in {"primary", "assist"}
    /\ Ask
    /\ \E answer \in FinalAnswers :
          LET arg == IF answer.hint = "cat" THEN Rehydrate(PathMarks[1], snap) ELSE Nothing IN
          /\ out' = [summary |-> SummaryOrFallback(NormalizeFinalSummary(answer.summary)),
                     names |-> Rehydrate(answer.names, snap),
                     hint |-> SanitizeExecutionHint(answer.hint, arg), arg |-> arg]
          /\ echoed' = PlanMeaning(answer.names)
    /\ stage' = "done" /\ asking' = "nobody"
    /\ UNCHANGED <<rules, registry, subject, binding, snap, draft, planSnap, results, reasonEdits>>

FinalByHeuristic ==
    /\ stage = "final" /\ asking = "heuristic"
    /\ out' = [NoOutput EXCEPT !.summary = FallbackSummary,
                               !.hint = IF LocalFallback /\ subject.direct THEN "restart" ELSE "none"]
    /\ stage' = "done" /\ asking' = "nobody"
    /\ UNCHANGED <<rules, registry, subject, binding, snap, draft, planSnap, results, reasonEdits,
                   asked, echoed>>

\* an operator saves other rules or other providers at any moment
EditReasoning ==
    /\ reasonEdits < MaxReasonEdits /\ stage # "done"
    /\ reasonEdits' = reasonEdits + 1
    /\ \/ rules' \in MaskRules \ {rules} /\ UNCHANGED registry
       \/ registry' \in Bindings \ {registry} /\ UNCHANGED rules
    /\ UNCHANGED <<subject, binding, stage, asking, snap, draft, planSnap, results, out, asked, echoed>>

ReasonStep ==
    \/ BeginPhase \/ DetectSensitiveValues \/ ModelFails \/ PlanAnswered \/ PlanByHeuristic
    \/ RunTools \/ FinalAnswered \/ FinalByHeuristic

ReasoningNext == ReasonStep \/ EditReasoning

\* a request to a model ends by the client's timeout at the latest
ReasoningFairness == WF_reasonVars(ReasonStep)

ReasoningSpec == ReasoningInit /\ [][ReasoningNext]_reasonVars /\ ReasoningFairness

-----------------------------------------------------------------------------
(* Properties.                                                             *)

ReasoningTypeOK ==
    /\ rules \in MaskRules /\ registry \in Bindings /\ subject \in Contexts /\ binding \in RoleBindings
    /\ stage \in {"plan", "tools", "final", "done"}
    /\ asking \in {"nobody", "detector", "primary", "assist", "heuristic"}
    /\ snap.primary \in Models \cup {NoModel} /\ snap.assist \in Models \cup {NoModel}
    /\ out.summary \in {"blank", "finding", "unrelated", "cautious", "evidence", "analysed"}
    /\ reasonEdits \in 0..MaxReasonEdits

\* The context a model is asked to diagnose holds no value and no secret that the rules
\* of its phase mask, neither at first nor after a failover, whatever was edited since;
\* such a value reaches it in the system prompt only, if the role's prompt or the
\* planner's capability summary names it.
MaskedAsConfigured ==
    \A a \in asked : a.by # "detector" /\ a.rules.enabled =>
        /\ \A v \in a.sent.raw \cup (a.prompt \ (subject.rolePrompt \cup subject.offers)) :
               v # subject.host /\ KindOf(v) \notin a.rules.inline
        /\ "assignment" \notin a.sent.secrets

\* The raw context is sent to look for sensitive values only while the rules of the phase
\* enable that: a bound assist model alone does not (specs/30-strategy-desensitization.md).
RawOnlyToDetector == \A a \in asked : a.by = "detector" => a.rules.detect

\* A phase asks a model for a diagnosis at most once: the model that failed is never its
\* own failover.
NeverAskedTwice ==
    \A a, b \in asked : a.model = b.model /\ "detector" \notin {a.by, b.by} => a.by = b.by

\* A mark means one value throughout a diagnosis: where the summary names a mark of the
\* plan, it names the planner's value or leaves the mark, as long as nobody edits the
\* rules in between (numbers are given out anew in every phase).
MarksMeanTheSame ==
    stage = "done" /\ echoed # Nothing /\ snap.rules = planSnap.rules => out.names \in Marks \cup {echoed}

\* A failed metrics, trace, delivery or knowledge query never ends in "unrelated".
CautiousWhenBlind == ~(stage = "done" /\ results.failed /\ out.summary = "unrelated")

\* A proposed command was asked for, or is specific and no evidence made it redundant.
HintEarned ==
    out.hint # "none" =>
        \/ ExplicitlyAllowed(out.hint)
        \/ ~results.evidence /\ ~Generic(out.hint, out.arg)

\* A planned command that only repeats monitoring was asked for, or the planner saw its
\* path as a mark: the commands of a plan are judged before the marks are resolved.
GenericOnlyIfAsked ==
    \A i \in DOMAIN draft : draft[i].tool = "command" /\ Generic(draft[i].cmd, draft[i].arg) =>
        ExplicitlyAllowed(draft[i].cmd) \/ draft[i].arg \in DOMAIN planSnap.marks

\* On a disk alert without a skill, metrics and knowledge come before any command of
\* the model; a command the user asked for directly is the whole fallback plan.
DiskEvidenceFirst ==
    subject.disk /\ ~subject.skill /\ Len(draft) > 1 =>
        \A i \in DOMAIN draft : draft[i].tool = "command" =>
            \A t \in {"metrics", "knowledge"} : \E j \in 1..(i - 1) : draft[j].tool = t

\* Every diagnosis that is begun ends, with a summary, whichever models fail and whatever is edited.
DiagnosisConcludes == asking # "nobody" ~> (stage = "done" /\ out.summary # "blank")

\* What the models are sent is masked as configured, and what is made of their
\* answers means what they were asked, claims no more than the tools found and
\* proposes only what was earned.
ReasoningSound == /\ ReasoningTypeOK /\ MaskedAsConfigured /\ RawOnlyToDetector /\ NeverAskedTwice /\ MarksMeanTheSame
                  /\ CautiousWhenBlind /\ HintEarned /\ GenericOnlyIfAsked /\ DiskEvidenceFirst
=============================================================================
