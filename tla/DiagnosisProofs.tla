--------------------------- MODULE DiagnosisProofs ---------------------------
(***************************************************************************)
(* Proofs about the diagnosis of a session: the host command that is run   *)
(* for it, the steps of its tool plan, and the questions to the models.    *)
(***************************************************************************)
EXTENDS ToolPlan, CommandRun, Reasoning, FiniteSetTheorems, WellFoundedInduction, TLAPS

-----------------------------------------------------------------------------
(* The least number principle, for the first of several matches.           *)

\* A set of naturals that is not empty has a least element.
LEMMA LeastNumber ==
    ASSUME NEW T, T \subseteq Nat, T # {}
    PROVE  \E x \in T : \A y \in T : x <= y
<1> DEFINE R == OpToRel(<, Nat)
<1>1. \E x \in T : \A y \in T : ~(<<y, x>> \in R)
    BY NatLessThanWellFounded, WFMin
<1>2. \A x, y \in Nat : y < x => <<y, x>> \in R
    BY DEF OpToRel
<1> HIDE DEF R
<1>3. PICK x \in T : \A y \in T : ~(<<y, x>> \in R)
    BY <1>1
<1>4. ASSUME NEW y \in T PROVE x <= y
  <2>1. x \in Nat /\ y \in Nat
    OBVIOUS
  <2>2. ~(<<y, x>> \in R)
    BY <1>3
  <2>3. ~(y < x)
    BY <1>2, <2>1, <2>2
  <2> QED
    BY <2>1, <2>3
<1> QED
    BY <1>4

-----------------------------------------------------------------------------
(* Listings.                                                               *)

\* Every set of positions has a listing; by induction on the last position, as the
\* least one without.
LEMMA AscendingExists ==
    ASSUME NEW n \in Nat, NEW P \in SUBSET (1..n)
    PROVE  IsFiniteSet(P) /\ Cardinality(P) \in Nat /\ Ascending(P) # {}
<1> DEFINE Bad == {m \in Nat : \E Q \in SUBSET (1..m) : Ascending(Q) = {}}
<1>1. \A m \in Nat : \A Q \in SUBSET (1..m) : IsFiniteSet(Q) /\ Cardinality(Q) \in Nat
  <2>1. \A m \in Nat : IsFiniteSet(1..m)
    BY FS_Interval
  <2> QED
    BY <2>1, FS_Subset, FS_CardinalityType
<1>2. ASSUME Bad # {} PROVE FALSE
  <2>1. PICK m \in Bad : \A k \in Bad : m <= k
    <3>1. Bad \subseteq Nat
        OBVIOUS
    <3> HIDE DEF Bad
    <3> QED
        BY <1>2, <3>1, LeastNumber
  <2>2. m \in Nat
    OBVIOUS
  <2>3. PICK Q \in SUBSET (1..m) : Ascending(Q) = {}
    OBVIOUS
  <2>4. m # 0
    <3> SUFFICES ASSUME m = 0 PROVE FALSE
        OBVIOUS
    <3>1. Q = {} /\ Cardinality(Q) = 0
      <4>1. 1..0 = {}
        OBVIOUS
      <4> HIDE DEF Bad
      <4>2. Q = {}
        BY <4>1
      <4> QED
        BY <4>2, FS_EmptySet
    <3>2. [i \in 1..0 |-> i] \in Ascending(Q)
        BY <3>1 DEF Ascending
    <3> QED
        BY <2>3, <3>2
  <2>5. m - 1 \in Nat /\ m - 1 \notin Bad
    BY <2>1, <2>2, <2>4
  <2>6. \A Z \in SUBSET (1..m - 1) : Ascending(Z) # {}
    BY <2>5
  <2> HIDE DEF Bad
  <2>7. m \in Q
    BY <2>2, <2>3, <2>6
  <2> DEFINE Z == Q \ {m}
             c == Cardinality(Z)
  <2>8. Z \in SUBSET (1..m - 1) /\ Q = Z \cup {m} /\ m \notin Z
    BY <2>2, <2>7
  <2>9. IsFiniteSet(Z) /\ c \in Nat /\ Cardinality(Q) = c + 1
    <3>1. IsFiniteSet(Z) /\ Cardinality(Z) \in Nat
        BY <1>1, <2>5, <2>8
    <3> HIDE DEF Z
    <3> QED
        BY <2>8, <3>1, FS_AddElement
  <2>10. PICK e \in Ascending(Z) : TRUE
    BY <2>6, <2>8
  <2> HIDE DEF Z, c
  <2>11. /\ e \in [1..c -> Z] /\ \A x \in Z : \E i \in 1..c : e[i] = x
         /\ \A i, j \in 1..c : i < j => e[i] < e[j]
    BY DEF Ascending, c
  <2> DEFINE f == [i \in 1..c + 1 |-> IF i = c + 1 THEN m ELSE e[i]]
  <2>12. f \in [1..c + 1 -> Q]
    BY <2>8, <2>9, <2>11
  <2>13. \A x \in Q : \E i \in 1..c + 1 : f[i] = x
    <3> SUFFICES ASSUME NEW x \in Q PROVE \E i \in 1..c + 1 : f[i] = x
        OBVIOUS
    <3>1. CASE x = m
        BY <2>9, <3>1
    <3>2. CASE x \in Z
      <4>1. PICK i \in 1..c : e[i] = x
        BY <2>11, <3>2
      <4>2. i \in 1..c + 1 /\ i # c + 1
        BY <2>9
      <4> QED
        BY <4>1, <4>2
    <3> QED
        BY <2>8, <3>1, <3>2
  <2>14. \A i, j \in 1..c + 1 : i < j => f[i] < f[j]
    <3> SUFFICES ASSUME NEW i \in 1..c + 1, NEW j \in 1..c + 1, i < j PROVE f[i] < f[j]
        OBVIOUS
    <3>1. i \in 1..c /\ i # c + 1 /\ f[i] = e[i]
        BY <2>9
    <3>2. CASE j = c + 1
      <4>1. e[i] \in 1..m - 1
        BY <2>8, <2>11, <3>1
      <4> QED
        BY <2>2, <3>1, <3>2, <4>1
    <3>3. CASE j # c + 1
      <4>1. j \in 1..c /\ f[j] = e[j]
        BY <2>9, <3>3
      <4> QED
        BY <2>11, <3>1, <4>1
    <3> QED
        BY <3>2, <3>3
  <2> HIDE DEF f
  <2>15. f \in Ascending(Q)
    BY <2>9, <2>12, <2>13, <2>14 DEF Ascending
  <2> QED
    BY <2>3, <2>15
<1> QED
    BY <1>1, <1>2

\* In a listing the k-th position is the one with k positions up to it.
LEMMA Ranked ==
    ASSUME NEW P, P \subseteq Nat, Cardinality(P) \in Nat, NEW e \in Ascending(P), NEW k \in 1..Cardinality(P)
    PROVE  (CHOOSE i \in P : Cardinality({j \in P : j <= i}) = k) = e[k]
<1> DEFINE c == Cardinality(P)
           upto(i) == {j \in P : j <= i}
<1>1. /\ e \in [1..c -> P] /\ \A x \in P : \E i \in 1..c : e[i] = x
      /\ \A i, j \in 1..c : i < j => e[i] < e[j]
    BY DEF Ascending
<1> HIDE DEF c
<1>2. ASSUME NEW m \in 1..c PROVE Cardinality(upto(e[m])) = m
  <2> DEFINE f == [i \in 1..m |-> e[i]]
             T == upto(e[m])
  <2>1. c \in Nat /\ m \in Nat /\ \A i \in 1..m : i \in 1..c
    BY DEF c
  <2>2. \A i \in 1..c : e[i] \in P /\ e[i] \in Nat
    BY <1>1
  <2>3. ASSUME NEW i \in 1..m PROVE e[i] \in T
    <3>1. i = m \/ i < m
        BY <2>1
    <3>2. e[i] <= e[m]
        BY <1>1, <2>1, <2>2, <3>1
    <3> QED
        BY <2>1, <2>2, <3>2
  <2>4. ASSUME NEW x \in T PROVE \E i \in 1..m : e[i] = x
    <3>1. PICK i \in 1..c : e[i] = x
        BY <1>1
    <3>2. e[i] <= e[m]
        BY <3>1
    <3>3. ~(m < i)
        BY <1>1, <2>2, <3>2
    <3> QED
        BY <2>1, <3>1, <3>3
  <2>5. ASSUME NEW i \in 1..m, NEW j \in 1..m, e[i] = e[j] PROVE i = j
    <3>1. ~(i < j) /\ ~(j < i)
        BY <1>1, <2>1, <2>2, <2>5
    <3> QED
        BY <3>1
  <2> HIDE DEF T
  <2>6. f \in [1..m -> T]
    BY <2>3
  <2>7. f \in Bijection(1..m, T)
    BY <2>4, <2>5, <2>6 DEF Bijection, Injection, Surjection, IsInjective
  <2>8. ExistsBijection(1..m, T)
    BY <2>7 DEF ExistsBijection
  <2> QED
    BY <2>1, <2>8, FS_CountingElements DEF T
<1>3. k \in 1..c
    BY DEF c
<1>4. e[k] \in P /\ Cardinality(upto(e[k])) = k
    BY <1>1, <1>2, <1>3
<1>5. ASSUME NEW i \in P, Cardinality(upto(i)) = k PROVE i = e[k]
  <2>1. PICK m \in 1..c : e[m] = i
    BY <1>1
  <2> QED
    BY <1>2, <1>5, <2>1
<1> QED
    BY <1>4, <1>5

\* What is picked is a sequence of the entries at the given positions, all of them.
LEMMA PickedFacts ==
    ASSUME NEW S, NEW s \in Seq(S), NEW P \in SUBSET DOMAIN s
    PROVE  /\ Picked(s, P) \in Seq(S)
           /\ \A k \in DOMAIN Picked(s, P) : \E i \in P : Picked(s, P)[k] = s[i]
           /\ \A i \in P : \E k \in DOMAIN Picked(s, P) : Picked(s, P)[k] = s[i]
<1> DEFINE c == Cardinality(P)
<1>1. c \in Nat /\ Ascending(P) # {} /\ P \subseteq Nat
  <2>1. Len(s) \in Nat /\ DOMAIN s = 1..Len(s)
    OBVIOUS
  <2>2. Cardinality(P) \in Nat /\ Ascending(P) # {}
    BY <2>1, AscendingExists
  <2> QED
    BY <2>1, <2>2
<1>2. PICK e \in Ascending(P) : TRUE
    BY <1>1
<1>3. Picked(s, P) = [k \in 1..c |-> s[e[k]]]
  <2> DEFINE place(k) == CHOOSE i \in P : Cardinality({j \in P : j <= i}) = k
  <2>1. ASSUME NEW k \in 1..c
        PROVE  place(k) = e[k]
    BY <1>1, <1>2, Ranked
  <2>2. Picked(s, P) = [k \in 1..c |-> s[place(k)]]
    BY DEF Picked
  <2> HIDE DEF place, c
  <2> QED
    BY <2>1, <2>2
<1> HIDE DEF c
<1>4. e \in [1..c -> P] /\ \A x \in P : \E i \in 1..c : e[i] = x
    BY <1>2 DEF Ascending, c
<1>5. \A k \in 1..c : s[e[k]] \in S
  <2>1. \A i \in DOMAIN s : s[i] \in S
    OBVIOUS
  <2> QED
    BY <1>4, <2>1
<1>6. Picked(s, P) \in Seq(S)
    BY <1>1, <1>3, <1>5
<1>7. DOMAIN Picked(s, P) = 1..c /\ \A k \in 1..c : Picked(s, P)[k] = s[e[k]]
    BY <1>3
<1> QED
    BY <1>4, <1>6, <1>7

-----------------------------------------------------------------------------
(* CommandRun.  The inductive invariant.                                   *)

\* The execution request; an agent role may bring any action.
Requests(capped) ==
    [st : {"none", "advised", "pending", "rejected", "executing", "polling", "result",
           "verifying", "unverified", "finished"},
     cmd : Commands \cup {NoCommand}, proposed : Commands \cup {NoCommand},
     clearedBy : {"nobody", "policy", "operator"}, judged : Actions, capped : {capped},
     via : Protocols, result : {"none", "completed", "failed", "timeout"},
     verified : {"none", "success", "failed", "skipped"}]

\* Before it is cleared nothing has run.
NotCleared ==
    req.st \in {"none", "advised", "pending", "rejected"} => req.clearedBy = "nobody" /\ ranAs = <<>>

\* From then on it has a command, the proposed one unless an operator changed it.
Cleared ==
    req.st \notin {"none", "advised", "pending", "rejected"} =>
        /\ req.clearedBy # "nobody" /\ req.cmd \in Commands
        /\ req.clearedBy = "policy" => req.cmd = req.proposed

\* What was handed over and not yet started, and what is under way, has no result.
NoResultYet ==
    /\ req.st = "executing" => ranAs = <<>>
    /\ req.st \notin {"result", "verifying", "unverified", "finished"} => req.result = "none"

\* At most one start.
OneStart == ranAs = <<>> \/ \E r : ranAs = <<r>>

CmdInv == /\ CmdTypeOK /\ req \in Requests(req.capped) /\ NotCleared /\ Cleared /\ NoResultYet /\ OneStart
          /\ BuiltinRunsAllowed /\ RoleOnlyTightens /\ RanWhatWasCleared /\ CompletedIsReal

-----------------------------------------------------------------------------
(* CommandRun.  What policy and role decide.                               *)

\* The policy decides one of the four actions, and denies what is hard denied.
LEMMA EvaluateFacts ==
    ASSUME NEW p \in Policies, NEW c, NEW ch
    PROVE  /\ EvaluateSSHCommand(p, c, ch) \in Actions
           /\ c \in p.hard => EvaluateSSHCommand(p, c, ch) = "deny"
<1> DEFINE hits == {i \in DOMAIN p.overrides : Applies(p.overrides[i], c, ch)}
           first == CHOOSE i \in hits : \A j \in hits : i <= j
<1>1. hits # {} => first \in hits
  <2>1. hits \subseteq Nat
    BY CommandRunAssumption
  <2> HIDE DEF hits
  <2> QED
    BY <2>1, LeastNumber
<1>2. hits # {} => p.overrides[first].action \in Actions
  <2>1. hits \subseteq DOMAIN p.overrides
    OBVIOUS
  <2> HIDE DEF hits, first
  <2> QED
    BY <1>1, <2>1, CommandRunAssumption
<1>3. p.onWhite \in Actions /\ p.onBlack \in Actions /\ p.otherwise \in Actions
    BY CommandRunAssumption
<1>4. EvaluateSSHCommand(p, c, ch) =
          IF c \in p.hard THEN "deny"
          ELSE IF hits # {} THEN p.overrides[first].action
          ELSE IF c \in p.white THEN p.onWhite
          ELSE IF c \in p.black THEN p.onBlack ELSE p.otherwise
    BY DEF EvaluateSSHCommand
<1> HIDE DEF hits, first
<1> QED
    BY <1>2, <1>3, <1>4 DEF Actions

\* Every action has a rank, and the role never raises it.
LEMMA RankFacts ==
    /\ \A a : actionRank(a) \in 0..3
    /\ \A r, a, c : actionRank(EnforcePolicy(r, a, c)) <= actionRank(a)
<1>1. \A a : actionRank(a) \in 0..3
    BY DEF actionRank
<1>2. ASSUME NEW r, NEW a, NEW c PROVE actionRank(EnforcePolicy(r, a, c)) <= actionRank(a)
  <2> DEFINE softened == IF c \in r.ask /\ actionRank(a) > actionRank("require_approval")
                      THEN "require_approval" ELSE a
  <2>1. actionRank("deny") = 0
    BY DEF actionRank
  <2>2. actionRank(softened) <= actionRank(a)
    BY <1>1
  <2>3. EnforcePolicy(r, a, c) = IF c \in r.hard THEN "deny"
        ELSE IF r.maxAction # "" /\ actionRank(softened) > actionRank(r.maxAction)
             THEN r.maxAction ELSE softened
    BY DEF EnforcePolicy
  <2> HIDE DEF softened
  <2>4. actionRank(a) \in 0..3 /\ actionRank(softened) \in 0..3 /\ actionRank(r.maxAction) \in 0..3
    BY <1>1
  <2>5. CASE EnforcePolicy(r, a, c) = "deny"
    BY <2>1, <2>4, <2>5
  <2>6. CASE EnforcePolicy(r, a, c) = r.maxAction /\ actionRank(softened) > actionRank(r.maxAction)
    <3>1. actionRank(r.maxAction) <= actionRank(a)
        BY <2>2, <2>4, <2>6
    <3> QED
        BY <2>6, <3>1
  <2>7. CASE EnforcePolicy(r, a, c) = softened
    BY <2>2, <2>7
  <2> QED
    BY <2>3, <2>5, <2>6, <2>7
<1> QED
    BY <1>1, <1>2

-----------------------------------------------------------------------------
(* CommandRun.  Every action keeps the invariant.                          *)

\* What the request was made for stays.
SameOrder == /\ req'.cmd = req.cmd /\ req'.proposed = req.proposed /\ req'.clearedBy = req.clearedBy
             /\ req'.judged = req.judged /\ req'.capped = req.capped /\ req'.via = req.via

\* No command, nothing decided.
LEMMA CmdInitial == CmdInit => CmdInv
<1> SUFFICES ASSUME CmdInit PROVE CmdInv
    OBVIOUS
<1>1. /\ req = NoRequest /\ job = NoJob /\ ranAs = <<>> /\ cmdEdits = 0
      /\ policy \in Policies /\ role \in RunRoles /\ connector \in Protocols /\ usable = TRUE
    BY DEF CmdInit
<1>2. NoRequest \in Requests(NoRequest.capped)
    BY DEF NoRequest, Requests, Actions, Protocols
<1>3. NoRequest.st = "none" /\ NoRequest.clearedBy = "nobody" /\ NoRequest.result = "none"
    BY DEF NoRequest
<1>4. \A k : \A r \in Requests(k) : /\ r.cmd \in Commands \cup {NoCommand} /\ r.judged \in Actions
                                    /\ r.via \in Protocols /\ r.verified \in {"none", "success", "failed", "skipped"}
    BY DEF Requests
<1>5. CmdTypeOK
  <2>1. cmdEdits \in 0..MaxCmdEdits
    BY <1>1, CommandRunAssumption
  <2>2. /\ NoRequest.cmd \in Commands \cup {NoCommand} /\ NoRequest.judged \in Actions
        /\ NoRequest.via \in Protocols /\ NoRequest.verified \in {"none", "success", "failed", "skipped"}
    BY <1>2, <1>4
  <2> QED
    BY <1>1, <1>3, <2>1, <2>2 DEF CmdTypeOK, JobStates, NoJob
<1>6. NotCleared /\ Cleared /\ NoResultYet /\ OneStart
    BY <1>1, <1>3 DEF NotCleared, Cleared, NoResultYet, OneStart
<1>7. BuiltinRunsAllowed /\ RoleOnlyTightens /\ RanWhatWasCleared /\ CompletedIsReal
    BY <1>1, <1>3 DEF BuiltinRunsAllowed, RoleOnlyTightens, RanWhatWasCleared, CompletedIsReal
<1> QED
    BY <1>1, <1>2, <1>5, <1>6, <1>7 DEF CmdInv

\* The parts of a request have their types.
LEMMA RequestFacts ==
    \A k : \A r \in Requests(k) :
        /\ r.st \in {"none", "advised", "pending", "rejected", "executing", "polling", "result",
                     "verifying", "unverified", "finished"}
        /\ r.cmd \in Commands \cup {NoCommand} /\ r.proposed \in Commands \cup {NoCommand}
        /\ r.clearedBy \in {"nobody", "policy", "operator"} /\ r.judged \in Actions /\ r.capped = k
        /\ r.via \in Protocols /\ r.result \in {"none", "completed", "failed", "timeout"}
        /\ r.verified \in {"none", "success", "failed", "skipped"}
    BY DEF Requests

\* Policy and role decide about a proposed command.
LEMMA ProposeKeeps ==
    ASSUME CmdInv, NEW c \in Commands, NEW ch \in Channels, Propose(c, ch)
    PROVE  CmdInv'
<1> DEFINE judged == EvaluateSSHCommand(policy, c, ch)
           capped == EnforcePolicy(role, judged, c)
           st     == CASE capped = "direct_execute" -> "executing"
                       [] capped = "require_approval" -> "pending"
                       [] OTHER -> "advised"
           by     == IF st = "executing" THEN "policy" ELSE "nobody"
<1>1. /\ req.st = "none" /\ UNCHANGED <<policy, role, connector, usable, job, ranAs, cmdEdits>>
      /\ req' = [NoRequest EXCEPT !.st = st, !.cmd = c, !.proposed = c, !.via = connector,
                                  !.clearedBy = by, !.judged = judged, !.capped = capped]
    BY DEF Propose
<1>2. judged \in Actions /\ actionRank(capped) <= actionRank(judged)
    BY EvaluateFacts, RankFacts DEF CmdInv, CmdTypeOK
<1>3. st \in {"executing", "pending", "advised"}
    OBVIOUS
<1>4. (by = "policy" /\ st = "executing") \/ (by = "nobody" /\ st # "executing")
    OBVIOUS
<1> HIDE DEF judged, capped, st, by
<1>5. connector \in Protocols /\ ranAs = <<>>
    BY <1>1 DEF CmdInv, CmdTypeOK, NotCleared
<1>6. req' = [st |-> st, cmd |-> c, proposed |-> c, clearedBy |-> by, judged |-> judged, capped |-> capped,
              via |-> connector, result |-> "none", verified |-> "none"]
    BY <1>1 DEF NoRequest
<1>7. req' \in Requests(capped)
    BY <1>2, <1>3, <1>4, <1>5, <1>6 DEF Requests
<1>8. /\ req'.st = st /\ req'.cmd = c /\ req'.proposed = c /\ req'.clearedBy = by /\ req'.result = "none"
      /\ req'.judged = judged /\ req'.capped = capped
    BY <1>6
<1>9. CmdTypeOK'
    BY <1>1, <1>5, <1>7, RequestFacts DEF CmdInv, CmdTypeOK
<1>10. NotCleared' /\ Cleared' /\ NoResultYet' /\ OneStart'
    BY <1>1, <1>3, <1>4, <1>5, <1>8 DEF NotCleared, Cleared, NoResultYet, OneStart
<1>11. BuiltinRunsAllowed' /\ RoleOnlyTightens' /\ RanWhatWasCleared' /\ CompletedIsReal'
    BY <1>1, <1>2, <1>5, <1>8 DEF BuiltinRunsAllowed, RoleOnlyTightens, RanWhatWasCleared, CompletedIsReal
<1> QED
    BY <1>7, <1>8, <1>9, <1>10, <1>11 DEF CmdInv

\* An operator approves, changes the command or rejects; or time runs out.
LEMMA DecideKeeps ==
    ASSUME CmdInv, Decide
    PROVE  CmdInv'
<1>1. /\ req.st = "pending" /\ UNCHANGED <<policy, role, connector, usable, job, ranAs, cmdEdits>>
      /\ req \in Requests(req.capped) /\ ranAs = <<>> /\ req.result = "none" /\ req.clearedBy = "nobody"
    BY DEF Decide, CmdInv, NotCleared, NoResultYet
<1>2. /\ req' \in Requests(req.capped) /\ req'.st \in {"executing", "rejected"}
      /\ req'.judged = req.judged /\ req'.capped = req.capped /\ req'.result = "none"
      /\ req'.st = "executing" => req'.clearedBy = "operator" /\ req'.cmd \in Commands
      /\ req'.st = "rejected" => req'.clearedBy = "nobody"
  <2>1. CASE \E c \in Commands : req' = [req EXCEPT !.st = "executing", !.cmd = c, !.clearedBy = "operator"]
    <3>1. PICK c \in Commands : req' = [req EXCEPT !.st = "executing", !.cmd = c, !.clearedBy = "operator"]
        BY <2>1
    <3> QED
        BY <1>1, <3>1 DEF Requests
  <2>2. CASE req' = [req EXCEPT !.st = "rejected"]
    BY <1>1, <2>2 DEF Requests
  <2> QED
    BY <2>1, <2>2 DEF Decide
<1>3. CmdTypeOK'
    BY <1>1, <1>2, RequestFacts DEF CmdInv, CmdTypeOK
<1>4. NotCleared' /\ Cleared' /\ NoResultYet' /\ OneStart'
    BY <1>1, <1>2 DEF NotCleared, Cleared, NoResultYet, OneStart
<1>5. BuiltinRunsAllowed' /\ RoleOnlyTightens' /\ RanWhatWasCleared' /\ CompletedIsReal'
    BY <1>1, <1>2 DEF CmdInv, BuiltinRunsAllowed, RoleOnlyTightens, RanWhatWasCleared, CompletedIsReal
<1> QED
    BY <1>2, <1>3, <1>4, <1>5 DEF CmdInv

\* Execution: the command on the request is started, once, or it is not.
LEMMA ExecutionKeeps ==
    ASSUME CmdInv, req.st \in {"executing", "polling"}, req' \in Requests(req.capped), SameOrder,
           req'.st \in {"polling", "result"}, req'.st = "polling" => req'.result = "none",
           job' \in JobStates, CompletedIsReal', UNCHANGED <<policy, role, connector, usable, cmdEdits>>,
           \/ ranAs' = ranAs
           \/ /\ req.st = "executing"
              /\ \E a \in BOOLEAN : /\ ranAs' = Append(ranAs, [cmd |-> req.cmd, via |-> req.via, allowed |-> a])
                                    /\ req.via = "ssh" => a
    PROVE  CmdInv'
<1>1. /\ req.clearedBy # "nobody" /\ req.cmd \in Commands
      /\ req.clearedBy = "policy" => req.cmd = req.proposed
    BY DEF CmdInv, Cleared
<1>2. /\ OneStart'
      /\ ranAs' \in Seq([cmd : Commands, via : Protocols, allowed : BOOLEAN])
      /\ \A i \in DOMAIN ranAs' : /\ ranAs'[i].cmd = req.cmd
                                  /\ ranAs'[i].via = "ssh" => ranAs'[i].allowed
  <2>1. CASE ranAs' = ranAs
    BY <2>1 DEF CmdInv, OneStart, CmdTypeOK, BuiltinRunsAllowed, RanWhatWasCleared
  <2>2. CASE /\ req.st = "executing"
             /\ \E a \in BOOLEAN : /\ ranAs' = Append(ranAs, [cmd |-> req.cmd, via |-> req.via, allowed |-> a])
                                   /\ req.via = "ssh" => a
    <3>1. PICK a \in BOOLEAN : /\ ranAs' = Append(ranAs, [cmd |-> req.cmd, via |-> req.via, allowed |-> a])
                               /\ req.via = "ssh" => a
        BY <2>2
    <3>2. ranAs = <<>> /\ req.via \in Protocols
        BY <2>2 DEF CmdInv, NoResultYet, CmdTypeOK
    <3> DEFINE run == [cmd |-> req.cmd, via |-> req.via, allowed |-> a]
    <3>3. /\ run \in [cmd : Commands, via : Protocols, allowed : BOOLEAN]
          /\ run.cmd = req.cmd /\ (run.via = "ssh" => run.allowed)
        BY <1>1, <3>1, <3>2
    <3> HIDE DEF run
    <3>4. ranAs' = <<run>>
        BY <3>1, <3>2 DEF run
    <3>5. DOMAIN ranAs' = {1} /\ ranAs'[1] = run
        BY <3>4
    <3>6. ranAs' \in Seq([cmd : Commands, via : Protocols, allowed : BOOLEAN])
        BY <3>3, <3>4
    <3>7. OneStart'
        BY <3>4 DEF OneStart
    <3> QED
        BY <3>3, <3>5, <3>6, <3>7
  <2> QED
    BY <2>1, <2>2
<1>3. CmdTypeOK'
    BY <1>2, RequestFacts DEF CmdInv, CmdTypeOK
<1>4. NotCleared' /\ Cleared' /\ NoResultYet'
    BY <1>1 DEF NotCleared, Cleared, NoResultYet, SameOrder
<1>5. BuiltinRunsAllowed' /\ RoleOnlyTightens' /\ RanWhatWasCleared'
    BY <1>1, <1>2 DEF CmdInv, BuiltinRunsAllowed, RoleOnlyTightens, RanWhatWasCleared, SameOrder
<1> QED
    BY <1>2, <1>3, <1>4, <1>5 DEF CmdInv, SameOrder

\* The executor's answer, and a poll that goes on.
LEMMA EndedFacts ==
    ASSUME CmdInv
    PROVE  /\ \A x \in {"completed", "failed", "timeout"} : Ended(x) =>
                 req' \in Requests(req.capped) /\ SameOrder /\ req'.st = "result" /\ req'.result = x
           /\ req' = [req EXCEPT !.st = "polling"] =>
                 req' \in Requests(req.capped) /\ SameOrder /\ req'.st = "polling" /\ req'.result = req.result
<1>1. req \in Requests(req.capped)
    BY DEF CmdInv
<1>2. ASSUME NEW x \in {"completed", "failed", "timeout"}, Ended(x)
      PROVE  req' \in Requests(req.capped) /\ SameOrder /\ req'.st = "result" /\ req'.result = x
    BY <1>1, <1>2 DEF Ended, Requests, SameOrder
<1>3. ASSUME req' = [req EXCEPT !.st = "polling"]
      PROVE  req' \in Requests(req.capped) /\ SameOrder /\ req'.st = "polling" /\ req'.result = req.result
    BY <1>1, <1>3 DEF Requests, SameOrder
<1> QED
    BY <1>2, <1>3

\* What is started is the command on the request, judged by the policy in force.
LEMMA StartedFacts ==
    ASSUME NEW via
    PROVE  \E a \in BOOLEAN : /\ Started(via) = Append(ranAs, [cmd |-> req.cmd, via |-> via, allowed |-> a])
                              /\ ValidateRequest(Command) => a
<1> DEFINE verdict == EvaluateSSHCommand(policy, Command, "no channel")
           a == verdict \notin {"deny", "suggest_only"}
<1>1. Started(via) = Append(ranAs, [cmd |-> req.cmd, via |-> via, allowed |-> a])
    BY DEF Started, Command
<1>2. ValidateRequest(Command) => verdict \in {"direct_execute", "require_approval"}
    BY DEF ValidateRequest
<1> HIDE DEF verdict
<1>3. a \in BOOLEAN /\ (verdict \in {"direct_execute", "require_approval"} => a)
    OBVIOUS
<1> QED
    BY <1>1, <1>2, <1>3

\* The built-in executor starts only what the policy in force allows.
LEMMA ExecuteBuiltinKeeps ==
    ASSUME CmdInv, ExecuteBuiltin
    PROVE  CmdInv'
<1>1. /\ req.st = "executing" /\ req.via = "ssh"
      /\ UNCHANGED <<policy, role, connector, usable, job, cmdEdits>>
    BY DEF ExecuteBuiltin
<1>2. \E x \in {"completed", "failed", "timeout"} : Ended(x)
    BY DEF ExecuteBuiltin
<1>3. /\ req' \in Requests(req.capped) /\ SameOrder /\ req'.st = "result"
      /\ job' \in JobStates /\ CompletedIsReal'
    BY <1>1, <1>2, EndedFacts DEF SameOrder, CompletedIsReal, CmdInv, CmdTypeOK
<1>4. \/ ranAs' = ranAs
      \/ \E a \in BOOLEAN : /\ ranAs' = Append(ranAs, [cmd |-> req.cmd, via |-> req.via, allowed |-> a])
                            /\ req.via = "ssh" => a
    BY <1>1, StartedFacts DEF ExecuteBuiltin
<1> QED
    BY <1>1, <1>3, <1>4, ExecutionKeeps

\* The connector on the request runs the command, or the request fails.
LEMMA ExecuteNativeKeeps ==
    ASSUME CmdInv, ExecuteNative
    PROVE  CmdInv'
<1>1. /\ req.st = "executing" /\ req.via = "ssh_native"
      /\ UNCHANGED <<policy, role, connector, usable, job, cmdEdits>>
    BY DEF ExecuteNative
<1>2. \E x \in {"completed", "failed", "timeout"} : Ended(x)
    BY DEF ExecuteNative
<1>3. /\ req' \in Requests(req.capped) /\ SameOrder /\ req'.st = "result"
      /\ job' \in JobStates /\ CompletedIsReal'
    BY <1>1, <1>2, EndedFacts DEF SameOrder, CompletedIsReal, CmdInv, CmdTypeOK
<1>4. \/ ranAs' = ranAs
      \/ \E a \in BOOLEAN : /\ ranAs' = Append(ranAs, [cmd |-> req.cmd, via |-> req.via, allowed |-> a])
                            /\ req.via = "ssh" => a
    BY <1>1, StartedFacts DEF ExecuteNative
<1> QED
    BY <1>1, <1>3, <1>4, ExecutionKeeps

\* A job is submitted once; a lost answer is a failure, not a second start.
LEMMA SubmitJobKeeps ==
    ASSUME CmdInv, SubmitJob
    PROVE  CmdInv'
<1>1. /\ req.st = "executing" /\ req.via = "jumpserver_api" /\ req.result = "none"
      /\ UNCHANGED <<policy, role, connector, usable, cmdEdits>>
    BY DEF SubmitJob, CmdInv, NoResultYet
<1>2. Ended("failed") \/ req' = [req EXCEPT !.st = "polling"]
    BY DEF SubmitJob
<1>3. /\ req' \in Requests(req.capped) /\ SameOrder /\ req'.st \in {"polling", "result"}
      /\ req'.result \in {"none", "failed"} /\ (req'.st = "polling" => req'.result = "none")
    BY <1>1, <1>2, EndedFacts
<1>4. job' \in JobStates
  <2>1. [status |-> "running", ok |-> FALSE] \in JobStates
    BY DEF JobStates
  <2> QED
    BY <2>1 DEF SubmitJob, CmdInv, CmdTypeOK
<1>5. CompletedIsReal'
    BY <1>3 DEF CompletedIsReal
<1>6. \/ ranAs' = ranAs
      \/ \E a \in BOOLEAN : /\ ranAs' = Append(ranAs, [cmd |-> req.cmd, via |-> req.via, allowed |-> a])
                            /\ req.via = "ssh" => a
    BY <1>1, StartedFacts DEF SubmitJob
<1> QED
    BY <1>1, <1>3, <1>4, <1>5, <1>6, ExecutionKeeps

\* A poll reports the job's end as it was, or gives up.
LEMMA PollTaskKeeps ==
    ASSUME CmdInv, PollTask
    PROVE  CmdInv'
<1>1. req.st = "polling" /\ UNCHANGED <<policy, role, connector, usable, job, ranAs, cmdEdits>>
    BY DEF PollTask
<1>0. job.status # "running" => (job.status = "none" /\ ~job.ok) \/ job \in JobEndings
    BY DEF CmdInv, CmdTypeOK, JobStates
<1>2. \E x \in {"completed", "failed", "timeout"} : Ended(x) /\ (x = "completed" => job \in JobEndings /\ job.status \notin {"timeout", "canceled"} /\ (job.status = "success" \/ job.ok))
    BY <1>0, <1>1 DEF PollTask, JobResult
<1>3. PICK x \in {"completed", "failed", "timeout"} : Ended(x) /\ (x = "completed" => job \in JobEndings /\ job.status \notin {"timeout", "canceled"} /\ (job.status = "success" \/ job.ok))
    BY <1>2
<1>4. req' \in Requests(req.capped) /\ SameOrder /\ req'.st = "result" /\ req'.result = x
    BY <1>3, EndedFacts
<1>5. job' \in JobStates /\ CompletedIsReal'
    BY <1>1, <1>3, <1>4 DEF CmdInv, CmdTypeOK, CompletedIsReal
<1> QED
    BY <1>1, <1>4, <1>5, ExecutionKeeps

\* A job ends once, so what was reported of it stays true.
LEMMA JobEndsKeeps ==
    ASSUME CmdInv, JobEnds
    PROVE  CmdInv'
<1>1. /\ job.status = "running" /\ job' \in JobEndings
      /\ UNCHANGED <<policy, role, connector, usable, req, ranAs, cmdEdits>>
    BY DEF JobEnds
<1>2. CmdTypeOK'
    BY <1>1 DEF CmdInv, CmdTypeOK, JobStates
<1>3. NotCleared' /\ Cleared' /\ NoResultYet' /\ OneStart' /\ req' \in Requests(req'.capped)
    BY <1>1 DEF CmdInv, NotCleared, Cleared, NoResultYet, OneStart
<1>4. BuiltinRunsAllowed' /\ RoleOnlyTightens' /\ RanWhatWasCleared'
    BY <1>1 DEF CmdInv, BuiltinRunsAllowed, RoleOnlyTightens, RanWhatWasCleared
<1>5. CompletedIsReal'
  <2>1. job \notin JobEndings
    BY <1>1 DEF JobEndings
  <2> QED
    BY <1>1, <2>1 DEF CmdInv, CompletedIsReal
<1> QED
    BY <1>2, <1>3, <1>4, <1>5 DEF CmdInv

\* A result is handled and a completed command verified: the request itself stays.
LEMMA AfterwardsKeeps ==
    ASSUME CmdInv, HandleResult \/ VerifyExecution
    PROVE  CmdInv'
<1>1. /\ req.st \in {"result", "verifying"} /\ req \in Requests(req.capped)
      /\ UNCHANGED <<policy, role, connector, usable, job, ranAs, cmdEdits>>
    BY DEF HandleResult, VerifyExecution, CmdInv
<1>2. /\ req' \in Requests(req.capped) /\ SameOrder /\ req'.st \in {"verifying", "unverified", "finished"}
      /\ req'.result = req.result
  <2>1. CASE HandleResult
    <3>1. PICK s \in {"verifying", "finished"} : req' = [req EXCEPT !.st = s]
        BY <2>1 DEF HandleResult
    <3> QED
        BY <1>1, <3>1 DEF Requests, SameOrder
  <2>2. CASE VerifyExecution
    <3>1. \A p : ProbeResult(p) \in {"success", "failed"}
        BY DEF ProbeResult
    <3>2. Verdicts \subseteq {"success", "failed", "skipped"}
        BY <3>1 DEF Verdicts
    <3>3. \/ \E v \in Verdicts : req' = [req EXCEPT !.st = "finished", !.verified = v]
          \/ req' = [req EXCEPT !.st = "finished", !.verified = "failed"]
          \/ req' = [req EXCEPT !.st = "unverified"]
        BY <2>2 DEF VerifyExecution
    <3>4. CASE req' = [req EXCEPT !.st = "unverified"]
        BY <1>1, <3>4 DEF Requests, SameOrder
    <3>5. CASE \E v \in {"success", "failed", "skipped"} : req' = [req EXCEPT !.st = "finished", !.verified = v]
      <4>1. PICK v \in {"success", "failed", "skipped"} : req' = [req EXCEPT !.st = "finished", !.verified = v]
        BY <3>5
      <4> QED
        BY <1>1, <4>1 DEF Requests, SameOrder
    <3> QED
        BY <3>2, <3>3, <3>4, <3>5
  <2> QED
    BY <2>1, <2>2
<1>3. CmdTypeOK'
    BY <1>1, <1>2, RequestFacts DEF CmdInv, CmdTypeOK
<1>4. NotCleared' /\ Cleared' /\ NoResultYet' /\ OneStart'
    BY <1>1, <1>2 DEF CmdInv, NotCleared, Cleared, NoResultYet, OneStart, SameOrder
<1>5. BuiltinRunsAllowed' /\ RoleOnlyTightens' /\ RanWhatWasCleared' /\ CompletedIsReal'
    BY <1>1, <1>2 DEF CmdInv, BuiltinRunsAllowed, RoleOnlyTightens, RanWhatWasCleared, CompletedIsReal, SameOrder
<1> QED
    BY <1>2, <1>3, <1>4, <1>5 DEF CmdInv, SameOrder

\* An edit leaves the request, and what ran for it, alone.
LEMMA EditAuthorizationKeeps ==
    ASSUME CmdInv, EditAuthorization
    PROVE  CmdInv'
<1>1. UNCHANGED <<req, job, ranAs>> /\ cmdEdits < MaxCmdEdits /\ cmdEdits' = cmdEdits + 1
    BY DEF EditAuthorization
<1>2. policy' \in Policies /\ role' \in RunRoles /\ connector' \in Protocols /\ usable' \in BOOLEAN
    BY DEF EditAuthorization, CmdInv, CmdTypeOK
<1>3. cmdEdits' \in 0..MaxCmdEdits
    BY <1>1, CommandRunAssumption DEF CmdInv, CmdTypeOK
<1>4. CmdTypeOK'
    BY <1>1, <1>2, <1>3 DEF CmdInv, CmdTypeOK
<1>5. NotCleared' /\ Cleared' /\ NoResultYet' /\ OneStart' /\ req' \in Requests(req'.capped)
    BY <1>1 DEF CmdInv, NotCleared, Cleared, NoResultYet, OneStart
<1>6. BuiltinRunsAllowed' /\ RoleOnlyTightens' /\ RanWhatWasCleared' /\ CompletedIsReal'
    BY <1>1 DEF CmdInv, BuiltinRunsAllowed, RoleOnlyTightens, RanWhatWasCleared, CompletedIsReal
<1> QED
    BY <1>4, <1>5, <1>6 DEF CmdInv

\* Every step keeps the invariant.
LEMMA CmdStep == CmdInv /\ [CmdNext]_cmdVars => CmdInv'
<1> SUFFICES ASSUME CmdInv, [CmdNext]_cmdVars PROVE CmdInv'
    OBVIOUS
<1>1. ASSUME NEW c \in Commands, NEW ch \in Channels, Propose(c, ch) PROVE CmdInv'
    BY <1>1, ProposeKeeps
<1>2. CASE Decide
    BY <1>2, DecideKeeps
<1>3. CASE CmdWorker
    BY <1>3, ExecuteBuiltinKeeps, ExecuteNativeKeeps, SubmitJobKeeps, PollTaskKeeps, AfterwardsKeeps DEF CmdWorker
<1>4. CASE JobEnds
    BY <1>4, JobEndsKeeps
<1>5. CASE EditAuthorization
    BY <1>5, EditAuthorizationKeeps
<1>6. CASE UNCHANGED cmdVars
  <2>1. UNCHANGED <<policy, role, connector, usable, req, job, ranAs, cmdEdits>>
    BY <1>6 DEF cmdVars
  <2>2. CmdTypeOK'
    BY <2>1 DEF CmdInv, CmdTypeOK
  <2>3. NotCleared' /\ Cleared' /\ NoResultYet' /\ OneStart' /\ req' \in Requests(req'.capped)
    BY <2>1 DEF CmdInv, NotCleared, Cleared, NoResultYet, OneStart
  <2>4. BuiltinRunsAllowed' /\ RoleOnlyTightens' /\ RanWhatWasCleared' /\ CompletedIsReal'
    BY <2>1 DEF CmdInv, BuiltinRunsAllowed, RoleOnlyTightens, RanWhatWasCleared, CompletedIsReal
  <2> QED
    BY <2>2, <2>3, <2>4 DEF CmdInv
<1> QED
    BY <1>1, <1>2, <1>3, <1>4, <1>5, <1>6 DEF CmdNext

\* The invariant gives the property.
LEMMA CmdInvSound == CmdInv => CommandSound
<1> SUFFICES ASSUME CmdInv PROVE CommandSound
    OBVIOUS
<1>1. HardDenyWins
    BY EvaluateFacts DEF CmdInv, CmdTypeOK, HardDenyWins
<1>2. StartedOnce
    BY DEF CmdInv, OneStart, StartedOnce
<1> QED
    BY <1>1, <1>2 DEF CmdInv, CommandSound

\* ApplyDiagnosis, HandleChannelEvent, ExecuteApproved, JumpServer runtime: for any
\* policies, roles and commands, and whatever is edited between two steps, a command runs
\* at most once, as cleared, allowed where the built-in executor runs it, and reported
\* as completed only if it was.
THEOREM CommandCorrect == CmdSpec => []CommandSound
<1>1. CmdInit => CmdInv
    BY CmdInitial
<1>2. CmdInv /\ [CmdNext]_cmdVars => CmdInv'
    BY CmdStep
<1>3. CmdInv => CommandSound
    BY CmdInvSound
<1> QED
    BY <1>1, <1>2, <1>3, PTL DEF CmdSpec

-----------------------------------------------------------------------------
(* ToolPlan.  The inductive invariant.                                     *)

\* The capability rows, with the targets that were told.
AskRecords(targets) ==
    [cap : Caps \ ReadOnly, step : Nat \ {0}, pass : Nat, st : AskStatus, notified : SUBSET targets,
     live : BOOLEAN, calls : 0..1]

PlShape == asks \in Seq(AskRecords(ToSet(ApprovalRoute)))

\* Between two passes nothing of a plan is kept; a pass has a number.
PlIdle == /\ at \in {"queued", "planning", "lost", "done", "dead"} => ran = <<>>
          /\ at # "queued" => pass # 0

\* While steps are left, none so far has ended the plan.
GoesOn(i) == ran[i].st \notin plan[i].stopOn /\ (ran[i].st = "failed" => ran[i].ask = 0)
PlSteps == at \in {"step", "call", "ask", "tell"} => Len(ran) < Len(plan) /\ \A i \in 1..Len(ran) : GoesOn(i)

\* An approval is asked for what may change something, and its row is the last one.
PlAsk ==
    /\ at \in {"ask", "tell"} => Step.cap \notin ReadOnly
    /\ at = "tell" =>
          /\ asks # <<>> /\ asks[Len(asks)].step = Len(ran) + 1 /\ asks[Len(asks)].pass = pass
          /\ told < Len(ApprovalRoute) /\ asks[Len(asks)].notified = {ApprovalRoute[k] : k \in 1..told}

\* This pass has asked for earlier steps only.
PlFresh ==
    \A a \in DOMAIN asks : asks[a].pass = pass =>
        /\ at # "planning"
        /\ at \in {"step", "call", "ask"} \/ (at = "tell" /\ a # Len(asks)) => asks[a].step <= Len(ran)

\* A handler is at work only on a row that was approved.
PlLive == \A a \in DOMAIN asks : asks[a].live => asks[a].st = "executing"

\* A step that was asked about is not completed by the plan.
PlRan == \A i \in DOMAIN ran : ran[i].ask # 0 => ran[i].st # "completed"

\* What is about to be called was cleared by the policy, and has been barred since only by
\* an edit.
PlCall == at = "call" => /\ Step.cap \in ReadOnly
                         /\ Step.cap \in Marketplace \cap barred => raced

PlanInv == /\ ToolPlanTypeOK /\ PlShape /\ PlIdle /\ PlSteps /\ PlAsk /\ PlFresh /\ PlLive /\ PlRan
           /\ PlanCallsAllowed /\ AskedBeforeCalled /\ StopRespected /\ WaitingStepsAsked
           /\ AskedOncePerPass /\ SuppressedStaysOut /\ ShownIsTrue

-----------------------------------------------------------------------------
(* ToolPlan.  Routes, rows and steps.                                      *)

\* A route is a sequence of targets that is not empty.
LEMMA RouteFacts ==
    ASSUME routing \in Routings
    PROVE  /\ ApprovalRoute \in Seq(ToSet(ApprovalRoute)) /\ Len(ApprovalRoute) \in Nat \ {0}
           /\ DOMAIN ApprovalRoute = 1..Len(ApprovalRoute) /\ ToSet(ApprovalRoute) = {ApprovalRoute[k] : k \in 1..Len(ApprovalRoute)}
<1>1. \A T : \A s \in Seq(T) : s \in Seq(ToSet(s))
    BY DEF ToSet
<1>2. ASSUME NEW g \in 1..4
      PROVE  /\ GroupTargets(g) \in Seq(ToSet(GroupTargets(g)))
             /\ Askable(g) # {} => GroupTargets(g) # <<>>
  <2> DEFINE group == routing.groups[g]
             P == Askable(g)
  <2>1. group \in Seq(ToSet(group)) /\ P \in SUBSET DOMAIN group
    BY ToolPlanAssumption DEF Askable
  <2>2. GroupTargets(g) = Picked(group, P)
    BY DEF GroupTargets
  <2> HIDE DEF group, P
  <2>3. /\ Picked(group, P) \in Seq(ToSet(group))
        /\ \A i \in P : \E k \in DOMAIN Picked(group, P) : Picked(group, P)[k] = group[i]
    BY <2>1, PickedFacts
  <2>4. P # {} => Picked(group, P) # <<>>
    BY <2>3
  <2> QED
    BY <1>1, <2>2, <2>3, <2>4 DEF P
<1> DEFINE staffed == {g \in 1..4 : Askable(g) # {}}
           first == CHOOSE g \in staffed : \A h \in staffed : g <= h
<1>3. ApprovalRoute = IF routing.chat \/ staffed = {} THEN <<Fallback>> ELSE GroupTargets(first)
    BY DEF ApprovalRoute, Resolve
<1>4. staffed # {} => first \in staffed
  <2>1. staffed \subseteq Nat
    OBVIOUS
  <2> HIDE DEF staffed
  <2> QED
    BY <2>1, LeastNumber
<1>5. staffed # {} => first \in 1..4 /\ GroupTargets(first) # <<>>
  <2>1. \A g \in staffed : g \in 1..4 /\ GroupTargets(g) # <<>>
    BY <1>2
  <2> HIDE DEF staffed, first
  <2> QED
    BY <1>4, <2>1
<1> HIDE DEF staffed, first
<1>6. \E T : ApprovalRoute \in Seq(T) /\ ApprovalRoute # <<>>
  <2>1. CASE routing.chat \/ staffed = {}
    <3>1. <<Fallback>> \in Seq({Fallback}) /\ <<Fallback>> # <<>>
        OBVIOUS
    <3> QED
        BY <1>3, <2>1, <3>1
  <2>2. CASE ~(routing.chat \/ staffed = {})
    BY <1>2, <1>3, <1>5, <2>2
  <2> QED
    BY <2>1, <2>2
<1>7. PICK T : ApprovalRoute \in Seq(T) /\ ApprovalRoute # <<>>
    BY <1>6
<1>8. Len(ApprovalRoute) \in Nat \ {0} /\ DOMAIN ApprovalRoute = 1..Len(ApprovalRoute)
    BY <1>7
<1> QED
    BY <1>1, <1>7, <1>8 DEF ToSet

\* The route depends on the routing only.
LEMMA RouteSame == routing' = routing => ApprovalRoute' = ApprovalRoute
    BY DEF ApprovalRoute, Resolve, GroupTargets, Askable

\* The parts of a row, and of a step that ran, have their types.
LEMMA RowFacts ==
    /\ \A T : \A r \in AskRecords(T) :
          /\ r.cap \in Caps \ ReadOnly /\ r.step \in Nat \ {0} /\ r.pass \in Nat /\ r.st \in AskStatus
          /\ r.notified \in SUBSET T /\ r.live \in BOOLEAN /\ r.calls \in 0..1
    /\ \A r \in RanSteps : /\ r.tool \in StepTools /\ r.id \in Nat /\ r.st \in Outcomes \cup {"planned"}
                           /\ r.ask \in 0..MaxAsks
    /\ \A s \in PlanSteps : s.tool \in StepTools /\ s.cap \in Caps /\ s.stopOn \subseteq {"failed", "denied", "pending_approval"}
    BY DEF AskRecords, RanSteps, PlanSteps

\* What the invariant says of the sequences.
LEMMA PlanFacts ==
    ASSUME PlanInv
    PROVE  /\ plan \in Seq(PlanSteps) /\ ran \in Seq(RanSteps) /\ shown \in Seq(RanSteps)
           /\ Len(ran) \in Nat /\ Len(plan) \in Nat /\ DOMAIN ran = 1..Len(ran) /\ DOMAIN plan = 1..Len(plan)
           /\ Len(asks) \in Nat /\ DOMAIN asks = 1..Len(asks) /\ pass \in Nat
           /\ \A a \in DOMAIN asks : asks[a] \in AskRecords(ToSet(ApprovalRoute))
           /\ at \in {"step", "call", "ask", "tell"} => Step \in PlanSteps
<1>1. plan \in Seq(PlanSteps)
  <2>1. \A S : <<>> \in Seq(S)
    OBVIOUS
  <2> QED
    BY <2>1, ToolPlanAssumption DEF PlanInv, ToolPlanTypeOK
<1>2. ran \in Seq(RanSteps) /\ shown \in Seq(RanSteps)
    BY DEF PlanInv, ToolPlanTypeOK
<1>3. Len(ran) \in Nat /\ Len(plan) \in Nat /\ DOMAIN ran = 1..Len(ran) /\ DOMAIN plan = 1..Len(plan)
    BY <1>1, <1>2
<1>4. /\ Len(asks) \in Nat /\ DOMAIN asks = 1..Len(asks)
      /\ \A a \in DOMAIN asks : asks[a] \in AskRecords(ToSet(ApprovalRoute))
    BY DEF PlanInv, PlShape
<1>5. at \in {"step", "call", "ask", "tell"} => Step \in PlanSteps
  <2>1. at \in {"step", "call", "ask", "tell"} => Len(ran) + 1 \in 1..Len(plan)
    BY <1>3 DEF PlanInv, PlSteps
  <2> QED
    BY <1>1, <1>3, <2>1 DEF Step
<1>6. pass \in Nat
    BY ToolPlanAssumption DEF PlanInv, ToolPlanTypeOK
<1> QED
    BY <1>1, <1>2, <1>3, <1>4, <1>5, <1>6

\* The type invariant follows from the rows' types.
LEMMA PlTypedNext ==
    ASSUME PlShape', at' \in {"queued", "planning", "step", "call", "ask", "tell", "finalize", "apply",
                              "notify", "lost", "done", "dead"},
           pass' \in 0..MaxPasses, plan' \in Plans \cup {<<>>},
           ran' \in Seq(RanSteps), Len(ran') <= Len(plan'), told' \in Nat,
           barred' \in SUBSET Caps, offline' \in SUBSET Caps, routing' \in Routings, raced' \in BOOLEAN,
           \A a \in DOMAIN asks' : asks'[a].pass \in 1..pass', Len(asks') <= MaxAsks,
           direct' \in SUBSET [cap : Caps, barred : BOOLEAN, raced : BOOLEAN], shown' \in Seq(RanSteps),
           hint' \in BOOLEAN, quashed' \in BOOLEAN, wanted' \in BOOLEAN,
           planEdits' \in 0..MaxPlanEdits, planFaults' \in 0..MaxPlanFaults
    PROVE  ToolPlanTypeOK'
<1>1. \A a \in DOMAIN asks' : asks'[a] \in AskRecords(ToSet(ApprovalRoute)')
    BY DEF PlShape
<1>2. \A a \in DOMAIN asks' : /\ asks'[a].cap \in Caps \ ReadOnly /\ asks'[a].st \in AskStatus
                              /\ asks'[a].step \in Nat \ {0} /\ asks'[a].calls \in 0..1 /\ asks'[a].live \in BOOLEAN
    BY <1>1, RowFacts
<1> QED
    BY <1>2 DEF ToolPlanTypeOK

\* A row keeps what it was created for.
SameRow(a) == /\ asks'[a].cap = asks[a].cap /\ asks'[a].step = asks[a].step /\ asks'[a].pass = asks[a].pass
SameWork(a) == asks'[a].st = asks[a].st /\ asks'[a].live = asks[a].live /\ asks'[a].calls = asks[a].calls

\* A step is appended to the ones that ran.
LEMMA EndStepFacts ==
    ASSUME PlanInv, at \in {"step", "call", "ask", "tell"}, NEW st \in Outcomes \cup {"planned"},
           NEW ask \in 0..MaxAsks, NEW stop, EndStep(st, ask, stop)
    PROVE  /\ ran' \in Seq(RanSteps) /\ Len(ran') = Len(ran) + 1 /\ Len(ran') <= Len(plan)
           /\ DOMAIN ran' = 1..Len(ran) + 1 /\ \A i \in 1..Len(ran) : ran'[i] = ran[i]
           /\ ran'[Len(ran) + 1].st = st /\ ran'[Len(ran) + 1].ask = ask
           /\ at' \in {"step", "finalize"} /\ (at' = "step" => ~stop /\ Len(ran') < Len(plan))
<1> DEFINE e == [tool |-> Step.tool, id |-> Len(ran) + 1, st |-> st, ask |-> ask]
<1>1. /\ ran \in Seq(RanSteps) /\ Len(ran) \in Nat /\ Len(plan) \in Nat /\ Step \in PlanSteps
      /\ Len(ran) < Len(plan)
    BY PlanFacts DEF PlanInv, PlSteps
<1>2. e \in RanSteps /\ e.st = st /\ e.ask = ask
  <2>1. Step.tool \in StepTools /\ Len(ran) + 1 \in Nat
    BY <1>1, RowFacts
  <2> QED
    BY <2>1 DEF RanSteps
<1>3. ran' = Append(ran, e) /\ at' = IF stop \/ Len(ran) + 1 = Len(plan) THEN "finalize" ELSE "step"
    BY DEF EndStep
<1> HIDE DEF e
<1>4. /\ ran' \in Seq(RanSteps) /\ Len(ran') = Len(ran) + 1 /\ DOMAIN ran' = 1..Len(ran) + 1
      /\ ran'[Len(ran) + 1] = e /\ \A i \in 1..Len(ran) : ran'[i] = ran[i]
    BY <1>1, <1>2, <1>3
<1>5. at' \in {"step", "finalize"} /\ (at' = "step" => ~stop /\ Len(ran) + 1 # Len(plan))
    BY <1>3
<1> QED
    BY <1>1, <1>2, <1>4, <1>5

\* The step ends, and with it perhaps the plan: the other steps and the rows stay.
LEMMA StepEnds ==
    ASSUME PlanInv, at \in {"step", "call", "ask", "tell"}, NEW st \in Outcomes \cup {"planned"},
           NEW ask \in 0..MaxAsks, NEW stop \in BOOLEAN, EndStep(st, ask, stop),
           ~stop => st \notin Step.stopOn /\ (st = "failed" => ask = 0),
           ask # 0 => st # "completed",
           PlShape', DOMAIN asks' = DOMAIN asks,
           \A a \in DOMAIN asks : SameRow(a) /\ SameWork(a),
           st = "pending_approval" => /\ ask \in DOMAIN asks /\ asks[ask].step = Len(ran) + 1
                                      /\ asks'[ask].notified = ToSet(ApprovalRoute),
           \A i \in DOMAIN ran : ran[i].st = "pending_approval" =>
               asks'[ran[i].ask].notified = asks[ran[i].ask].notified,
           told' \in Nat, planFaults' \in 0..MaxPlanFaults,
           direct' \in SUBSET [cap : Caps, barred : BOOLEAN, raced : BOOLEAN], PlanCallsAllowed',
           UNCHANGED <<pass, plan, barred, offline, routing, raced, planEdits, shown, hint, quashed, wanted>>
    PROVE  PlanInv'
<1> DEFINE n == Len(ran)
<1>1. /\ ran' \in Seq(RanSteps) /\ Len(ran') = n + 1 /\ Len(ran') <= Len(plan)
      /\ DOMAIN ran' = 1..n + 1 /\ \A i \in 1..n : ran'[i] = ran[i]
      /\ ran'[n + 1].st = st /\ ran'[n + 1].ask = ask
      /\ at' \in {"step", "finalize"} /\ (at' = "step" => ~stop /\ Len(ran') < Len(plan))
    BY EndStepFacts
<1>2. /\ n \in Nat /\ Len(plan) \in Nat /\ DOMAIN ran = 1..n /\ DOMAIN asks = 1..Len(asks) /\ Len(asks) \in Nat
      /\ \A i \in 1..n : GoesOn(i)
    BY PlanFacts DEF PlanInv, PlSteps
<1>3. Step = plan[n + 1]
    BY DEF Step
<1>4. ApprovalRoute' = ApprovalRoute /\ Len(asks') = Len(asks)
  <2>1. asks' \in Seq(AskRecords(ToSet(ApprovalRoute)'))
    BY DEF PlShape
  <2>2. Len(asks') \in Nat /\ DOMAIN asks' = 1..Len(asks')
    BY <2>1
  <2> QED
    BY <1>2, <2>2, RouteSame
<1> HIDE DEF n
<1>5. \A i \in 1..n + 1 : i \in 1..n \/ i = n + 1
    BY <1>2
<1>6. ToolPlanTypeOK'
  <2>1. \A a \in DOMAIN asks' : asks'[a].pass \in 1..pass'
    BY DEF PlanInv, ToolPlanTypeOK, SameRow
  <2>2. Len(asks') <= MaxAsks
    BY <1>4 DEF PlanInv, ToolPlanTypeOK
  <2> QED
    BY <1>1, <2>1, <2>2, PlTypedNext DEF PlanInv, ToolPlanTypeOK
<1>7. PlIdle' /\ PlAsk'
    BY <1>1 DEF PlanInv, PlIdle, PlAsk
<1>8. PlSteps'
  <2> SUFFICES ASSUME at' = "step", NEW i \in 1..n + 1
               PROVE  ran'[i].st \notin plan[i].stopOn /\ (ran'[i].st = "failed" => ran'[i].ask = 0)
    BY <1>1 DEF PlSteps, GoesOn
  <2>1. CASE i \in 1..n
    BY <1>1, <1>2, <2>1 DEF GoesOn
  <2>2. CASE i = n + 1
    BY <1>1, <1>3, <2>2
  <2> QED
    BY <1>5, <2>1, <2>2
<1>9. PlFresh'
  <2> SUFFICES ASSUME NEW a \in DOMAIN asks, asks[a].pass = pass, at' = "step" PROVE asks[a].step <= n + 1
    BY <1>1, <1>4 DEF PlFresh, SameRow
  <2>1. asks[a].step \in Nat
    BY PlanFacts, RowFacts
  <2>2. asks[a].step <= n \/ asks[a].step = n + 1
    BY DEF PlanInv, PlFresh, PlAsk, n
  <2> QED
    BY <1>2, <2>1, <2>2
<1>10. PlLive' /\ AskedBeforeCalled'
    BY DEF PlanInv, PlLive, AskedBeforeCalled, SameWork
<1>11. PlRan'
  <2> SUFFICES ASSUME NEW i \in 1..n + 1 PROVE ran'[i].ask # 0 => ran'[i].st # "completed"
    BY <1>1 DEF PlRan
  <2>1. CASE i \in 1..n
    BY <1>1, <1>2, <2>1 DEF PlanInv, PlRan
  <2>2. CASE i = n + 1
    BY <1>1, <2>2
  <2> QED
    BY <1>5, <2>1, <2>2
<1>12. StopRespected'
  <2>1. Len(ran') - 1 = n
    BY <1>1, <1>2
  <2> SUFFICES ASSUME NEW i \in 1..n
               PROVE  ran'[i].st \notin plan[i].stopOn /\ (ran'[i].st = "failed" => ran'[i].ask = 0)
    BY <2>1 DEF StopRespected
  <2> QED
    BY <1>1, <1>2 DEF GoesOn
<1>13. WaitingStepsAsked'
  <2> SUFFICES ASSUME NEW i \in 1..n + 1, ran'[i].st = "pending_approval"
               PROVE  /\ ran'[i].ask \in DOMAIN asks /\ asks'[ran'[i].ask].step = i
                      /\ asks'[ran'[i].ask].notified = ToSet(ApprovalRoute)
    BY <1>1, <1>4 DEF WaitingStepsAsked
  <2>1. CASE i \in 1..n
    BY <1>1, <1>2, <2>1 DEF PlanInv, WaitingStepsAsked, SameRow
  <2>2. CASE i = n + 1
    BY <1>1, <2>2 DEF SameRow, n
  <2> QED
    BY <1>5, <2>1, <2>2
<1>14. AskedOncePerPass'
    BY DEF PlanInv, AskedOncePerPass, SameRow
<1>15. SuppressedStaysOut'
    BY <1>1 DEF SuppressedStaysOut
<1>16. ShownIsTrue'
    BY DEF PlanInv, ShownIsTrue, SameRow, SameWork
<1> QED
    BY <1>6, <1>7, <1>8, <1>9, <1>10, <1>11, <1>12, <1>13, <1>14, <1>15, <1>16 DEF PlanInv

\* Queries and planned commands.
LEMMA QueryStepKeeps ==
    ASSUME PlanInv, MetricsStep \/ KnowledgeStep \/ CommandStep
    PROVE  PlanInv'
<1>1. /\ at = "step"
      /\ UNCHANGED <<pass, plan, told, worldVars, asks, direct, shown, hint, quashed, wanted, planFaults>>
    BY DEF MetricsStep, KnowledgeStep, QueryStep, CommandStep
<1>2. UNCHANGED <<barred, offline, routing, raced, planEdits>>
    BY <1>1 DEF worldVars
<1>3. \E st \in {"completed", "failed", "planned"}, stop \in BOOLEAN :
          EndStep(st, 0, stop) /\ (~stop => st \notin Step.stopOn)
  <2>1. CASE MetricsStep \/ KnowledgeStep
    <3>1. PICK st \in {"completed", "failed"} : EndStep(st, 0, Stops(Step, st))
        BY <2>1 DEF MetricsStep, KnowledgeStep, QueryStep
    <3>2. Stops(Step, st) \in BOOLEAN /\ (~Stops(Step, st) => st \notin Step.stopOn)
        BY DEF Stops
    <3> Stops(Step, st) \in BOOLEAN
        BY <3>2
    <3> WITNESS st \in {"completed", "failed", "planned"}, Stops(Step, st) \in BOOLEAN
    <3> QED
        BY <3>1, <3>2
  <2>2. CASE CommandStep
    <3>1. "planned" \notin Step.stopOn
      <4>1. Step \in PlanSteps
        BY <1>1, PlanFacts
      <4>2. Step.stopOn \subseteq {"failed", "denied", "pending_approval"}
        BY <4>1, RowFacts
      <4> QED
        BY <4>2
    <3>2. EndStep("planned", 0, FALSE)
        BY <2>2 DEF CommandStep
    <3> WITNESS "planned" \in {"completed", "failed", "planned"}, FALSE \in BOOLEAN
    <3> QED
        BY <3>1, <3>2
  <2> QED
    BY <2>1, <2>2
<1>4. PICK st \in {"completed", "failed", "planned"}, stop \in BOOLEAN :
          EndStep(st, 0, stop) /\ (~stop => st \notin Step.stopOn)
    BY <1>3
<1>5. st \in Outcomes \cup {"planned"} /\ 0 \in 0..MaxAsks
    BY ToolPlanAssumption DEF Outcomes
<1>6. /\ PlShape' /\ PlanCallsAllowed' /\ direct' \in SUBSET [cap : Caps, barred : BOOLEAN, raced : BOOLEAN]
      /\ told' \in Nat /\ planFaults' \in 0..MaxPlanFaults
  <2>1. ApprovalRoute' = ApprovalRoute
    BY <1>2, RouteSame
  <2> QED
    BY <1>1, <2>1 DEF PlanInv, PlShape, PlanCallsAllowed, ToolPlanTypeOK
<1>7. \A a \in DOMAIN asks : SameRow(a) /\ SameWork(a)
    BY <1>1 DEF SameRow, SameWork
<1> QED
    BY <1>1, <1>2, <1>4, <1>5, <1>6, <1>7, StepEnds

\* A step is refused, cleared for a call, or waits for an approval.
LEMMA InvokeStepKeeps ==
    ASSUME PlanInv, NEW tool, InvokeStep(tool)
    PROVE  PlanInv' /\ PlCall'
<1> DEFINE c == Step.cap
<1>1. /\ at = "step"
      /\ UNCHANGED <<pass, plan, told, barred, offline, routing, planEdits, asks, direct, shown>>
      /\ UNCHANGED <<hint, quashed, wanted, planFaults>>
    BY DEF InvokeStep
<1>2. raced' \in BOOLEAN /\ direct' \in SUBSET [cap : Caps, barred : BOOLEAN, raced : BOOLEAN] /\ PlanCallsAllowed'
  <2>1. raced' = raced \/ raced' = FALSE
    BY DEF InvokeStep
  <2> QED
    BY <1>1, <2>1 DEF PlanInv, ToolPlanTypeOK, PlanCallsAllowed
<1>3. Step \in PlanSteps /\ c \in Caps
  <2>1. Step \in PlanSteps
    BY <1>1, PlanFacts
  <2> QED
    BY <2>1, RowFacts
<1>4. ApprovalRoute' = ApprovalRoute /\ PlShape'
  <2>1. ApprovalRoute' = ApprovalRoute
    BY <1>1, RouteSame
  <2> QED
    BY <1>1, <2>1 DEF PlanInv, PlShape
<1>5. /\ told' \in Nat /\ planFaults' \in 0..MaxPlanFaults
      /\ \A a \in DOMAIN asks : SameRow(a) /\ SameWork(a)
    BY <1>1 DEF PlanInv, ToolPlanTypeOK, SameRow, SameWork
<1>6. CASE UNCHANGED raced /\ \E st \in {"failed", "denied"} : EndStep(st, 0, Stops(Step, st))
  <2>1. PICK st \in {"failed", "denied"} : EndStep(st, 0, Stops(Step, st))
    BY <1>6
  <2> DEFINE stop == Stops(Step, st)
  <2>2. stop \in BOOLEAN /\ (~stop => st \notin Step.stopOn)
    BY DEF Stops
  <2>3. EndStep(st, 0, stop)
    BY <2>1
  <2>4. st \in Outcomes \cup {"planned"} /\ 0 \in 0..MaxAsks /\ st # "pending_approval"
    BY ToolPlanAssumption DEF Outcomes
  <2>5. PlCall'
    BY <2>1 DEF EndStep, PlCall
  <2> HIDE DEF stop
  <2>6. PlanInv'
    BY <1>1, <1>2, <1>4, <1>5, <1>6, <2>2, <2>3, <2>4, StepEnds
  <2> QED
    BY <2>5, <2>6
<1>7. CASE /\ UNCHANGED ran
           /\ \/ EvaluateCapability(c) = "direct_execute" /\ at' = "call"
              \/ EvaluateCapability(c) = "require_approval" /\ at' = "ask"
  <2>1. at' = "ask" => c \notin ReadOnly
    BY <1>7 DEF EvaluateCapability
  <2>2. Step' = Step
    BY <1>1, <1>7 DEF Step
  <2>3. ToolPlanTypeOK'
    BY <1>1, <1>2, <1>4, <1>7, PlTypedNext DEF PlanInv, ToolPlanTypeOK
  <2>4. PlIdle' /\ PlSteps' /\ PlAsk'
    BY <1>1, <1>7, <2>1, <2>2 DEF PlanInv, PlIdle, PlSteps, GoesOn, PlAsk
  <2>5. PlFresh' /\ PlLive' /\ PlRan' /\ AskedBeforeCalled' /\ AskedOncePerPass'
    BY <1>1, <1>7 DEF PlanInv, PlFresh, PlLive, PlRan, AskedBeforeCalled, AskedOncePerPass
  <2>6. StopRespected' /\ SuppressedStaysOut' /\ ShownIsTrue'
    BY <1>1, <1>7 DEF PlanInv, StopRespected, SuppressedStaysOut, ShownIsTrue
  <2>7. WaitingStepsAsked'
    BY <1>1, <1>4, <1>7 DEF PlanInv, WaitingStepsAsked
  <2>8. PlCall'
    BY <1>1, <1>7, <2>2 DEF PlCall, EvaluateCapability
  <2> QED
    BY <1>2, <1>4, <2>3, <2>4, <2>5, <2>6, <2>7, <2>8 DEF PlanInv
<1> QED
    BY <1>6, <1>7 DEF InvokeStep

\* The plan calls what the policy cleared.
LEMMA CallStepKeeps ==
    ASSUME PlanInv, PlCall, CallStep
    PROVE  PlanInv'
<1> DEFINE c == Step.cap
           call == [cap |-> c, raced |-> raced, barred |-> c \in Marketplace \cap barred]
<1>1. /\ at = "call" /\ direct' = direct \cup {call}
      /\ UNCHANGED <<pass, plan, told, worldVars, asks, shown, hint, quashed, wanted, planFaults>>
    BY DEF CallStep
<1>2. UNCHANGED <<barred, offline, routing, raced, planEdits>>
    BY <1>1 DEF worldVars
<1>3. c \in ReadOnly /\ c \in Caps /\ (c \in Marketplace \cap barred => raced) /\ raced \in BOOLEAN
  <2>1. Step \in PlanSteps
    BY <1>1, PlanFacts
  <2> QED
    BY <1>1, <2>1, RowFacts DEF PlCall, PlanInv, ToolPlanTypeOK
<1>4. call \in [cap : Caps, barred : BOOLEAN, raced : BOOLEAN] /\ call.cap \in ReadOnly /\ (call.barred => call.raced)
  <2> DEFINE d == c \in Marketplace \cap barred
  <2>1. d \in BOOLEAN /\ (d => raced) /\ call = [cap |-> c, raced |-> raced, barred |-> d]
    BY <1>3
  <2> HIDE DEF d, c
  <2> QED
    BY <1>3, <2>1
<1> HIDE DEF call
<1>5. direct' \in SUBSET [cap : Caps, barred : BOOLEAN, raced : BOOLEAN] /\ PlanCallsAllowed'
    BY <1>1, <1>4 DEF PlanInv, ToolPlanTypeOK, PlanCallsAllowed
<1>6. PICK st \in {"completed", "failed"} : EndStep(st, 0, Stops(Step, st))
    BY DEF CallStep
<1> DEFINE stop == Stops(Step, st)
<1>7. stop \in BOOLEAN /\ (~stop => st \notin Step.stopOn) /\ EndStep(st, 0, stop)
    BY <1>6 DEF Stops
<1>8. st \in Outcomes \cup {"planned"} /\ 0 \in 0..MaxAsks /\ st # "pending_approval"
    BY ToolPlanAssumption DEF Outcomes
<1>9. PlShape'
    BY <1>1, <1>2, RouteSame DEF PlanInv, PlShape
<1>10. /\ told' \in Nat /\ planFaults' \in 0..MaxPlanFaults
       /\ \A a \in DOMAIN asks : SameRow(a) /\ SameWork(a)
    BY <1>1 DEF PlanInv, ToolPlanTypeOK, SameRow, SameWork
<1> HIDE DEF stop
<1> QED
    BY <1>1, <1>2, <1>5, <1>7, <1>8, <1>9, <1>10, StepEnds

\* An approval is requested for the step, or that fails and the plan ends.
LEMMA CreateAskKeeps ==
    ASSUME PlanInv, CreateAsk
    PROVE  PlanInv'
<1> DEFINE r == [cap |-> Step.cap, step |-> Len(ran) + 1, pass |-> pass, st |-> "pending",
                 notified |-> {}, live |-> FALSE, calls |-> 0]
<1>1. at = "ask" /\ UNCHANGED <<pass, plan, worldVars, direct, shown, hint, quashed, wanted>>
    BY DEF CreateAsk
<1>2. UNCHANGED <<barred, offline, routing, raced, planEdits>>
    BY <1>1 DEF worldVars
<1>3. ApprovalRoute' = ApprovalRoute
    BY <1>2, RouteSame
<1>4. CASE /\ EndStep("failed", 0, TRUE) /\ UNCHANGED <<asks, told>>
           /\ planFaults < MaxPlanFaults \/ Len(asks) = MaxAsks
           /\ planFaults' = IF Len(asks) = MaxAsks THEN planFaults ELSE planFaults + 1
  <2>1. planFaults' \in 0..MaxPlanFaults
    BY <1>4, ToolPlanAssumption DEF PlanInv, ToolPlanTypeOK
  <2>2. /\ PlShape' /\ PlanCallsAllowed' /\ direct' \in SUBSET [cap : Caps, barred : BOOLEAN, raced : BOOLEAN] /\ told' \in Nat
    BY <1>1, <1>3, <1>4 DEF PlanInv, PlShape, PlanCallsAllowed, ToolPlanTypeOK
  <2>3. "failed" \in Outcomes \cup {"planned"} /\ 0 \in 0..MaxAsks
    BY ToolPlanAssumption DEF Outcomes
  <2>4. \A a \in DOMAIN asks : SameRow(a) /\ SameWork(a)
    BY <1>4 DEF SameRow, SameWork
  <2> QED
    BY <1>1, <1>2, <1>4, <2>1, <2>2, <2>3, <2>4, StepEnds
<1>5. CASE /\ Len(asks) < MaxAsks /\ asks' = Append(asks, r) /\ told' = 0 /\ at' = "tell"
           /\ UNCHANGED <<ran, planFaults>>
  <2> DEFINE n == Len(asks)
             R == AskRecords(ToSet(ApprovalRoute))
  <2>1. r \in R /\ r.step = Len(ran) + 1 /\ r.pass = pass /\ r.st = "pending" /\ r.notified = {}
        /\ r.live = FALSE /\ r.calls = 0
    <3>1. Step \in PlanSteps /\ Len(ran) \in Nat /\ pass \in Nat
        BY <1>1, PlanFacts
    <3>2. Step.cap \in Caps \ ReadOnly
        BY <1>1, <3>1, RowFacts DEF PlanInv, PlAsk
    <3>3. Len(ran) + 1 \in Nat \ {0}
        BY <3>1
    <3> QED
        BY <3>1, <3>2, <3>3 DEF AskRecords, AskStatus
  <2>2. asks \in Seq(R)
    BY DEF PlanInv, PlShape
  <2>3. asks' = Append(asks, r)
    BY <1>5
  <2> HIDE DEF r, R
  <2>4. /\ asks' \in Seq(R) /\ n \in Nat /\ DOMAIN asks = 1..n /\ DOMAIN asks' = 1..n + 1
        /\ Len(asks') = n + 1 /\ asks'[n + 1] = r /\ \A a \in 1..n : asks'[a] = asks[a]
    BY <2>1, <2>2, <2>3
  <2>5. n < MaxAsks /\ Len(ran) \in Nat /\ pass \in Nat /\ pass # 0
    BY <1>1, <1>5, PlanFacts DEF PlanInv, PlIdle
  <2> HIDE DEF n
  <2>6. \A a \in 1..n + 1 : a \in 1..n \/ a = n + 1
    BY <2>4
  <2>7. n + 1 \notin 1..n /\ 1..n \subseteq 1..n + 1
    BY <2>4
  <2>8. PlShape'
    BY <1>3, <2>4 DEF PlShape, R
  <2>9. ToolPlanTypeOK'
    <3>1. \A a \in DOMAIN asks' : asks'[a].pass \in 1..pass
      <4>1. r.pass \in 1..pass
        BY <2>1, <2>5
      <4> QED
        BY <2>4, <2>6, <4>1 DEF PlanInv, ToolPlanTypeOK
    <3>2. Len(asks') <= MaxAsks
        BY <2>4, <2>5, ToolPlanAssumption
    <3>3. 0 \in Nat
        OBVIOUS
    <3> QED
        BY <1>1, <1>2, <1>5, <2>8, <3>1, <3>2, <3>3, PlTypedNext DEF PlanInv, ToolPlanTypeOK
  <2>10. PlIdle' /\ PlSteps'
    BY <1>1, <1>5 DEF PlanInv, PlIdle, PlSteps, GoesOn
  <2>11. PlAsk'
    <3>1. Step' = Step
        BY <1>1, <1>5 DEF Step
    <3>2. 0 < Len(ApprovalRoute)
      <4>1. Len(ApprovalRoute) \in Nat \ {0}
        BY RouteFacts DEF PlanInv, ToolPlanTypeOK
      <4> QED
        BY <4>1
    <3>3. {ApprovalRoute[k] : k \in 1..0} = {}
        OBVIOUS
    <3>4. asks' # <<>>
      <4>1. Len(<<>>) = 0
        OBVIOUS
      <4> QED
        BY <2>4, <4>1
    <3> QED
        BY <1>1, <1>3, <1>5, <2>1, <2>4, <3>1, <3>2, <3>3, <3>4 DEF PlanInv, PlAsk
  <2>12. PlFresh'
    <3> SUFFICES ASSUME NEW a \in 1..n, asks[a].pass = pass PROVE asks[a].step <= Len(ran)
        BY <1>1, <1>5, <2>4, <2>6 DEF PlFresh
    <3> QED
        BY <1>1, <2>4 DEF PlanInv, PlFresh
  <2>13. PlLive' /\ AskedBeforeCalled'
    BY <2>1, <2>4, <2>6 DEF PlanInv, PlLive, AskedBeforeCalled
  <2>14. PlRan' /\ StopRespected' /\ PlanCallsAllowed'
    BY <1>1, <1>5 DEF PlanInv, PlRan, StopRespected, PlanCallsAllowed
  <2>15. WaitingStepsAsked'
    <3> SUFFICES ASSUME NEW i \in DOMAIN ran, ran[i].st = "pending_approval"
                 PROVE  /\ ran[i].ask \in DOMAIN asks' /\ asks'[ran[i].ask].step = i
                        /\ asks'[ran[i].ask].notified = ToSet(ApprovalRoute)
        BY <1>3, <1>5 DEF WaitingStepsAsked
    <3>1. /\ ran[i].ask \in 1..n /\ asks[ran[i].ask].step = i
          /\ asks[ran[i].ask].notified = ToSet(ApprovalRoute)
        BY <2>4 DEF PlanInv, WaitingStepsAsked
    <3> QED
        BY <2>4, <2>7, <3>1
  <2>16. AskedOncePerPass'
    <3>1. \A a \in 1..n : asks[a].pass = pass => asks[a].step # Len(ran) + 1
      <4>1. \A a \in 1..n : asks[a].pass = pass => asks[a].step <= Len(ran)
        BY <1>1, <2>4 DEF PlanInv, PlFresh
      <4>2. \A a \in 1..n : asks[a].step \in Nat
        BY <2>4, PlanFacts, RowFacts
      <4> QED
        BY <2>5, <4>1, <4>2
    <3>2. \A a, b \in 1..n : asks[a].pass = asks[b].pass /\ asks[a].step = asks[b].step => a = b
        BY <2>4 DEF PlanInv, AskedOncePerPass
    <3> SUFFICES ASSUME NEW a \in 1..n + 1, NEW b \in 1..n + 1, asks'[a].pass = asks'[b].pass,
                        asks'[a].step = asks'[b].step
                 PROVE  a = b
        BY <2>4 DEF AskedOncePerPass
    <3>3. CASE a \in 1..n /\ b \in 1..n
        BY <2>4, <3>2, <3>3
    <3>4. CASE a = n + 1 /\ b \in 1..n
        BY <2>1, <2>4, <3>1, <3>4
    <3>5. CASE b = n + 1 /\ a \in 1..n
        BY <2>1, <2>4, <3>1, <3>5
    <3> QED
        BY <2>6, <3>3, <3>4, <3>5
  <2>17. SuppressedStaysOut'
    BY <1>5 DEF SuppressedStaysOut
  <2>18. ShownIsTrue'
    BY <1>1, <2>4, <2>7 DEF PlanInv, ShownIsTrue
  <2> QED
    BY <2>8, <2>9, <2>10, <2>11, <2>12, <2>13, <2>14, <2>15, <2>16, <2>17, <2>18 DEF PlanInv
<1> QED
    BY <1>4, <1>5 DEF CreateAsk

\* One more target is told, or the step fails.
LEMMA TellNextKeeps ==
    ASSUME PlanInv, TellNext
    PROVE  PlanInv'
<1> DEFINE n == Len(asks)
           R == AskRecords(ToSet(ApprovalRoute))
           q == asks[n].notified \cup {ApprovalRoute[told + 1]}
<1>1. at = "tell" /\ UNCHANGED <<pass, plan, worldVars, direct, shown, hint, quashed, wanted>>
    BY DEF TellNext
<1>2. UNCHANGED <<barred, offline, routing, raced, planEdits>>
    BY <1>1 DEF worldVars
<1>3. ApprovalRoute' = ApprovalRoute
    BY <1>2, RouteSame
<1>4. /\ asks \in Seq(R) /\ n \in Nat /\ DOMAIN asks = 1..n /\ n \in DOMAIN asks /\ n \in 0..MaxAsks /\ n # 0
      /\ told \in Nat
  <2>1. asks \in Seq(R) /\ asks # <<>> /\ told \in Nat /\ n <= MaxAsks
    BY <1>1 DEF PlanInv, PlShape, PlAsk, ToolPlanTypeOK
  <2> HIDE DEF R
  <2>2. n \in Nat /\ DOMAIN asks = 1..n /\ n # 0
    BY <2>1
  <2> QED
    BY <2>1, <2>2, ToolPlanAssumption
<1>5. /\ asks[n].step = Len(ran) + 1 /\ asks[n].pass = pass /\ told < Len(ApprovalRoute)
      /\ asks[n].notified = {ApprovalRoute[k] : k \in 1..told} /\ Step.cap \notin ReadOnly
    BY <1>1 DEF PlanInv, PlAsk
<1>6. Len(ApprovalRoute) \in Nat /\ ToSet(ApprovalRoute) = {ApprovalRoute[k] : k \in 1..Len(ApprovalRoute)}
    BY RouteFacts DEF PlanInv, ToolPlanTypeOK
<1>7. CASE /\ planFaults < MaxPlanFaults /\ planFaults' = planFaults + 1
           /\ EndStep("failed", n, TRUE) /\ UNCHANGED <<asks, told>>
  <2>1. planFaults' \in 0..MaxPlanFaults
    BY <1>7, ToolPlanAssumption DEF PlanInv, ToolPlanTypeOK
  <2>2. /\ PlShape' /\ PlanCallsAllowed' /\ direct' \in SUBSET [cap : Caps, barred : BOOLEAN, raced : BOOLEAN] /\ told' \in Nat
    BY <1>1, <1>3, <1>7 DEF PlanInv, PlShape, PlanCallsAllowed, ToolPlanTypeOK
  <2>3. "failed" \in Outcomes \cup {"planned"}
    BY DEF Outcomes
  <2>4. \A a \in DOMAIN asks : SameRow(a) /\ SameWork(a)
    BY <1>7 DEF SameRow, SameWork
  <2> HIDE DEF n
  <2> QED
    BY <1>1, <1>2, <1>4, <1>7, <2>1, <2>2, <2>3, <2>4, StepEnds
<1>8. CASE /\ asks' = [asks EXCEPT ![n].notified = @ \cup {ApprovalRoute[told + 1]}] /\ told' = told + 1
           /\ IF told' = Len(ApprovalRoute) THEN Told(n) ELSE UNCHANGED <<at, ran>>
           /\ UNCHANGED planFaults
  <2> DEFINE x == [asks[n] EXCEPT !.notified = q]
  <2>1. q = {ApprovalRoute[k] : k \in 1..told + 1} /\ q \in SUBSET ToSet(ApprovalRoute)
    BY <1>4, <1>5, <1>6
  <2>2. /\ x \in R /\ x.notified = q /\ x.cap = asks[n].cap /\ x.step = asks[n].step /\ x.pass = asks[n].pass
        /\ x.st = asks[n].st /\ x.live = asks[n].live /\ x.calls = asks[n].calls
    <3> DEFINE old == asks[n]
               T == ToSet(ApprovalRoute)
    <3>1. old \in AskRecords(T) /\ x = [old EXCEPT !.notified = q] /\ q \in SUBSET T
        BY <1>4, <2>1
    <3> HIDE DEF old, T, q, x
    <3>2. /\ x \in AskRecords(T) /\ x.notified = q /\ x.cap = old.cap /\ x.step = old.step /\ x.pass = old.pass
          /\ x.st = old.st /\ x.live = old.live /\ x.calls = old.calls
        BY <3>1 DEF AskRecords
    <3> QED
        BY <3>2 DEF old, T
  <2>3. asks' = [asks EXCEPT ![n] = x]
    BY <1>8
  <2> HIDE DEF x, q, R
  <2>4. /\ asks' \in Seq(R) /\ DOMAIN asks' = DOMAIN asks /\ asks'[n] = x
        /\ \A a \in DOMAIN asks : a # n => asks'[a] = asks[a]
    BY <1>4, <2>2, <2>3
  <2>5. Len(asks') = n
    <3>1. Len(asks') \in Nat /\ DOMAIN asks' = 1..Len(asks')
        BY <2>4
    <3> HIDE DEF n
    <3> QED
        BY <1>4, <2>4, <3>1
  <2>6. PlShape'
    BY <1>3, <2>4 DEF PlShape, R
  <2> HIDE DEF n
  <2>7. \A a \in DOMAIN asks : SameRow(a) /\ SameWork(a)
    BY <2>2, <2>4 DEF SameRow, SameWork
  <2>8. \A i \in DOMAIN ran : ran[i].st = "pending_approval" =>
            ran[i].ask \in DOMAIN asks /\ ran[i].ask # n /\ asks[ran[i].ask].step = i
            /\ asks[ran[i].ask].notified = ToSet(ApprovalRoute)
    <3>1. \A i \in DOMAIN ran : i # Len(ran) + 1
        BY PlanFacts
    <3> QED
        BY <1>5, <3>1 DEF PlanInv, WaitingStepsAsked
  <2>9. told' \in Nat /\ direct' \in SUBSET [cap : Caps, barred : BOOLEAN, raced : BOOLEAN] /\ PlanCallsAllowed'
    BY <1>1, <1>4, <1>8 DEF PlanInv, PlanCallsAllowed, ToolPlanTypeOK
  <2>10. CASE told' = Len(ApprovalRoute)
    <3> DEFINE stop == Stops(Step, "pending_approval")
    <3>1. EndStep("pending_approval", n, stop)
        BY <1>8, <2>10 DEF Told
    <3>2. stop \in BOOLEAN /\ (~stop => "pending_approval" \notin Step.stopOn)
        BY DEF Stops
    <3>3. q = ToSet(ApprovalRoute)
        BY <1>6, <1>8, <2>1, <2>10
    <3>4. "pending_approval" \in Outcomes \cup {"planned"} /\ planFaults' \in 0..MaxPlanFaults
        BY <1>8 DEF Outcomes, PlanInv, ToolPlanTypeOK
    <3>5. \A i \in DOMAIN ran : ran[i].st = "pending_approval" =>
               asks'[ran[i].ask].notified = asks[ran[i].ask].notified
        BY <2>4, <2>8
    <3>6. n \in DOMAIN asks /\ asks[n].step = Len(ran) + 1 /\ asks'[n].notified = ToSet(ApprovalRoute)
        BY <1>4, <1>5, <2>2, <2>4, <3>3
    <3> HIDE DEF stop
    <3> QED
        BY <1>1, <1>2, <1>4, <2>4, <2>6, <2>7, <2>9, <3>1, <3>2, <3>4, <3>5, <3>6, StepEnds
  <2>11. CASE told' # Len(ApprovalRoute)
    <3>1. UNCHANGED <<at, ran>> /\ told' < Len(ApprovalRoute)
      <4>1. UNCHANGED <<at, ran>>
        BY <1>8, <2>11
      <4>2. told + 1 < Len(ApprovalRoute)
        BY <1>4, <1>5, <1>6, <1>8, <2>11
      <4> QED
        BY <1>8, <4>1, <4>2
    <3>2. ToolPlanTypeOK'
      <4>1. \A a \in DOMAIN asks' : asks'[a].pass \in 1..pass
        BY <2>4, <2>7 DEF PlanInv, ToolPlanTypeOK, SameRow
      <4>2. Len(asks') <= MaxAsks
        BY <2>5 DEF PlanInv, ToolPlanTypeOK, n
      <4> QED
        BY <1>1, <1>2, <1>8, <2>6, <2>9, <3>1, <4>1, <4>2, PlTypedNext DEF PlanInv, ToolPlanTypeOK
    <3>3. PlIdle' /\ PlSteps'
        BY <1>1, <3>1 DEF PlanInv, PlIdle, PlSteps, GoesOn
    <3>4. PlAsk'
      <4>1. Step' = Step
        BY <1>1, <3>1 DEF Step
      <4>2. asks' # <<>>
        <5>1. DOMAIN <<>> = {}
            OBVIOUS
        <5> QED
            BY <1>4, <2>4, <5>1
      <4>3. /\ asks'[n].step = Len(ran) + 1 /\ asks'[n].pass = pass
            /\ asks'[n].notified = {ApprovalRoute[k] : k \in 1..told'}
        BY <1>5, <1>8, <2>1, <2>2, <2>4
      <4> QED
        BY <1>1, <1>3, <1>5, <2>5, <3>1, <4>1, <4>2, <4>3 DEF PlAsk
    <3>5. PlFresh'
        BY <1>1, <2>4, <2>5, <2>7, <3>1 DEF PlanInv, PlFresh, SameRow, n
    <3>6. PlLive' /\ AskedBeforeCalled' /\ AskedOncePerPass'
        BY <2>4, <2>7 DEF PlanInv, PlLive, AskedBeforeCalled, AskedOncePerPass, SameRow, SameWork
    <3>7. PlRan' /\ StopRespected' /\ SuppressedStaysOut'
        BY <1>1, <3>1 DEF PlanInv, PlRan, StopRespected, SuppressedStaysOut
    <3>8. WaitingStepsAsked'
        BY <1>3, <2>4, <2>8, <3>1 DEF WaitingStepsAsked
    <3>9. ShownIsTrue'
        BY <1>1, <2>4, <2>7 DEF PlanInv, ShownIsTrue, SameRow, SameWork
    <3> QED
        BY <2>6, <2>9, <3>2, <3>3, <3>4, <3>5, <3>6, <3>7, <3>8, <3>9 DEF PlanInv
  <2> QED
    BY <2>10, <2>11
<1> QED
    BY <1>7, <1>8 DEF TellNext

\* Rows are answered, called for or reported, the plan goes on as it was.
LEMMA RowsMove ==
    ASSUME PlanInv, PlShape', DOMAIN asks' = DOMAIN asks,
           \A a \in DOMAIN asks : SameRow(a) /\ asks'[a].notified = asks[a].notified,
           PlLive', AskedBeforeCalled', ShownIsTrue', shown' \in Seq(RanSteps),
           UNCHANGED <<at, pass, plan, ran, told, barred, offline, routing, raced, planEdits, direct, hint,
                       quashed, wanted, planFaults>>
    PROVE  PlanInv'
<1>1. ApprovalRoute' = ApprovalRoute /\ Step' = Step
  <2>1. Step' = Step
    BY DEF Step
  <2> QED
    BY <2>1, RouteSame
<1>2. Len(asks') = Len(asks) /\ DOMAIN asks = 1..Len(asks)
  <2>1. asks' \in Seq(AskRecords(ToSet(ApprovalRoute)'))
    BY DEF PlShape
  <2>2. Len(asks') \in Nat /\ DOMAIN asks' = 1..Len(asks')
    BY <2>1
  <2>3. Len(asks) \in Nat /\ DOMAIN asks = 1..Len(asks)
    BY PlanFacts
  <2>4. \A m, k \in Nat : 1..m = 1..k => m = k
    OBVIOUS
  <2>5. 1..Len(asks') = 1..Len(asks)
    BY <2>2, <2>3
  <2> QED
    BY <2>2, <2>3, <2>4, <2>5
<1>3. ToolPlanTypeOK'
  <2>1. \A a \in DOMAIN asks' : asks'[a].pass \in 1..pass'
    BY DEF PlanInv, ToolPlanTypeOK, SameRow
  <2>2. Len(asks') <= MaxAsks
    BY <1>2 DEF PlanInv, ToolPlanTypeOK
  <2> QED
    BY <2>1, <2>2, PlTypedNext DEF PlanInv, ToolPlanTypeOK
<1>4. PlIdle' /\ PlSteps' /\ PlRan' /\ PlanCallsAllowed' /\ StopRespected' /\ SuppressedStaysOut'
    BY DEF PlanInv, PlIdle, PlSteps, GoesOn, PlRan, PlanCallsAllowed, StopRespected, SuppressedStaysOut
<1>5. PlAsk'
  <2> SUFFICES ASSUME at = "tell"
               PROVE  /\ asks' # <<>> /\ asks'[Len(asks)].step = Len(ran) + 1 /\ asks'[Len(asks)].pass = pass
                      /\ told < Len(ApprovalRoute) /\ asks'[Len(asks)].notified = {ApprovalRoute[k] : k \in 1..told}
    BY <1>1, <1>2 DEF PlanInv, PlAsk
  <2>1. /\ asks # <<>> /\ asks[Len(asks)].step = Len(ran) + 1 /\ asks[Len(asks)].pass = pass
        /\ told < Len(ApprovalRoute) /\ asks[Len(asks)].notified = {ApprovalRoute[k] : k \in 1..told}
    BY DEF PlanInv, PlAsk
  <2>2. Len(asks) \in DOMAIN asks
    <3> DEFINE R == AskRecords(ToSet(ApprovalRoute))
    <3>1. asks \in Seq(R)
        BY DEF PlanInv, PlShape
    <3> HIDE DEF R
    <3> QED
        BY <2>1, <3>1
  <2>3. asks' # <<>>
    <3>1. DOMAIN <<>> = {}
        OBVIOUS
    <3> QED
        BY <2>2, <3>1
  <2> QED
    BY <2>1, <2>2, <2>3 DEF SameRow
<1>6. PlFresh' /\ AskedOncePerPass'
    BY <1>2 DEF PlanInv, PlFresh, AskedOncePerPass, SameRow
<1>7. WaitingStepsAsked'
    BY <1>1 DEF PlanInv, WaitingStepsAsked, SameRow
<1> QED
    BY <1>3, <1>4, <1>5, <1>6, <1>7 DEF PlanInv

\* One row is replaced by one made for the same step.
LEMMA RowReplaced ==
    ASSUME PlanInv, NEW a \in DOMAIN asks, NEW x \in AskRecords(ToSet(ApprovalRoute)), routing' = routing,
           asks' = [asks EXCEPT ![a] = x], x.cap = asks[a].cap, x.step = asks[a].step, x.pass = asks[a].pass,
           x.notified = asks[a].notified, x.live => x.st = "executing",
           x.st \in {"pending", "rejected"} => x.calls = 0
    PROVE  /\ PlShape' /\ DOMAIN asks' = DOMAIN asks /\ PlLive' /\ AskedBeforeCalled'
           /\ asks'[a] = x /\ \A b \in DOMAIN asks : b # a => asks'[b] = asks[b]
           /\ \A b \in DOMAIN asks : SameRow(b) /\ asks'[b].notified = asks[b].notified
<1> DEFINE R == AskRecords(ToSet(ApprovalRoute))
<1>1. asks \in Seq(R) /\ x \in R /\ ApprovalRoute' = ApprovalRoute
    BY RouteSame DEF PlanInv, PlShape
<1> HIDE DEF R
<1>2. /\ asks' \in Seq(R) /\ DOMAIN asks' = DOMAIN asks /\ asks'[a] = x
      /\ \A b \in DOMAIN asks : b # a => asks'[b] = asks[b]
    BY <1>1
<1>3. PlShape'
    BY <1>1, <1>2 DEF PlShape, R
<1>4. PlLive' /\ AskedBeforeCalled'
    BY <1>2 DEF PlanInv, PlLive, AskedBeforeCalled
<1>5. \A b \in DOMAIN asks : SameRow(b) /\ asks'[b].notified = asks[b].notified
    BY <1>2 DEF SameRow
<1> QED
    BY <1>2, <1>3, <1>4, <1>5

\* An approver, or the sweep, answers a pending row: nothing was called for it.
LEMMA AnswerAskKeeps ==
    ASSUME PlanInv, NEW a \in DOMAIN asks, AnswerAsk(a)
    PROVE  PlanInv'
<1>1. UNCHANGED <<at, pass, plan, ran, told, worldVars, direct, shown, hint, quashed, wanted, planFaults>>
    BY DEF AnswerAsk
<1>2. UNCHANGED <<barred, offline, routing, raced, planEdits>>
    BY <1>1 DEF worldVars
<1>3. PICK st \in {"executing", "rejected"} : Answer(a, st)
    BY DEF AnswerAsk
<1> DEFINE old == asks[a]
           live == (st = "executing")
           x == [old EXCEPT !.st = st, !.live = live]
           T == ToSet(ApprovalRoute)
<1>4. old \in AskRecords(T) /\ old.st = "pending" /\ old.calls = 0 /\ live \in BOOLEAN
    BY <1>3, PlanFacts DEF Answer, PlanInv, AskedBeforeCalled
<1>5. asks' = [asks EXCEPT ![a] = x]
    BY <1>3 DEF Answer
<1>6. live => st = "executing"
    OBVIOUS
<1> HIDE DEF old, live, T
<1>7. /\ x \in AskRecords(T) /\ x.cap = old.cap /\ x.step = old.step /\ x.pass = old.pass
      /\ x.notified = old.notified /\ x.calls = old.calls /\ x.st = st /\ x.live = live
    BY <1>4 DEF AskRecords, AskStatus
<1> HIDE DEF x
<1>8. /\ PlShape' /\ DOMAIN asks' = DOMAIN asks /\ PlLive' /\ AskedBeforeCalled'
      /\ asks'[a] = x /\ (\A b \in DOMAIN asks : b # a => asks'[b] = asks[b])
      /\ \A b \in DOMAIN asks : SameRow(b) /\ asks'[b].notified = asks[b].notified
    BY <1>2, <1>4, <1>5, <1>6, <1>7, RowReplaced DEF T, old
<1>9. ShownIsTrue' /\ shown' \in Seq(RanSteps)
  <2>1. \A b \in DOMAIN asks : asks'[b].step = asks[b].step /\ asks'[b].calls = asks[b].calls
    BY <1>4, <1>7, <1>8 DEF SameRow, old
  <2> QED
    BY <1>1, <1>8, <2>1 DEF PlanInv, ShownIsTrue, ToolPlanTypeOK
<1> QED
    BY <1>1, <1>2, <1>8, <1>9, RowsMove

\* The approved capability is called, once.
LEMMA InvokeApprovedKeeps ==
    ASSUME PlanInv, NEW a \in DOMAIN asks, InvokeApproved(a)
    PROVE  PlanInv'
<1>1. UNCHANGED <<at, pass, plan, ran, told, worldVars, direct, shown, hint, quashed, wanted, planFaults>>
    BY DEF InvokeApproved
<1>2. UNCHANGED <<barred, offline, routing, raced, planEdits>>
    BY <1>1 DEF worldVars
<1> DEFINE old == asks[a]
           x == [old EXCEPT !.calls = 1]
           T == ToSet(ApprovalRoute)
<1>3. old \in AskRecords(T) /\ old.live /\ old.calls = 0 /\ old.st = "executing"
    BY PlanFacts DEF InvokeApproved, PlanInv, PlLive
<1>4. asks' = [asks EXCEPT ![a] = x]
    BY <1>3 DEF InvokeApproved
<1> HIDE DEF old, T
<1>5. /\ x \in AskRecords(T) /\ x.cap = old.cap /\ x.step = old.step /\ x.pass = old.pass
      /\ x.notified = old.notified /\ x.calls = 1 /\ x.st = old.st
  <2>1. old \in AskRecords(T)
    BY <1>3
  <2> QED
    BY <2>1 DEF AskRecords
<1> HIDE DEF x
<1>6. /\ PlShape' /\ DOMAIN asks' = DOMAIN asks /\ PlLive' /\ AskedBeforeCalled'
      /\ asks'[a] = x /\ (\A b \in DOMAIN asks : b # a => asks'[b] = asks[b])
      /\ \A b \in DOMAIN asks : SameRow(b) /\ asks'[b].notified = asks[b].notified
    BY <1>2, <1>3, <1>4, <1>5, RowReplaced DEF T, old
<1>7. ShownIsTrue' /\ shown' \in Seq(RanSteps)
  <2>1. \A b \in DOMAIN asks : asks'[b].step = asks[b].step /\ (asks[b].calls = 1 => asks'[b].calls = 1)
    BY <1>5, <1>6 DEF SameRow
  <2>2. shown' = shown /\ DOMAIN asks' = DOMAIN asks /\ shown \in Seq(RanSteps)
    BY <1>1, <1>6, PlanFacts
  <2>3. ShownIsTrue
    BY DEF PlanInv
  <2>4. ShownIsTrue'
    BY <2>1, <2>2, <2>3 DEF ShownIsTrue
  <2> QED
    BY <2>2, <2>4
<1> QED
    BY <1>1, <1>2, <1>6, <1>7, RowsMove

\* The result is stored in the row, and in the stored plan where a step has its number.
LEMMA CapabilityResultKeeps ==
    ASSUME PlanInv, NEW a \in DOMAIN asks, CapabilityResult(a)
    PROVE  PlanInv'
<1>1. UNCHANGED <<at, pass, plan, ran, told, worldVars, direct, hint, quashed, wanted, planFaults>>
    BY DEF CapabilityResult
<1>2. UNCHANGED <<barred, offline, routing, raced, planEdits>>
    BY <1>1 DEF worldVars
<1>3. PICK st \in {"completed", "failed"} :
          /\ asks' = [asks EXCEPT ![a].st = st, ![a].live = FALSE] /\ shown' \in {shown, Mark(a, st)}
          /\ st = "completed" => asks[a].calls = 1
    BY DEF CapabilityResult
<1> DEFINE old == asks[a]
           x == [old EXCEPT !.st = st, !.live = FALSE]
           T == ToSet(ApprovalRoute)
<1>4. old \in AskRecords(T)
    BY PlanFacts
<1>5. asks' = [asks EXCEPT ![a] = x]
    BY <1>3
<1> HIDE DEF old, T
<1>6. /\ x \in AskRecords(T) /\ x.cap = old.cap /\ x.step = old.step /\ x.pass = old.pass
      /\ x.notified = old.notified /\ x.calls = old.calls /\ x.st = st /\ x.live = FALSE
    BY <1>4 DEF AskRecords, AskStatus
<1> HIDE DEF x
<1>7. /\ PlShape' /\ DOMAIN asks' = DOMAIN asks /\ PlLive' /\ AskedBeforeCalled'
      /\ asks'[a] = x /\ (\A b \in DOMAIN asks : b # a => asks'[b] = asks[b])
      /\ \A b \in DOMAIN asks : SameRow(b) /\ asks'[b].notified = asks[b].notified
    BY <1>2, <1>5, <1>6, RowReplaced DEF T, old
<1>8. \A b \in DOMAIN asks : asks'[b].step = asks[b].step /\ asks'[b].calls = asks[b].calls
    BY <1>6, <1>7 DEF SameRow, old
<1>9. shown \in Seq(RanSteps)
    BY PlanFacts
<1>10. ShownIsTrue' /\ shown' \in Seq(RanSteps)
  <2>1. CASE shown' = shown
    BY <1>7, <1>8, <1>9, <2>1 DEF PlanInv, ShownIsTrue
  <2>2. CASE shown' = Mark(a, st)
    <3>1. shown' = [i \in DOMAIN shown |-> IF shown[i].id = asks[a].step
                                           THEN [shown[i] EXCEPT !.st = st] ELSE shown[i]]
        BY <2>2 DEF Mark
    <3>2. \A r \in RanSteps : /\ [r EXCEPT !.st = st] \in RanSteps /\ [r EXCEPT !.st = st].st = st
                              /\ [r EXCEPT !.st = st].id = r.id /\ [r EXCEPT !.st = st].ask = r.ask
        BY DEF RanSteps, Outcomes
    <3>3. \A i \in DOMAIN shown : shown[i] \in RanSteps
        BY <1>9
    <3>4. DOMAIN shown' = DOMAIN shown /\ \A i \in DOMAIN shown : shown'[i] \in RanSteps
        BY <3>1, <3>2, <3>3
    <3>5. shown' \in Seq(RanSteps)
      <4>1. DOMAIN shown = 1..Len(shown) /\ Len(shown) \in Nat
        BY <1>9
      <4>2. shown' = [i \in 1..Len(shown) |-> shown'[i]]
        BY <3>1, <4>1
      <4> QED
        BY <3>4, <4>1, <4>2
    <3>6. \A i \in DOMAIN shown :
              /\ shown'[i].id = shown[i].id /\ shown'[i].ask = shown[i].ask
              /\ shown'[i].st = "completed" =>
                    shown[i].st = "completed" \/ (st = "completed" /\ shown[i].id = asks[a].step)
        BY <3>1, <3>2, <3>3
    <3>7. ShownIsTrue'
      <4> SUFFICES ASSUME NEW i \in DOMAIN shown, shown'[i].ask # 0, shown'[i].st = "completed"
                   PROVE  \E b \in DOMAIN asks : asks'[b].step = shown'[i].id /\ asks'[b].calls = 1
        BY <1>7, <3>4 DEF ShownIsTrue
      <4>1. CASE shown[i].st = "completed"
        BY <1>8, <3>6, <4>1 DEF PlanInv, ShownIsTrue
      <4>2. CASE st = "completed" /\ shown[i].id = asks[a].step
        BY <1>3, <1>8, <3>6, <4>2
      <4> QED
        BY <3>6, <4>1, <4>2
    <3> QED
        BY <3>5, <3>7
  <2> QED
    BY <1>3, <2>1, <2>2
<1> QED
    BY <1>1, <1>2, <1>7, <1>10, RowsMove

\* The pass is over, or lost: what it knew is forgotten, the rows stay.
LEMMA ForgetKeeps ==
    ASSUME PlanInv, Forget, at' \in {"queued", "lost", "done", "dead"}, at' # "queued" => pass # 0,
           PlShape', DOMAIN asks' = DOMAIN asks, PlLive', AskedBeforeCalled', ShownIsTrue',
           Len(asks') = Len(asks), \A a \in DOMAIN asks : SameRow(a),
           planFaults' \in 0..MaxPlanFaults,
           UNCHANGED <<pass, barred, offline, routing, raced, planEdits, direct, shown>>
    PROVE  PlanInv'
<1>1. /\ plan' = <<>> /\ ran' = <<>> /\ told' = 0 /\ hint' = FALSE /\ quashed' = FALSE /\ wanted' = FALSE
    BY DEF Forget
<1>2. Len(ran') = 0 /\ Len(plan') = 0 /\ DOMAIN ran' = {} /\ ran' \in Seq(RanSteps)
  <2>1. \A S : <<>> \in Seq(S)
    OBVIOUS
  <2> QED
    BY <1>1, <2>1
<1>3. ToolPlanTypeOK'
  <2>1. \A a \in DOMAIN asks' : asks'[a].pass \in 1..pass'
    BY DEF PlanInv, ToolPlanTypeOK, SameRow
  <2>2. 0 \in Nat /\ Len(ran') <= Len(plan')
    BY <1>2
  <2> QED
    BY <1>1, <1>2, <2>1, <2>2, PlTypedNext DEF PlanInv, ToolPlanTypeOK
<1>4. PlIdle' /\ PlSteps' /\ PlAsk' /\ PlRan'
    BY <1>1, <1>2 DEF PlIdle, PlSteps, PlAsk, PlRan
<1>5. PlFresh' /\ AskedOncePerPass' /\ PlanCallsAllowed'
    BY DEF PlanInv, PlFresh, AskedOncePerPass, PlanCallsAllowed, SameRow
<1>6. StopRespected' /\ WaitingStepsAsked' /\ SuppressedStaysOut'
  <2>1. 1..Len(ran') - 1 = {}
    BY <1>2
  <2> QED
    BY <1>1, <1>2, <2>1 DEF StopRespected, WaitingStepsAsked, SuppressedStaysOut
<1> QED
    BY <1>3, <1>4, <1>5, <1>6 DEF PlanInv

\* The process dies: no handler is at work any more.
LEMMA PlanCrashKeeps ==
    ASSUME PlanInv, PlanCrash
    PROVE  PlanInv'
<1>1. /\ Forget /\ at' \in {"queued", "lost", "done", "dead"} /\ pass # 0
      /\ asks' = [a \in DOMAIN asks |-> [asks[a] EXCEPT !.live = FALSE]]
      /\ UNCHANGED <<pass, worldVars, direct, shown, planFaults>>
  <2>1. pass # 0
    BY DEF PlanCrash
  <2> QED
    BY <2>1 DEF PlanCrash
<1>2. UNCHANGED <<barred, offline, routing, raced, planEdits>>
    BY <1>1 DEF worldVars
<1> DEFINE R == AskRecords(ToSet(ApprovalRoute))
<1>3. \A r \in R : /\ [r EXCEPT !.live = FALSE] \in R /\ [r EXCEPT !.live = FALSE].live = FALSE
                   /\ [r EXCEPT !.live = FALSE].cap = r.cap /\ [r EXCEPT !.live = FALSE].step = r.step
                   /\ [r EXCEPT !.live = FALSE].pass = r.pass /\ [r EXCEPT !.live = FALSE].st = r.st
                   /\ [r EXCEPT !.live = FALSE].calls = r.calls
  <2> DEFINE T == ToSet(ApprovalRoute)
  <2> HIDE DEF T
  <2> QED
    BY DEF AskRecords, T
<1>4. /\ Len(asks) \in Nat /\ DOMAIN asks = 1..Len(asks) /\ \A a \in DOMAIN asks : asks[a] \in R
    BY PlanFacts
<1> HIDE DEF R
<1>5. /\ DOMAIN asks' = DOMAIN asks
      /\ \A a \in DOMAIN asks : asks'[a] \in R /\ asks'[a].live = FALSE /\ SameRow(a)
                                /\ asks'[a].st = asks[a].st /\ asks'[a].calls = asks[a].calls
    BY <1>1, <1>3, <1>4 DEF SameRow
<1>6. asks' \in Seq(R) /\ Len(asks') = Len(asks)
  <2>1. asks' = [a \in 1..Len(asks) |-> asks'[a]]
    BY <1>1, <1>4
  <2>2. asks' \in Seq(R)
    BY <1>4, <1>5, <2>1
  <2>3. \A m, k \in Nat : 1..m = 1..k => m = k
    OBVIOUS
  <2>4. Len(asks') \in Nat /\ DOMAIN asks' = 1..Len(asks')
    BY <2>2
  <2>5. 1..Len(asks') = 1..Len(asks)
    BY <1>4, <1>5, <2>4
  <2> QED
    BY <1>4, <2>2, <2>3, <2>4, <2>5
<1>7. PlShape'
    BY <1>2, <1>6, RouteSame DEF PlShape, R
<1>8. PlLive' /\ AskedBeforeCalled'
    BY <1>5 DEF PlanInv, PlLive, AskedBeforeCalled
<1>9. ShownIsTrue'
    BY <1>1, <1>5 DEF PlanInv, ShownIsTrue, SameRow
<1>10. planFaults' \in 0..MaxPlanFaults
    BY <1>1 DEF PlanInv, ToolPlanTypeOK
<1> QED
    BY <1>1, <1>2, <1>5, <1>6, <1>7, <1>8, <1>9, <1>10, ForgetKeeps

\* The rows are left alone.
LEMMA RowsUntouched ==
    ASSUME PlanInv, UNCHANGED <<asks, routing>>
    PROVE  /\ PlShape' /\ PlLive' /\ AskedBeforeCalled' /\ DOMAIN asks' = DOMAIN asks /\ Len(asks') = Len(asks)
           /\ AskedOncePerPass' /\ ApprovalRoute' = ApprovalRoute /\ \A a \in DOMAIN asks : SameRow(a)
<1>1. ApprovalRoute' = ApprovalRoute
    BY RouteSame
<1> QED
    BY <1>1 DEF PlanInv, PlShape, PlLive, AskedBeforeCalled, AskedOncePerPass, SameRow

\* The event is claimed and a plan is made: nothing has run in this pass.
LEMMA PlanningKeeps ==
    ASSUME PlanInv, ClaimDiagnosis \/ PlanDiagnosis
    PROVE  PlanInv'
<1>1. /\ at \in {"queued", "planning"}
      /\ UNCHANGED <<ran, told, worldVars, asks, direct, shown, hint, quashed, wanted, planFaults>>
    BY DEF ClaimDiagnosis, PlanDiagnosis
<1>2. UNCHANGED <<barred, offline, routing, raced, planEdits>>
    BY <1>1 DEF worldVars
<1>3. /\ PlShape' /\ PlLive' /\ AskedBeforeCalled' /\ DOMAIN asks' = DOMAIN asks /\ Len(asks') = Len(asks)
      /\ AskedOncePerPass'
    BY <1>1, <1>2, RowsUntouched
<1>4. ran = <<>> /\ Len(ran) = 0 /\ DOMAIN ran = {}
  <2>1. ran = <<>>
    BY <1>1 DEF PlanInv, PlIdle
  <2> QED
    BY <2>1
<1>5. /\ at' \in {"planning", "step", "finalize", "dead"}
      /\ plan' \in Plans \cup {<<>>} /\ Len(plan') \in Nat /\ (at' = "step" => plan' # <<>> /\ Len(plan') # 0)
  <2>1. plan \in Plans \cup {<<>>}
    BY DEF PlanInv, ToolPlanTypeOK
  <2>2. /\ at' \in {"planning", "step", "finalize", "dead"}
        /\ plan' \in Plans \cup {<<>>} /\ (at' = "step" => plan' \in Plans)
    BY <2>1 DEF ClaimDiagnosis, PlanDiagnosis
  <2>3. \A p \in Plans : p \in Seq(PlanSteps) /\ p # <<>>
    BY ToolPlanAssumption
  <2>4. \A p \in Plans : Len(p) \in Nat /\ Len(p) # 0
    BY <2>3
  <2>5. Len(<<>>) = 0
    OBVIOUS
  <2> QED
    BY <2>2, <2>3, <2>4, <2>5
<1>6. /\ pass' \in 0..MaxPasses /\ pass' # 0 /\ pass \in Nat /\ pass' \in Nat
      /\ \A a \in DOMAIN asks : asks[a].pass \in 1..pass' /\ asks[a].pass # pass'
  <2>1. pass \in 0..MaxPasses /\ \A a \in DOMAIN asks : asks[a].pass \in 1..pass
    BY DEF PlanInv, ToolPlanTypeOK
  <2>2. CASE ClaimDiagnosis
    <3>1. pass' = pass + 1 /\ pass < MaxPasses
        BY <2>2 DEF ClaimDiagnosis
    <3> QED
        BY <2>1, <3>1, ToolPlanAssumption
  <2>3. CASE PlanDiagnosis
    <3>1. at = "planning" /\ pass' = pass
        BY <2>3 DEF PlanDiagnosis
    <3>2. pass # 0 /\ \A a \in DOMAIN asks : asks[a].pass # pass
        BY <3>1 DEF PlanInv, PlIdle, PlFresh
    <3> QED
        BY <2>1, <3>1, <3>2, ToolPlanAssumption
  <2> QED
    BY <2>2, <2>3
<1>7. ToolPlanTypeOK'
  <2>1. Len(ran') <= Len(plan')
    BY <1>1, <1>4, <1>5
  <2> QED
    BY <1>1, <1>2, <1>3, <1>5, <1>6, <2>1, PlTypedNext DEF PlanInv, ToolPlanTypeOK
<1>8. PlIdle' /\ PlAsk'
    BY <1>1, <1>4, <1>5, <1>6 DEF PlIdle, PlAsk
<1>9. PlSteps'
  <2>1. at' = "step" => 0 < Len(plan')
    BY <1>5
  <2>2. 1..0 = {}
    OBVIOUS
  <2> QED
    BY <1>1, <1>4, <1>5, <2>1, <2>2 DEF PlSteps
<1>10. PlFresh'
    BY <1>1, <1>6 DEF PlFresh
<1>11. PlRan' /\ StopRespected' /\ WaitingStepsAsked'
  <2>1. 1..(0 - 1) = {}
    OBVIOUS
  <2> QED
    BY <1>1, <1>4, <2>1 DEF PlRan, StopRespected, WaitingStepsAsked
<1>12. SuppressedStaysOut' /\ ShownIsTrue' /\ PlanCallsAllowed'
    BY <1>1, <1>5 DEF PlanInv, SuppressedStaysOut, ShownIsTrue, PlanCallsAllowed
<1> QED
    BY <1>3, <1>7, <1>8, <1>9, <1>10, <1>11, <1>12 DEF PlanInv

\* The steps have run, or the pass is over: what ran stays as it was.
LEMMA MovesOn ==
    ASSUME PlanInv, \/ at \in {"finalize", "apply"} /\ at' \in {"apply", "notify"}
                    \/ at \in {"lost", "done", "dead"} /\ at' = "queued",
           SuppressedStaysOut', ShownIsTrue', shown' \in Seq(RanSteps),
           hint' \in BOOLEAN, quashed' \in BOOLEAN, wanted' \in BOOLEAN,
           UNCHANGED <<pass, plan, ran, told, barred, offline, routing, raced, planEdits, asks, direct, planFaults>>
    PROVE  PlanInv'
<1>1. /\ PlShape' /\ PlLive' /\ AskedBeforeCalled' /\ DOMAIN asks' = DOMAIN asks /\ Len(asks') = Len(asks)
      /\ AskedOncePerPass' /\ ApprovalRoute' = ApprovalRoute
    BY RowsUntouched
<1>2. ToolPlanTypeOK'
    BY <1>1, PlTypedNext DEF PlanInv, ToolPlanTypeOK
<1>3. PlIdle' /\ PlSteps' /\ PlAsk' /\ PlFresh'
    BY DEF PlanInv, PlIdle, PlSteps, PlAsk, PlFresh
<1>4. PlRan' /\ StopRespected' /\ PlanCallsAllowed'
    BY DEF PlanInv, PlRan, StopRespected, PlanCallsAllowed
<1>5. WaitingStepsAsked'
    BY <1>1 DEF PlanInv, WaitingStepsAsked
<1> QED
    BY <1>1, <1>2, <1>3, <1>4, <1>5 DEF PlanInv

\* The final plan holds steps that ran and perhaps a planned command; none if it was
\* suppressed.
LEMMA FinalPlanFacts ==
    ASSUME PlanInv
    PROVE  /\ FinalPlan \in Seq(RanSteps)
           /\ \A i \in DOMAIN FinalPlan : FinalPlan[i].ask # 0 => FinalPlan[i].st # "completed"
           /\ quashed => \A i \in DOMAIN FinalPlan : ~IsCommand(FinalPlan[i])
<1>1. ran \in Seq(RanSteps) /\ \A i \in DOMAIN ran : ran[i].ask # 0 => ran[i].st # "completed"
    BY PlanFacts DEF PlanInv, PlRan
<1>2. CASE quashed
  <2> DEFINE P == {i \in DOMAIN ran : ~IsCommand(ran[i])}
  <2>1. FinalPlan = Picked(ran, P) /\ P \in SUBSET DOMAIN ran /\ \A i \in P : ~IsCommand(ran[i])
    BY <1>2 DEF FinalPlan
  <2> HIDE DEF P
  <2>2. /\ Picked(ran, P) \in Seq(RanSteps)
        /\ \A k \in DOMAIN Picked(ran, P) : \E i \in P : Picked(ran, P)[k] = ran[i]
    BY <1>1, <2>1, PickedFacts
  <2> QED
    BY <1>1, <2>1, <2>2
<1>3. CASE ~quashed
  <2> DEFINE e == [tool |-> "command", id |-> 0, st |-> "planned", ask |-> 0]
  <2>1. FinalPlan = ran \/ FinalPlan = Append(ran, e)
    BY <1>3 DEF FinalPlan
  <2>2. e \in RanSteps /\ e.st = "planned"
    <3>1. 0 \in 0..MaxAsks /\ 0 \in Nat
        BY ToolPlanAssumption
    <3> QED
        BY <3>1 DEF RanSteps, StepTools, Outcomes
  <2> HIDE DEF e
  <2>3. /\ Append(ran, e) \in Seq(RanSteps) /\ DOMAIN ran = 1..Len(ran) /\ Len(ran) \in Nat
        /\ DOMAIN Append(ran, e) = 1..Len(ran) + 1 /\ Append(ran, e)[Len(ran) + 1] = e
        /\ \A i \in 1..Len(ran) : Append(ran, e)[i] = ran[i]
    BY <1>1, <2>2
  <2>4. \A i \in 1..Len(ran) + 1 : i \in 1..Len(ran) \/ i = Len(ran) + 1
    BY <2>3
  <2>5. \A i \in DOMAIN Append(ran, e) : Append(ran, e)[i].ask # 0 => Append(ran, e)[i].st # "completed"
    BY <1>1, <2>2, <2>3, <2>4
  <2> QED
    BY <1>1, <1>3, <2>1, <2>3, <2>5
<1> QED
    BY <1>2, <1>3

\* The diagnosis is finalized and stored, and the notifications go out.
LEMMA ConcludingKeeps ==
    ASSUME PlanInv, FinalizeDiagnosis \/ ApplyDiagnosis \/ FinishDiagnosis
    PROVE  PlanInv'
<1>1. at \in {"finalize", "apply", "notify"} /\ UNCHANGED <<pass, worldVars, asks, direct>>
    BY DEF FinalizeDiagnosis, ApplyDiagnosis, FinishDiagnosis
<1>2. UNCHANGED <<barred, offline, routing, raced, planEdits>>
    BY <1>1 DEF worldVars
<1>3. pass # 0
    BY <1>1 DEF PlanInv, PlIdle
<1>4. hint \in BOOLEAN /\ quashed \in BOOLEAN /\ wanted \in BOOLEAN /\ shown \in Seq(RanSteps)
    BY DEF PlanInv, ToolPlanTypeOK
<1>5. CASE Forget /\ at' \in {"done", "dead"} /\ UNCHANGED shown /\ planFaults' \in {planFaults, planFaults + 1}
           /\ (planFaults' # planFaults => planFaults < MaxPlanFaults)
  <2>1. planFaults' \in 0..MaxPlanFaults
    BY <1>5, ToolPlanAssumption DEF PlanInv, ToolPlanTypeOK
  <2>2. /\ PlShape' /\ PlLive' /\ AskedBeforeCalled' /\ DOMAIN asks' = DOMAIN asks /\ Len(asks') = Len(asks)
        /\ \A a \in DOMAIN asks : SameRow(a)
    BY <1>1, <1>2, RowsUntouched
  <2>3. ShownIsTrue'
    BY <1>1, <1>5 DEF PlanInv, ShownIsTrue
  <2> QED
    BY <1>1, <1>2, <1>3, <1>5, <2>1, <2>2, <2>3, ForgetKeeps
<1>6. CASE /\ FinalizeDiagnosis /\ at' = "apply" /\ UNCHANGED <<plan, ran, told, wanted>>
           /\ hint' \in BOOLEAN /\ quashed' \in BOOLEAN
  <2>1. UNCHANGED <<shown, planFaults>> /\ at = "finalize"
    BY <1>6 DEF FinalizeDiagnosis
  <2>2. SuppressedStaysOut' /\ ShownIsTrue'
    BY <1>1, <1>6, <2>1 DEF PlanInv, SuppressedStaysOut, ShownIsTrue
  <2> QED
    BY <1>1, <1>2, <1>4, <1>6, <2>1, <2>2, MovesOn
<1>7. CASE /\ at = "apply" /\ at' = "notify" /\ shown' = FinalPlan
           /\ wanted' = ((hint /\ ~quashed) \/ \E i \in DOMAIN FinalPlan : IsCommand(FinalPlan[i]))
           /\ UNCHANGED <<plan, ran, told, hint, quashed, planFaults>>
  <2>1. wanted' \in BOOLEAN
    BY <1>4, <1>7
  <2>2. SuppressedStaysOut'
    BY <1>7, FinalPlanFacts DEF SuppressedStaysOut
  <2>3. shown' \in Seq(RanSteps) /\ ShownIsTrue'
    BY <1>7, FinalPlanFacts DEF ShownIsTrue
  <2> QED
    BY <1>1, <1>2, <1>4, <1>7, <2>1, <2>2, <2>3, MovesOn
<1>8. CASE FinalizeDiagnosis
  <2>1. UNCHANGED <<shown, planFaults>>
    BY <1>8 DEF FinalizeDiagnosis
  <2>2. \/ at' = "dead" /\ Forget
        \/ at' = "apply" /\ hint' \in BOOLEAN /\ quashed' \in BOOLEAN /\ UNCHANGED <<plan, ran, told, wanted>>
    BY <1>4, <1>8 DEF FinalizeDiagnosis
  <2> QED
    BY <1>5, <1>6, <1>8, <2>1, <2>2
<1>9. CASE ApplyDiagnosis
    BY <1>5, <1>7, <1>9 DEF ApplyDiagnosis
<1>10. CASE FinishDiagnosis
    BY <1>5, <1>10 DEF FinishDiagnosis
<1> QED
    BY <1>8, <1>9, <1>10

\* Restart and replay put the event back.
LEMMA RequeueKeeps ==
    ASSUME PlanInv, PlanRestart \/ ReplayDiagnosis
    PROVE  PlanInv'
<1>1. /\ at \in {"lost", "done", "dead"} /\ at' = "queued"
      /\ UNCHANGED <<pass, plan, ran, told, worldVars, asks, direct, shown, hint, quashed, wanted, planFaults>>
    BY DEF PlanRestart, ReplayDiagnosis
<1>2. UNCHANGED <<barred, offline, routing, raced, planEdits>>
    BY <1>1 DEF worldVars
<1>3. /\ SuppressedStaysOut' /\ ShownIsTrue' /\ shown' \in Seq(RanSteps)
      /\ hint' \in BOOLEAN /\ quashed' \in BOOLEAN /\ wanted' \in BOOLEAN
    BY <1>1 DEF PlanInv, SuppressedStaysOut, ShownIsTrue, ToolPlanTypeOK
<1> QED
    BY <1>1, <1>2, <1>3, MovesOn

\* An edit of the list or of a connector, or no step at all.
LEMMA PlanAsItWas ==
    ASSUME PlanInv, barred' \in SUBSET Caps, offline' \in SUBSET Caps, planEdits' \in 0..MaxPlanEdits,
           raced' \in BOOLEAN,
           UNCHANGED <<at, pass, plan, ran, told, routing, asks, direct, shown, hint, quashed, wanted, planFaults>>
    PROVE  PlanInv'
<1>1. /\ PlShape' /\ PlLive' /\ AskedBeforeCalled' /\ DOMAIN asks' = DOMAIN asks /\ Len(asks') = Len(asks)
      /\ AskedOncePerPass' /\ ApprovalRoute' = ApprovalRoute
    BY RowsUntouched
<1>2. ToolPlanTypeOK'
    BY <1>1, PlTypedNext DEF PlanInv, ToolPlanTypeOK
<1>3. PlIdle' /\ PlSteps' /\ PlFresh' /\ PlRan'
    BY DEF PlanInv, PlIdle, PlSteps, GoesOn, PlFresh, PlRan
<1>4. PlAsk'
    BY <1>1 DEF PlanInv, PlAsk, Step
<1>5. StopRespected' /\ PlanCallsAllowed' /\ SuppressedStaysOut' /\ ShownIsTrue'
    BY DEF PlanInv, StopRespected, PlanCallsAllowed, SuppressedStaysOut, ShownIsTrue
<1>6. WaitingStepsAsked'
    BY <1>1 DEF PlanInv, WaitingStepsAsked
<1> QED
    BY <1>1, <1>2, <1>3, <1>4, <1>5, <1>6 DEF PlanInv

\* Nothing has been planned.
LEMMA PlanInitial == ToolPlanInit => PlanInv
<1> SUFFICES ASSUME ToolPlanInit PROVE PlanInv
    OBVIOUS
<1>1. /\ at = "queued" /\ pass = 0 /\ plan = <<>> /\ ran = <<>> /\ told = 0 /\ offline = {} /\ asks = <<>>
      /\ direct = {} /\ raced = FALSE /\ shown = <<>> /\ hint = FALSE /\ quashed = FALSE /\ wanted = FALSE
      /\ planEdits = 0 /\ planFaults = 0 /\ barred \in SUBSET Marketplace /\ routing \in Routings
    BY DEF ToolPlanInit
<1>2. /\ DOMAIN asks = {} /\ DOMAIN ran = {} /\ DOMAIN shown = {} /\ Len(ran) = 0 /\ Len(plan) = 0 /\ Len(asks) = 0
      /\ \A S : asks \in Seq(S) /\ ran \in Seq(S) /\ shown \in Seq(S)
    BY <1>1
<1>3. ToolPlanTypeOK
  <2>1. /\ 0 \in 0..MaxPasses /\ 0 \in 0..MaxPlanEdits /\ 0 \in 0..MaxPlanFaults /\ 0 \in Nat
        /\ Len(ran) <= Len(plan) /\ Len(asks) <= MaxAsks
    BY <1>2, ToolPlanAssumption
  <2>2. barred \in SUBSET Caps
    BY <1>1, ToolPlanAssumption
  <2> QED
    BY <1>1, <1>2, <2>1, <2>2 DEF ToolPlanTypeOK
<1>4. PlShape /\ PlIdle /\ PlSteps /\ PlAsk /\ PlFresh /\ PlLive /\ PlRan
    BY <1>1, <1>2 DEF PlShape, PlIdle, PlSteps, PlAsk, PlFresh, PlLive, PlRan
<1>5. PlanCallsAllowed /\ AskedBeforeCalled /\ WaitingStepsAsked /\ AskedOncePerPass /\ SuppressedStaysOut /\ ShownIsTrue
    BY <1>1, <1>2 DEF PlanCallsAllowed, AskedBeforeCalled, WaitingStepsAsked, AskedOncePerPass,
                      SuppressedStaysOut, ShownIsTrue
<1>6. StopRespected
  <2>1. 1..(0 - 1) = {}
    OBVIOUS
  <2> QED
    BY <1>2, <2>1 DEF StopRespected
<1> QED
    BY <1>3, <1>4, <1>5, <1>6 DEF PlanInv

\* Every step keeps the invariant.
LEMMA PlanStep == PlanInv /\ PlCall /\ [ToolPlanNext]_planVars => PlanInv'
<1> SUFFICES ASSUME PlanInv, PlCall, [ToolPlanNext]_planVars PROVE PlanInv'
    OBVIOUS
<1>1. CASE PlanWorker
    BY <1>1, PlanningKeeps, QueryStepKeeps, InvokeStepKeeps, CallStepKeeps, CreateAskKeeps, TellNextKeeps,
       ConcludingKeeps
       DEF PlanWorker, CapabilityStep, LogsStep, DeliveryStep
<1>2. ASSUME NEW a \in DOMAIN asks, AnswerAsk(a) \/ InvokeApproved(a) \/ CapabilityResult(a) PROVE PlanInv'
    BY <1>2, AnswerAskKeeps, InvokeApprovedKeeps, CapabilityResultKeeps
<1>3. CASE EditPolicy
  <2>1. UNCHANGED <<at, pass, plan, ran, told, routing, asks, direct, shown, hint, quashed, wanted, planFaults>>
    BY <1>3 DEF EditPolicy
  <2>2. barred' \in SUBSET Caps /\ offline' \in SUBSET Caps
    BY <1>3, ToolPlanAssumption DEF EditPolicy, PlanInv, ToolPlanTypeOK
  <2>3. planEdits' \in 0..MaxPlanEdits /\ raced' \in BOOLEAN
    BY <1>3, ToolPlanAssumption DEF EditPolicy, PlanInv, ToolPlanTypeOK
  <2> QED
    BY <2>1, <2>2, <2>3, PlanAsItWas
<1>4. CASE PlanCrash
    BY <1>4, PlanCrashKeeps
<1>5. CASE PlanRestart \/ ReplayDiagnosis
    BY <1>5, RequeueKeeps
<1>6. CASE UNCHANGED planVars
  <2>1. /\ UNCHANGED <<at, pass, plan, ran, told, routing, asks, direct, shown, hint, quashed, wanted, planFaults>>
        /\ UNCHANGED <<barred, offline, raced, planEdits>>
    BY <1>6 DEF planVars
  <2>2. barred' \in SUBSET Caps /\ offline' \in SUBSET Caps /\ planEdits' \in 0..MaxPlanEdits /\ raced' \in BOOLEAN
    BY <2>1 DEF PlanInv, ToolPlanTypeOK
  <2> QED
    BY <2>1, <2>2, PlanAsItWas
<1> QED
    BY <1>1, <1>2, <1>3, <1>4, <1>5, <1>6 DEF ToolPlanNext

\* Only the policy check comes before a call, and only an edit in between.
LEMMA PlCallStep == PlanInv /\ PlCall /\ [ToolPlanNext]_planVars => PlCall'
<1> SUFFICES ASSUME PlanInv, PlCall, [ToolPlanNext]_planVars PROVE PlCall'
    OBVIOUS
<1>1. ASSUME at' # "call" PROVE PlCall'
    BY <1>1 DEF PlCall
<1>2. ASSUME UNCHANGED <<at, plan, ran, barred, raced>> PROVE PlCall'
    BY <1>2 DEF PlCall, Step
<1>3. ASSUME NEW st, NEW ask, NEW stop, EndStep(st, ask, stop) PROVE PlCall'
    BY <1>1, <1>3 DEF EndStep
<1>4. CASE MetricsStep \/ KnowledgeStep \/ CommandStep \/ CallStep
    BY <1>3, <1>4 DEF MetricsStep, KnowledgeStep, QueryStep, CommandStep, CallStep
<1>5. CASE CapabilityStep \/ LogsStep \/ DeliveryStep
    BY <1>5, InvokeStepKeeps DEF CapabilityStep, LogsStep, DeliveryStep
<1>6. CASE CreateAsk
    BY <1>1, <1>3, <1>6 DEF CreateAsk
<1>7. CASE TellNext
  <2>1. at' \in {"tell", "step", "finalize"}
    BY <1>7 DEF TellNext, Told, EndStep
  <2> QED
    BY <1>1, <2>1
<1>8. CASE ClaimDiagnosis \/ PlanDiagnosis \/ FinalizeDiagnosis \/ ApplyDiagnosis \/ FinishDiagnosis
    BY <1>1, <1>8 DEF ClaimDiagnosis, PlanDiagnosis, FinalizeDiagnosis, ApplyDiagnosis, FinishDiagnosis
<1>9. ASSUME NEW a \in DOMAIN asks, AnswerAsk(a) \/ InvokeApproved(a) \/ CapabilityResult(a) PROVE PlCall'
    BY <1>2, <1>9 DEF AnswerAsk, InvokeApproved, CapabilityResult, worldVars
<1>10. CASE EditPolicy
  <2>1. UNCHANGED <<at, plan, ran>> /\ raced' = (at = "call")
    BY <1>10 DEF EditPolicy
  <2> QED
    BY <2>1 DEF PlCall, Step
<1>11. CASE PlanCrash \/ PlanRestart \/ ReplayDiagnosis
    BY <1>1, <1>11 DEF PlanCrash, PlanRestart, ReplayDiagnosis
<1>12. CASE UNCHANGED planVars
    BY <1>2, <1>12 DEF planVars
<1> QED
    BY <1>4, <1>5, <1>6, <1>7, <1>8, <1>9, <1>10, <1>11, <1>12 DEF ToolPlanNext, PlanWorker

\* InvokeCapability, InvokeApprovedCapability: for any plans, policies and routings, and
\* however passes, answers, edits and crashes interleave, nothing is called that policy
\* or an approver had not cleared, and nothing twice for one approval.
THEOREM CallsCorrect == ToolPlanSpec => []CallsCleared
<1>1. ToolPlanInit => PlanInv /\ PlCall
    BY PlanInitial DEF ToolPlanInit, PlCall
<1>2. PlanInv /\ PlCall /\ [ToolPlanNext]_planVars => (PlanInv /\ PlCall)'
    BY PlanStep, PlCallStep
<1>3. PlanInv => CallsCleared
    BY DEF PlanInv, CallsCleared
<1> QED
    BY <1>1, <1>2, <1>3, PTL DEF ToolPlanSpec

\* executeToolPlan, deliverToolPlanNotifications, HandleCapabilityResult: steps stop where
\* they should, a step that waits was asked for once per pass and told to everyone on the
\* route, a suppressed command stays out, and the stored plan claims no call that was not
\* made.
THEOREM StepsCorrect == ToolPlanSpec => []StepsSound
<1>1. ToolPlanInit => PlanInv /\ PlCall
    BY PlanInitial DEF ToolPlanInit, PlCall
<1>2. PlanInv /\ PlCall /\ [ToolPlanNext]_planVars => (PlanInv /\ PlCall)'
    BY PlanStep, PlCallStep
<1>3. PlanInv => StepsSound
    BY DEF PlanInv, StepsSound
<1> QED
    BY <1>1, <1>2, <1>3, PTL DEF ToolPlanSpec


-----------------------------------------------------------------------------
(* Reasoning.  The inductive invariant.                                    *)

\* Every mark a phase gave out is of the kind of its value, and values are no marks.
MarksFit(marks) == \A v \in DOMAIN marks : v \notin Marks /\ marks[v] \in MarkSet(KindOf(v))

RsShape == /\ results \in [failed : BOOLEAN, evidence : BOOLEAN]
           /\ MarksFit(snap.marks) /\ MarksFit(planSnap.marks)

\* A request for a diagnosis was made to the model whose turn it was.
InTurn(requests, s) ==
    \A a \in requests : a.by # "detector" =>
        /\ a.by \in {"primary", "assist"} /\ a.model # NoModel
        /\ a.model = IF a.by = "primary" THEN s.primary ELSE s.assist

\* The two models of a phase differ, only configured ones are asked, and the
\* detector before them.
RsAsked == /\ snap.primary # NoModel => snap.assist # snap.primary
           /\ asking = "primary" => snap.primary # NoModel
           /\ asking = "assist" => snap.assist # NoModel
           /\ asking = "detector" => asked = {} /\ snap.rules.detect /\ stage # "done"
           /\ InTurn(asked, snap)

\* Until its end a diagnosis has no conclusion.
RsOpen == stage # "done" => out = NoOutput /\ echoed = Nothing

\* A mark of its phase that a plan still names is of a kind the rules do not let back.
KeptMarks(steps, s) == \A i \in DOMAIN steps, v \in DOMAIN s.marks :
    steps[i].arg = s.marks[v] => KindOf(v) \notin s.rules.back

ReasonInv == /\ ReasoningTypeOK /\ RsShape /\ RsAsked /\ RsOpen /\ KeptMarks(draft, planSnap)
             /\ MaskedAsConfigured /\ RawOnlyToDetector /\ MarksMeanTheSame /\ CautiousWhenBlind
             /\ HintEarned /\ GenericOnlyIfAsked /\ DiskEvidenceFirst

-----------------------------------------------------------------------------
(* Reasoning.  What its operators return.                                  *)

\* The spare model is a configured candidate other than the first.
LEMMA AssistFacts ==
    ASSUME NEW p, NEW candidates \in Seq(Models \cup {NoModel})
    PROVE  /\ ChooseDistinctAssist(p, candidates) \in Models \cup {NoModel}
           /\ p # NoModel => ChooseDistinctAssist(p, candidates) # p
<1> DEFINE fit == {i \in DOMAIN candidates : candidates[i] \notin {NoModel, p}}
           first == CHOOSE i \in fit : \A j \in fit : i <= j
<1>1. ChooseDistinctAssist(p, candidates) = IF fit = {} THEN NoModel ELSE candidates[first]
    BY DEF ChooseDistinctAssist
<1>2. CASE fit = {}
    BY <1>1, <1>2
<1>3. CASE fit # {}
  <2>1. fit \subseteq Nat
    OBVIOUS
  <2>2. \E i \in fit : \A j \in fit : i <= j
    BY <1>3, <2>1, LeastNumber
  <2>3. first \in fit
    BY <2>2
  <2>4. candidates[first] \in Models \cup {NoModel} /\ candidates[first] # p
    BY <2>3
  <2> HIDE DEF first, fit
  <2> QED
    BY <1>1, <1>3, <2>4
<1> QED
    BY <1>2, <1>3

\* A phase's two models are configured ones, and differ.
LEMMA RuntimeFacts ==
    ASSUME registry \in Bindings
    PROVE  /\ RuntimesForInput.primary \in Models \cup {NoModel}
           /\ RuntimesForInput.assist \in Models \cup {NoModel}
           /\ RuntimesForInput.primary # NoModel => RuntimesForInput.assist # RuntimesForInput.primary
<1> DEFINE M == Models \cup {NoModel}
           pick(p, candidates) == [primary |-> p, assist |-> ChooseDistinctAssist(p, candidates)]
           target == RoleTarget(binding.primary)
           spare == RoleTarget(binding.fallback)
           platform == registry.primary
           other == registry.assist
<1>1. target \in M /\ spare \in M /\ platform \in M /\ other \in M
    BY ReasoningAssumption DEF RoleTarget
<1>2. \E p \in M : \E candidates \in Seq(M) : RuntimesForInput = pick(p, candidates)
  <2>1. /\ <<other>> \in Seq(M) /\ <<spare, other>> \in Seq(M) /\ <<other, platform>> \in Seq(M)
        /\ <<spare, other, platform>> \in Seq(M)
    <3> HIDE DEF M, target, spare, platform, other
    <3> QED
      BY <1>1
  <2>2. \/ RuntimesForInput = pick(platform, <<other>>)
        \/ RuntimesForInput = pick(target, <<spare, other, platform>>)
        \/ RuntimesForInput = pick(platform, <<spare, other>>)
        \/ RuntimesForInput = pick(spare, <<other, platform>>)
    <3> HIDE DEF M
    <3> QED
      BY Zenon DEF RuntimesForInput
  <2> HIDE DEF M, target, spare, platform, other, pick
  <2> QED
    BY <1>1, <2>1, <2>2
<1>3. PICK p \in M, candidates \in Seq(M) : RuntimesForInput = pick(p, candidates)
    BY <1>2
<1>4. RuntimesForInput.primary = p /\ RuntimesForInput.assist = ChooseDistinctAssist(p, candidates)
    BY <1>3
<1> QED
    BY <1>3, <1>4, AssistFacts

\* The marks a phase gives out fit its values.
LEMMA NumberingFits ==
    ASSUME subject \in Contexts, NEW r, NEW found, NEW marks \in Numberings(Masked(r, found))
    PROVE  MarksFit(marks)
<1> DEFINE values == {subject.host} \cup subject.mentions
           alike(v, S) == {w \in S : KindOf(w) = KindOf(v)}
<1>1. Masked(r, found) \subseteq values
    BY DEF Masked
<1>2. /\ IsFiniteSet(values) /\ values \cap Marks = {}
      /\ \A k \in {"HOST", "PATH"} : Cardinality({v \in values : KindOf(v) = k}) <= Len(MarksOf(k))
    BY ReasoningAssumption
<1>3. /\ DOMAIN marks = Masked(r, found)
      /\ \A v \in Masked(r, found) : \E n \in 1..Cardinality(alike(v, Masked(r, found))) : marks[v] = MarksOf(KindOf(v))[n]
    BY DEF Numberings
<1> SUFFICES ASSUME NEW v \in Masked(r, found)
             PROVE  v \notin Marks /\ marks[v] \in MarkSet(KindOf(v))
    BY <1>3 DEF MarksFit
<1>4. KindOf(v) \in {"HOST", "PATH"}
    BY DEF KindOf
<1>5. IsFiniteSet(alike(v, values)) /\ alike(v, Masked(r, found)) \subseteq alike(v, values)
    BY <1>1, <1>2, FS_Subset
<1>6. /\ Cardinality(alike(v, Masked(r, found))) \in Nat /\ Cardinality(alike(v, values)) \in Nat
      /\ Cardinality(alike(v, Masked(r, found))) <= Cardinality(alike(v, values))
  <2> HIDE DEF alike, values
  <2> QED
    BY <1>5, FS_Subset, FS_CardinalityType
<1>7. Cardinality(alike(v, values)) <= Len(MarksOf(KindOf(v)))
    BY <1>2, <1>4
<1>8. MarksOf(KindOf(v)) \in Seq(Names)
    BY ReasoningAssumption DEF MarksOf
<1>9. PICK n \in 1..Cardinality(alike(v, Masked(r, found))) : marks[v] = MarksOf(KindOf(v))[n]
    BY <1>3
<1>10. n \in DOMAIN MarksOf(KindOf(v))
  <2> HIDE DEF alike, values
  <2> QED
    BY <1>6, <1>7, <1>8, <1>9
<1> QED
    BY <1>1, <1>2, <1>9, <1>10 DEF MarkSet

\* What rehydration returns: the mark as it was, none of whose values may come back,
\* or a value the mark stood for.
LEMMA RehydrateFacts ==
    ASSUME NEW s, MarksFit(s.marks), NEW x
    PROVE  \/ /\ Rehydrate(x, s) = x
              /\ \A v \in DOMAIN s.marks : s.marks[v] = x => KindOf(v) \notin s.rules.back
           \/ /\ Rehydrate(x, s) \in DOMAIN s.marks /\ Rehydrate(x, s) \notin Marks
              /\ s.marks[Rehydrate(x, s)] = x /\ x \in Marks
<1>1. \A v \in DOMAIN s.marks : s.marks[v] \in Marks /\ v \notin Marks
    BY DEF MarksFit, Marks, KindOf
<1>2. CASE x \in Marks /\ \E v \in DOMAIN s.marks : s.marks[v] = x /\ KindOf(v) \in s.rules.back
  <2>1. Rehydrate(x, s) = CHOOSE v \in DOMAIN s.marks : s.marks[v] = x
    BY <1>2, Zenon DEF Rehydrate
  <2>2. Rehydrate(x, s) \in DOMAIN s.marks /\ s.marks[Rehydrate(x, s)] = x
    BY <1>2, <2>1, Zenon
  <2> QED
    BY <1>1, <1>2, <2>2
<1>3. CASE ~(x \in Marks /\ \E v \in DOMAIN s.marks : s.marks[v] = x /\ KindOf(v) \in s.rules.back)
  <2>1. Rehydrate(x, s) = x
    BY <1>3, Zenon DEF Rehydrate
  <2> QED
    BY <1>1, <1>3, <2>1, Zenon
<1> QED
    BY <1>2, <1>3

\* Two values with one mark are of one kind, even in different phases.
LEMMA OneKind ==
    ASSUME NEW m, NEW n, MarksFit(m), MarksFit(n), NEW v \in DOMAIN m, NEW w \in DOMAIN n, m[v] = n[w]
    PROVE  KindOf(v) = KindOf(w)
<1>1. m[v] \in MarkSet(KindOf(v)) /\ n[w] \in MarkSet(KindOf(w))
    BY DEF MarksFit
<1>2. KindOf(v) \in {"HOST", "PATH"} /\ KindOf(w) \in {"HOST", "PATH"}
    BY DEF KindOf
<1> QED
    BY <1>1, <1>2, ReasoningAssumption

\* Metrics and knowledge before any command.
EvidenceFirst(steps) ==
    \A i \in DOMAIN steps : steps[i].tool = "command" =>
        \A t \in {"metrics", "knowledge"} : \E j \in 1..(i - 1) : steps[j].tool = t

\* A command that only repeats monitoring was asked for.
AskedFor(e) == e.tool = "command" => ExplicitlyAllowed(e.cmd) \/ ~Generic(e.cmd, e.arg)

\* What a plan made in the phase of s has to be.
PlanGood(steps, s) ==
    /\ KeptMarks(steps, s)
    /\ \A i \in DOMAIN steps : AskedFor(steps[i]) \/ steps[i].arg \in DOMAIN s.marks
    /\ subject.disk /\ ~subject.skill /\ Len(steps) > 1 => EvidenceFirst(steps)

\* The host a step lacked is no path, so it makes no command generic.
LEMMA DefaultsFacts ==
    ASSUME subject \in Contexts, NEW e \in Proposals
    PROVE  /\ WithDefaults(e) \in Proposals /\ WithDefaults(e).tool = e.tool
           /\ AskedFor(e) => AskedFor(WithDefaults(e))
<1>1. subject.host \in Names /\ subject.host # "loadavg"
    BY ReasoningAssumption DEF KindOf
<1>2. CASE e.arg = Nothing
  <2>1. WithDefaults(e) = [e EXCEPT !.arg = subject.host]
    BY <1>2 DEF WithDefaults
  <2>2. /\ WithDefaults(e) \in Proposals /\ WithDefaults(e).tool = e.tool
        /\ WithDefaults(e).cmd = e.cmd /\ WithDefaults(e).arg = subject.host
    BY <1>1, <2>1 DEF Proposals
  <2> QED
    BY <1>1, <1>2, <2>2 DEF AskedFor, Generic, Nothing, ExplicitlyAllowed
<1>3. CASE e.arg # Nothing
    BY <1>3 DEF WithDefaults
<1> QED
    BY <1>2, <1>3

\* The entries of two sequences, one after the other.
LEMMA Joined ==
    ASSUME NEW S, NEW a \in Seq(S), NEW b \in Seq(S)
    PROVE  /\ a \o b \in Seq(S) /\ Len(a \o b) = Len(a) + Len(b)
           /\ \A i \in 1..Len(a) : (a \o b)[i] = a[i]
           /\ \A i \in 1..Len(b) : (a \o b)[Len(a) + i] = b[i]
    OBVIOUS

\* The official plan for a disk alert: the first command comes last.
LEMMA OfficialPlan ==
    ASSUME subject \in Contexts, NEW steps \in Seq(Proposals), \A i \in DOMAIN steps : AskedFor(steps[i])
    PROVE  /\ EnforceOfficialDiskPlan(steps) \in Seq(Proposals)
           /\ \A i \in DOMAIN EnforceOfficialDiskPlan(steps) : AskedFor(EnforceOfficialDiskPlan(steps)[i])
           /\ EvidenceFirst(EnforceOfficialDiskPlan(steps))
<1> DEFINE commands == FirstCommand(steps)
           rest == SubSeq(commands, 1, IF commands = <<>> THEN 0 ELSE 1)
           metric == Proposal("metrics", "none", subject.host)
           guide == Proposal("knowledge", "none", Nothing)
           front == <<metric, metric, guide>>
<1>1. commands \in Seq(Proposals) /\ \A k \in DOMAIN commands : AskedFor(commands[k])
  <2> DEFINE P == {i \in DOMAIN steps : steps[i].tool = "command"}
  <2>1. commands = Picked(steps, P) /\ P \in SUBSET DOMAIN steps
    BY DEF FirstCommand
  <2> HIDE DEF P, commands
  <2>2. Picked(steps, P) \in Seq(Proposals) /\ \A k \in DOMAIN Picked(steps, P) : \E i \in P : Picked(steps, P)[k] = steps[i]
    BY <2>1, PickedFacts
  <2> QED
    BY <2>1, <2>2
<1>2. metric \in Proposals /\ guide \in Proposals /\ metric.tool = "metrics" /\ guide.tool = "knowledge"
  <2>1. subject.host \in Names
    BY ReasoningAssumption
  <2> QED
    BY <2>1, ReasoningAssumption DEF Proposal, Proposals, PlanTools, PlanCommands
<1>3. EnforceOfficialDiskPlan(steps) = front \o rest
    BY DEF EnforceOfficialDiskPlan
<1>4. rest \in Seq(Proposals) /\ Len(rest) \in {0, 1} /\ (Len(rest) = 1 => AskedFor(rest[1]))
  <2>1. CASE commands = <<>>
    <3>1. rest = <<>>
      BY <2>1
    <3> QED
      BY <3>1
  <2>2. CASE commands # <<>>
    <3> HIDE DEF commands
    <3>1. Len(commands) >= 1
      BY <1>1, <2>2
    <3>2. rest = SubSeq(commands, 1, 1)
      BY <2>2
    <3>3. /\ SubSeq(commands, 1, 1) \in Seq(Proposals) /\ Len(SubSeq(commands, 1, 1)) = 1
          /\ SubSeq(commands, 1, 1)[1] = commands[1]
      BY <1>1, <3>1
    <3>4. AskedFor(commands[1])
      BY <1>1, <3>1
    <3> HIDE DEF rest
    <3> QED
      BY <3>2, <3>3, <3>4
  <2> QED
    BY <2>1, <2>2
<1> HIDE DEF commands, rest, metric, guide
<1>5. front \in Seq(Proposals) /\ Len(front) = 3 /\ front[1] = metric /\ front[2] = metric /\ front[3] = guide
    BY <1>2
<1> HIDE DEF front
<1> DEFINE whole == front \o rest
<1>6. /\ whole \in Seq(Proposals) /\ Len(whole) \in {3, 4}
      /\ whole[1] = metric /\ whole[2] = metric /\ whole[3] = guide
      /\ Len(whole) = 4 => AskedFor(whole[4])
  <2>1. front \in Seq(Proposals) /\ rest \in Seq(Proposals)
    BY <1>4, <1>5
  <2>2. /\ whole \in Seq(Proposals) /\ Len(whole) = Len(front) + Len(rest)
        /\ \A i \in 1..Len(front) : whole[i] = front[i]
        /\ \A i \in 1..Len(rest) : whole[Len(front) + i] = rest[i]
    <3> HIDE DEF whole
    <3>1. whole = front \o rest
      BY DEF whole
    <3>2. /\ front \o rest \in Seq(Proposals) /\ Len(front \o rest) = Len(front) + Len(rest)
          /\ \A i \in 1..Len(front) : (front \o rest)[i] = front[i]
          /\ \A i \in 1..Len(rest) : (front \o rest)[Len(front) + i] = rest[i]
      BY <2>1, Joined
    <3> QED
      BY <3>1, <3>2, Zenon
  <2> HIDE DEF whole
  <2> QED
    BY <1>4, <1>5, <2>2
<1> HIDE DEF whole
<1>7. \A i \in DOMAIN whole : i \in {1, 2, 3} \/ (i = 4 /\ Len(whole) = 4)
    BY <1>6
<1>8. \A i \in DOMAIN whole : AskedFor(whole[i])
    BY <1>2, <1>6, <1>7 DEF AskedFor
<1>9. EvidenceFirst(whole)
    BY <1>2, <1>6, <1>7 DEF EvidenceFirst
<1> QED
    BY <1>3, <1>6, <1>8, <1>9 DEF whole

\* What a model's plan is reduced to.
LEMMA NormalizedPlan ==
    ASSUME subject \in Contexts, NEW entries \in PlannerAnswers
    PROVE  /\ NormalizePlannerToolPlan(entries) \in Seq(Proposals)
           /\ \A i \in DOMAIN NormalizePlannerToolPlan(entries) : AskedFor(NormalizePlannerToolPlan(entries)[i])
           /\ subject.disk /\ ~subject.skill => EvidenceFirst(NormalizePlannerToolPlan(entries))
<1> DEFINE P == {i \in DOMAIN entries : Keeps(entries[i])}
           kept == Picked(entries, P)
           steps == [i \in DOMAIN kept |-> WithDefaults(kept[i])]
<1>1. entries \in Seq(Proposals) /\ P \in SUBSET DOMAIN entries
    BY ReasoningAssumption
<1>2. kept \in Seq(Proposals) /\ \A k \in DOMAIN kept : \E i \in P : kept[k] = entries[i]
  <2> HIDE DEF P
  <2> QED
    BY <1>1, PickedFacts
<1>3. \A k \in DOMAIN kept : kept[k] \in Proposals /\ AskedFor(kept[k])
  <2>1. \A i \in P : AskedFor(entries[i])
    BY DEF Keeps, AskedFor
  <2> HIDE DEF P, kept
  <2> QED
    BY <1>2, <2>1
<1>4. DOMAIN steps = DOMAIN kept /\ \A k \in DOMAIN kept : steps[k] \in Proposals /\ AskedFor(steps[k])
  <2> HIDE DEF kept
  <2> QED
    BY <1>3, DefaultsFacts
<1>5. steps \in Seq(Proposals)
  <2>1. DOMAIN kept = 1..Len(kept) /\ Len(kept) \in Nat
    <3> HIDE DEF kept
    <3> QED
      BY <1>2
  <2>2. steps \in [1..Len(kept) -> Proposals]
    <3> HIDE DEF kept
    <3> QED
      BY <1>4, <2>1
  <2> HIDE DEF steps, kept
  <2> QED
    BY <2>1, <2>2
<1>6. NormalizePlannerToolPlan(entries) =
        IF entries = <<>> THEN <<>>
        ELSE IF subject.disk /\ ~subject.skill THEN EnforceOfficialDiskPlan(steps) ELSE steps
    BY DEF NormalizePlannerToolPlan
<1>7. \A i \in DOMAIN steps : AskedFor(steps[i])
  <2> HIDE DEF kept, steps
  <2> QED
    BY <1>4
<1> HIDE DEF steps
<1>8. CASE entries = <<>>
  <2>1. NormalizePlannerToolPlan(entries) = <<>>
    BY <1>6, <1>8
  <2> QED
    BY <2>1 DEF EvidenceFirst
<1>9. CASE entries # <<>> /\ subject.disk /\ ~subject.skill
  <2>1. NormalizePlannerToolPlan(entries) = EnforceOfficialDiskPlan(steps)
    BY <1>6, <1>9
  <2> QED
    BY <1>5, <1>7, <2>1, OfficialPlan
<1>10. CASE entries # <<>> /\ ~(subject.disk /\ ~subject.skill)
  <2>1. NormalizePlannerToolPlan(entries) = steps
    BY <1>6, <1>10
  <2> QED
    BY <1>5, <1>7, <1>10, <2>1
<1> QED
    BY <1>8, <1>9, <1>10

\* A model's plan with its marks resolved is a good one.
LEMMA AnsweredPlan ==
    ASSUME subject \in Contexts, MarksFit(snap.marks), NEW entries \in PlannerAnswers
    PROVE  PlanGood(RehydrateToolPlan(NormalizePlannerToolPlan(entries)), snap)
<1> DEFINE plain == NormalizePlannerToolPlan(entries)
           steps == RehydrateToolPlan(plain)
<1>1. /\ plain \in Seq(Proposals) /\ \A i \in DOMAIN plain : AskedFor(plain[i])
      /\ subject.disk /\ ~subject.skill => EvidenceFirst(plain)
    BY NormalizedPlan
<1> HIDE DEF plain
<1>2. DOMAIN plain = 1..Len(plain) /\ Len(plain) \in Nat /\ \A i \in DOMAIN plain : plain[i] \in Proposals
    BY <1>1
<1>3. /\ DOMAIN steps = DOMAIN plain
      /\ \A i \in DOMAIN plain : steps[i] = [plain[i] EXCEPT !.arg = Rehydrate(plain[i].arg, snap)]
    BY DEF RehydrateToolPlan
<1> HIDE DEF steps
<1>4. \A i \in DOMAIN plain : /\ steps[i].tool = plain[i].tool /\ steps[i].cmd = plain[i].cmd
                              /\ steps[i].arg = Rehydrate(plain[i].arg, snap)
    BY <1>2, <1>3 DEF Proposals
<1>5. KeptMarks(steps, snap)
  <2> SUFFICES ASSUME NEW i \in DOMAIN plain, NEW v \in DOMAIN snap.marks, steps[i].arg = snap.marks[v]
               PROVE  KindOf(v) \notin snap.rules.back
    BY <1>3 DEF KeptMarks
  <2>1. snap.marks[v] \in Marks
    BY DEF MarksFit, Marks, KindOf
  <2> QED
    BY <1>4, <2>1, RehydrateFacts
<1>6. \A i \in DOMAIN steps : AskedFor(steps[i]) \/ steps[i].arg \in DOMAIN snap.marks
  <2> SUFFICES ASSUME NEW i \in DOMAIN plain, steps[i].arg \notin DOMAIN snap.marks
               PROVE  AskedFor(steps[i])
    BY <1>3
  <2>1. steps[i].arg = plain[i].arg
    BY <1>4, RehydrateFacts
  <2> QED
    BY <1>1, <1>4, <2>1 DEF AskedFor
<1>7. EvidenceFirst(plain) => EvidenceFirst(steps)
  <2> SUFFICES ASSUME EvidenceFirst(plain), NEW i \in DOMAIN plain, plain[i].tool = "command",
                      NEW t \in {"metrics", "knowledge"}
               PROVE  \E j \in 1..(i - 1) : steps[j].tool = t
    BY <1>3, <1>4 DEF EvidenceFirst
  <2>1. PICK j \in 1..(i - 1) : plain[j].tool = t
    BY DEF EvidenceFirst
  <2>2. j \in DOMAIN plain
    BY <1>2
  <2> QED
    BY <1>4, <2>1, <2>2
<1> QED
    BY <1>1, <1>5, <1>6, <1>7 DEF PlanGood, steps, plain

\* So is the plan made without a model.
LEMMA FallbackPlan ==
    ASSUME subject \in Contexts, MarksFit(snap.marks)
    PROVE  PlanGood(FallbackDiagnosisPlan, snap)
<1> DEFINE read(t) == Proposal(t, "none", subject.host)
           order == Proposal("command", "restart", subject.host)
<1>1. /\ subject.host \notin Marks
      /\ \A v \in DOMAIN snap.marks : snap.marks[v] \in Marks
    BY ReasoningAssumption DEF MarksFit, Marks, KindOf
<1>2. CASE subject.direct
  <2>1. FallbackDiagnosisPlan = <<order>>
    BY <1>2 DEF FallbackDiagnosisPlan
  <2>2. order.arg = subject.host /\ AskedFor(order)
    BY <1>2 DEF Proposal, AskedFor, Generic
  <2> HIDE DEF order
  <2>3. DOMAIN <<order>> = {1} /\ <<order>>[1] = order /\ Len(<<order>>) = 1
    OBVIOUS
  <2> QED
    BY <1>1, <2>1, <2>2, <2>3 DEF PlanGood, KeptMarks
<1>3. CASE ~subject.direct
  <2>1. \/ FallbackDiagnosisPlan = <<read("metrics"), read("logs"), read("observability")>>
        \/ FallbackDiagnosisPlan = <<read("metrics"), read("logs"), read("observability"), read("delivery")>>
        \/ FallbackDiagnosisPlan = <<read("metrics")>>
        \/ FallbackDiagnosisPlan = <<>>
    BY <1>3, Zenon DEF FallbackDiagnosisPlan, FallbackReadOnlyToolPlan
  <2> DEFINE calm(p) == \A i \in DOMAIN p : p[i].arg = subject.host /\ p[i].tool # "command"
  <2>2. \A t : read(t).arg = subject.host /\ read(t).tool = t
    BY DEF Proposal
  <2> HIDE DEF read
  <2>3. /\ calm(<<read("metrics"), read("logs"), read("observability")>>)
        /\ calm(<<read("metrics"), read("logs"), read("observability"), read("delivery")>>)
        /\ calm(<<read("metrics")>>)
        /\ calm(<<>>)
    BY <2>2
  <2>4. calm(FallbackDiagnosisPlan)
    BY <2>1, <2>3, Zenon
  <2> QED
    BY <1>1, <2>4 DEF PlanGood, KeptMarks, AskedFor, EvidenceFirst
<1> QED
    BY <1>2, <1>3

-----------------------------------------------------------------------------
(* Reasoning.  Every step keeps the invariant.                             *)

\* What concerns only the subject, the plan and the conclusion stays while they do.
LEMMA ConclusionKept ==
    ASSUME ReasonInv, UNCHANGED <<subject, stage, draft, planSnap, results, out, echoed>>, stage # "done"
    PROVE  /\ RsOpen' /\ KeptMarks(draft', planSnap') /\ MarksMeanTheSame' /\ CautiousWhenBlind'
           /\ HintEarned' /\ GenericOnlyIfAsked' /\ DiskEvidenceFirst'
    BY DEF ReasonInv, RsOpen, KeptMarks, MarksMeanTheSame, CautiousWhenBlind, HintEarned,
           GenericOnlyIfAsked, DiskEvidenceFirst, ExplicitlyAllowed, Generic, NoOutput

\* A request carries nothing of the context that the rules of its phase mask.
LEMMA AskKeeps ==
    ASSUME ReasonInv, Ask, asking \in {"primary", "assist"}, UNCHANGED <<subject, snap>>
    PROVE  MaskedAsConfigured' /\ RawOnlyToDetector' /\ InTurn(asked', snap)
<1> DEFINE new == [by |-> asking, model |-> AskedModel, rules |-> snap.rules,
                   sent |-> Desensitize(snap.rules, snap.found), prompt |-> PromptNames]
<1>1. asked' = asked \cup {new}
    BY DEF Ask
<1>2. /\ new.rules = snap.rules /\ new.sent = Desensitize(snap.rules, snap.found)
      /\ new.by = asking /\ new.model = AskedModel /\ new.prompt = PromptNames
    OBVIOUS
<1>3. snap.rules.enabled =>
        /\ \A v \in new.sent.raw : v # subject.host /\ KindOf(v) \notin snap.rules.inline
        /\ "assignment" \notin new.sent.secrets
  <2> HAVE snap.rules.enabled
  <2>1. Masked(snap.rules, snap.found)
            = {subject.host} \cup {v \in subject.mentions : snap.found \/ KindOf(v) \in snap.rules.inline}
    BY DEF Masked
  <2>2. /\ new.sent.raw = ({subject.host} \cup subject.mentions) \ Masked(snap.rules, snap.found)
        /\ new.sent.secrets = IF snap.found THEN {} ELSE subject.secrets \ {"assignment"}
    BY DEF Desensitize, RawContext
  <2> HIDE DEF new
  <2> QED
    BY <2>1, <2>2
<1>4. AskedModel # NoModel /\ AskedModel = IF asking = "primary" THEN snap.primary ELSE snap.assist
    BY DEF AskedModel, ReasonInv, RsAsked
<1>5. new.prompt \subseteq subject.rolePrompt \cup subject.offers
    BY <1>2 DEF PromptNames
<1> HIDE DEF new
<1>6. \A v \in new.prompt \ (subject.rolePrompt \cup subject.offers) : FALSE
    BY <1>5
<1>7. MaskedAsConfigured'
    BY <1>1, <1>2, <1>3, <1>6 DEF ReasonInv, MaskedAsConfigured
<1>8. RawOnlyToDetector'
    BY <1>1, <1>2 DEF ReasonInv, RawOnlyToDetector
<1>9. InTurn(asked', snap)
    BY <1>1, <1>2, <1>4 DEF ReasonInv, RsAsked, InTurn
<1> QED
    BY <1>7, <1>8, <1>9

\* Masking gives out marks that fit, and the runtimes are distinct.
LEMMA MaskAndChooseFacts ==
    ASSUME ReasonInv, NEW r, NEW found, MaskAndChoose(r, found)
    PROVE  /\ MarksFit(snap'.marks) /\ snap'.rules = r
           /\ asking' \in {"primary", "assist", "heuristic"}
           /\ snap'.primary \in Models \cup {NoModel} /\ snap'.assist \in Models \cup {NoModel}
           /\ snap'.primary # NoModel => snap'.assist # snap'.primary
           /\ asking' = "primary" => snap'.primary # NoModel
           /\ asking' = "assist" => snap'.assist # NoModel
<1>1. PICK marks \in Numberings(Masked(r, found)) :
        /\ snap' = [rules |-> r, marks |-> marks, found |-> found,
                    primary |-> RuntimesForInput.primary, assist |-> RuntimesForInput.assist]
        /\ asking' = FirstAsked(snap')
    BY DEF MaskAndChoose
<1>2. /\ snap'.marks = marks /\ snap'.rules = r
      /\ snap'.primary = RuntimesForInput.primary /\ snap'.assist = RuntimesForInput.assist
    BY <1>1
<1>3. subject \in Contexts /\ registry \in Bindings
    BY DEF ReasonInv, ReasoningTypeOK
<1>4. MarksFit(snap'.marks)
    BY <1>2, <1>3, NumberingFits
<1>5. asking' = IF snap'.primary # NoModel THEN "primary" ELSE IF snap'.assist # NoModel THEN "assist" ELSE "heuristic"
    BY <1>1 DEF FirstAsked
<1> QED
    BY <1>2, <1>3, <1>4, <1>5, RuntimeFacts

\* A phase takes the rules, and asks the detector first where they say so.
LEMMA BeginPhaseKeeps ==
    ASSUME ReasonInv, BeginPhase
    PROVE  ReasonInv'
<1>1. /\ asked' = {} /\ stage \in {"plan", "final"}
      /\ UNCHANGED <<rules, registry, subject, binding, stage, draft, planSnap, results, out, reasonEdits, echoed>>
    BY DEF BeginPhase
<1>2. InTurn(asked', snap') /\ MaskedAsConfigured' /\ RawOnlyToDetector'
    BY <1>1 DEF InTurn, MaskedAsConfigured, RawOnlyToDetector
<1>3. ReasoningTypeOK' /\ RsAsked' /\ RsShape'
  <2>1. CASE Detects(rules) /\ snap' = [NoSnap EXCEPT !.rules = rules] /\ asking' = "detector"
    <3>1. /\ snap'.rules = rules /\ snap'.primary = NoModel /\ snap'.assist = NoModel /\ snap'.marks = <<>>
        BY <2>1 DEF NoSnap
    <3>2. MarksFit(snap'.marks)
        BY <3>1 DEF MarksFit
    <3>3. ReasoningTypeOK'
        BY <1>1, <2>1, <3>1 DEF ReasonInv, ReasoningTypeOK
    <3>4. RsAsked'
        BY <1>1, <1>2, <2>1, <3>1 DEF RsAsked, Detects
    <3>5. RsShape'
        BY <1>1, <3>2 DEF ReasonInv, RsShape
    <3> QED
        BY <3>3, <3>4, <3>5
  <2>2. CASE MaskAndChoose(rules, FALSE)
    <3>1. ReasoningTypeOK'
        BY <1>1, <2>2, MaskAndChooseFacts DEF ReasonInv, ReasoningTypeOK
    <3>2. RsAsked'
        BY <1>2, <2>2, MaskAndChooseFacts DEF RsAsked
    <3>3. RsShape'
        BY <1>1, <2>2, MaskAndChooseFacts DEF ReasonInv, RsShape
    <3> QED
        BY <3>1, <3>2, <3>3
  <2> QED
    BY <2>1, <2>2 DEF BeginPhase
<1> QED
    BY <1>1, <1>2, <1>3, ConclusionKept DEF ReasonInv

\* The detector is asked with the rules of the phase that enabled it.
LEMMA DetectKeeps ==
    ASSUME ReasonInv, DetectSensitiveValues
    PROVE  ReasonInv'
<1>1. /\ asking = "detector"
      /\ UNCHANGED <<rules, registry, subject, binding, stage, draft, planSnap, results, out, reasonEdits, echoed>>
    BY DEF DetectSensitiveValues
<1>2. asked = {} /\ snap.rules.detect
    BY <1>1 DEF ReasonInv, RsAsked
<1>3. \A a \in asked' : a.by = "detector" /\ a.rules = snap.rules
  <2>1. \/ asked' = asked
        \/ \E model : asked' = asked \cup {[by |-> asking, model |-> model, rules |-> snap.rules,
                                            sent |-> RawContext, prompt |-> {}]}
    BY Zenon DEF DetectSensitiveValues
  <2> QED
    BY <1>1, <1>2, <2>1
<1>4. InTurn(asked', snap') /\ MaskedAsConfigured' /\ RawOnlyToDetector'
    BY <1>2, <1>3 DEF InTurn, MaskedAsConfigured, RawOnlyToDetector
<1>5. \E found \in BOOLEAN : MaskAndChoose(snap.rules, found)
    BY DEF DetectSensitiveValues
<1>6. PICK found \in BOOLEAN : MaskAndChoose(snap.rules, found)
    BY <1>5
<1>7. ReasoningTypeOK'
    BY <1>1, <1>6, MaskAndChooseFacts DEF ReasonInv, ReasoningTypeOK
<1>8. RsAsked'
    BY <1>4, <1>6, MaskAndChooseFacts DEF RsAsked
<1>9. RsShape'
    BY <1>1, <1>6, MaskAndChooseFacts DEF ReasonInv, RsShape
<1>10. stage # "done"
    BY <1>1 DEF ReasonInv, RsAsked
<1> QED
    BY <1>1, <1>4, <1>7, <1>8, <1>9, <1>10, ConclusionKept DEF ReasonInv

LEMMA ModelFailsKeeps ==
    ASSUME ReasonInv, ModelFails
    PROVE  ReasonInv'
<1>1. /\ asking \in {"primary", "assist"} /\ Ask
      /\ asking' = IF asking = "primary" /\ snap.assist # NoModel THEN "assist" ELSE "heuristic"
      /\ UNCHANGED <<rules, registry, subject, binding, stage, snap, draft, planSnap, results, out, reasonEdits, echoed>>
    BY DEF ModelFails
<1>2. ReasoningTypeOK' /\ RsShape'
    BY <1>1 DEF ReasonInv, ReasoningTypeOK, RsShape
<1>3. RsAsked' /\ MaskedAsConfigured' /\ RawOnlyToDetector'
    BY <1>1, AskKeeps DEF ReasonInv, RsAsked
<1>4. /\ RsOpen' /\ KeptMarks(draft', planSnap') /\ MarksMeanTheSame' /\ CautiousWhenBlind'
      /\ HintEarned' /\ GenericOnlyIfAsked' /\ DiskEvidenceFirst'
    BY <1>1 DEF ReasonInv, RsOpen, KeptMarks, MarksMeanTheSame, CautiousWhenBlind, HintEarned,
           GenericOnlyIfAsked, DiskEvidenceFirst, ExplicitlyAllowed
<1> QED
    BY <1>2, <1>3, <1>4 DEF ReasonInv

\* The planning phase ends with a good plan.
LEMMA EndPlanningKeeps ==
    ASSUME ReasonInv, stage = "plan", NEW steps, PlanGood(steps, snap), EndPlanning(steps),
           MaskedAsConfigured', RawOnlyToDetector', InTurn(asked', snap)
    PROVE  ReasonInv'
<1>1. /\ draft' = steps /\ planSnap' = [rules |-> snap.rules, marks |-> snap.marks]
      /\ stage' = "tools" /\ asking' = "nobody"
      /\ UNCHANGED <<rules, registry, subject, binding, snap, results, out, reasonEdits, echoed>>
    BY DEF EndPlanning
<1>2. planSnap'.rules = snap.rules /\ planSnap'.marks = snap.marks
    BY <1>1
<1>3. ReasoningTypeOK' /\ RsShape'
    BY <1>1, <1>2 DEF ReasonInv, ReasoningTypeOK, RsShape
<1>4. RsAsked'
    BY <1>1 DEF ReasonInv, RsAsked
<1>5. RsOpen' /\ MarksMeanTheSame' /\ CautiousWhenBlind'
    BY <1>1 DEF ReasonInv, RsOpen, MarksMeanTheSame, CautiousWhenBlind
<1>6. HintEarned'
    BY <1>1 DEF ReasonInv, HintEarned, ExplicitlyAllowed
<1>7. KeptMarks(draft', planSnap')
    BY <1>1, <1>2 DEF PlanGood, KeptMarks
<1>8. GenericOnlyIfAsked'
    BY <1>1, <1>2 DEF PlanGood, GenericOnlyIfAsked, AskedFor, ExplicitlyAllowed
<1>9. DiskEvidenceFirst'
    BY <1>1 DEF PlanGood, DiskEvidenceFirst, EvidenceFirst
<1> QED
    BY <1>3, <1>4, <1>5, <1>6, <1>7, <1>8, <1>9 DEF ReasonInv

LEMMA PlanAnsweredKeeps ==
    ASSUME ReasonInv, PlanAnswered
    PROVE  ReasonInv'
<1>1. PICK entries \in PlannerAnswers :
        LET steps == RehydrateToolPlan(NormalizePlannerToolPlan(entries)) IN
        EndPlanning(IF steps = <<>> THEN FallbackDiagnosisPlan ELSE steps)
    BY DEF PlanAnswered
<1> DEFINE answered == RehydrateToolPlan(NormalizePlannerToolPlan(entries))
           chosen == IF answered = <<>> THEN FallbackDiagnosisPlan ELSE answered
<1>2. subject \in Contexts /\ MarksFit(snap.marks)
    BY DEF ReasonInv, ReasoningTypeOK, RsShape
<1>3. PlanGood(answered, snap) /\ PlanGood(FallbackDiagnosisPlan, snap)
    BY <1>2, AnsweredPlan, FallbackPlan
<1>4. EndPlanning(chosen)
    BY <1>1
<1> HIDE DEF answered
<1>5. PlanGood(chosen, snap)
    BY <1>3
<1> HIDE DEF chosen
<1>6. stage = "plan" /\ asking \in {"primary", "assist"} /\ Ask /\ UNCHANGED <<subject, snap>>
    BY <1>4 DEF PlanAnswered, EndPlanning
<1> QED
    BY <1>4, <1>5, <1>6, AskKeeps, EndPlanningKeeps

LEMMA PlanByHeuristicKeeps ==
    ASSUME ReasonInv, PlanByHeuristic
    PROVE  ReasonInv'
<1>1. subject \in Contexts /\ MarksFit(snap.marks)
    BY DEF ReasonInv, ReasoningTypeOK, RsShape
<1>2. PlanGood(FallbackDiagnosisPlan, snap)
    BY <1>1, FallbackPlan
<1>3. stage = "plan" /\ EndPlanning(FallbackDiagnosisPlan) /\ UNCHANGED asked
    BY DEF PlanByHeuristic
<1>4. UNCHANGED <<subject, snap>>
    BY <1>3 DEF EndPlanning
<1>5. MaskedAsConfigured' /\ RawOnlyToDetector'
    BY <1>3, <1>4 DEF ReasonInv, MaskedAsConfigured, RawOnlyToDetector
<1>6. InTurn(asked', snap)
    BY <1>3 DEF ReasonInv, RsAsked
<1> QED
    BY <1>2, <1>3, <1>5, <1>6, EndPlanningKeeps

LEMMA RunToolsKeeps ==
    ASSUME ReasonInv, RunTools
    PROVE  ReasonInv'
<1>1. /\ stage = "tools" /\ stage' = "final" /\ asking' = "nobody"
      /\ UNCHANGED <<rules, registry, subject, binding, snap, draft, planSnap, out, reasonEdits, asked, echoed>>
    BY DEF RunTools
<1>2. results' \in [failed : BOOLEAN, evidence : BOOLEAN]
    BY DEF RunTools
<1>3. ReasoningTypeOK' /\ RsShape'
    BY <1>1, <1>2 DEF ReasonInv, ReasoningTypeOK, RsShape
<1>4. RsAsked' /\ MaskedAsConfigured' /\ RawOnlyToDetector'
    BY <1>1 DEF ReasonInv, RsAsked, InTurn, MaskedAsConfigured, RawOnlyToDetector
<1>5. RsOpen' /\ MarksMeanTheSame' /\ CautiousWhenBlind' /\ KeptMarks(draft', planSnap')
    BY <1>1 DEF ReasonInv, RsOpen, MarksMeanTheSame, CautiousWhenBlind, KeptMarks
<1>6. HintEarned'
    BY <1>1 DEF ReasonInv, RsOpen, NoOutput, HintEarned
<1>7. GenericOnlyIfAsked' /\ DiskEvidenceFirst'
    BY <1>1 DEF ReasonInv, GenericOnlyIfAsked, DiskEvidenceFirst, ExplicitlyAllowed
<1> QED
    BY <1>3, <1>4, <1>5, <1>6, <1>7 DEF ReasonInv

\* A mark of the plan that the conclusion names: its rules did not let it back when
\* the plan was made, so with the same rules they do not now, whichever value has it.
LEMMA EchoMeans ==
    ASSUME ReasonInv, NEW x, PlanMeaning(x) # Nothing, snap.rules = planSnap.rules
    PROVE  Rehydrate(x, snap) \in Marks
<1>1. PICK i \in DOMAIN draft : draft[i].arg = x
    BY Zenon DEF PlanMeaning
<1>2. PICK v \in DOMAIN planSnap.marks : planSnap.marks[v] = x
    BY Zenon DEF PlanMeaning
<1>3. KindOf(v) \notin planSnap.rules.back
    BY <1>1, <1>2 DEF ReasonInv, KeptMarks
<1>4. MarksFit(snap.marks) /\ MarksFit(planSnap.marks)
    BY DEF ReasonInv, RsShape
<1>5. x \in Marks
    BY <1>2, <1>4 DEF MarksFit, Marks, KindOf
<1>6. \A w \in DOMAIN snap.marks : snap.marks[w] = x => KindOf(w) \notin snap.rules.back
    BY <1>2, <1>3, <1>4, OneKind
<1>7. Rehydrate(x, snap) = x
    BY <1>6, Zenon DEF Rehydrate
<1> QED
    BY <1>5, <1>7

LEMMA FinalAnsweredKeeps ==
    ASSUME ReasonInv, FinalAnswered
    PROVE  ReasonInv'
<1>1. /\ stage = "final" /\ asking \in {"primary", "assist"} /\ Ask
      /\ stage' = "done" /\ asking' = "nobody"
      /\ UNCHANGED <<rules, registry, subject, binding, snap, draft, planSnap, results, reasonEdits>>
    BY DEF FinalAnswered
<1>2. PICK answer \in FinalAnswers :
        LET arg == IF answer.hint = "cat" THEN Rehydrate(PathMarks[1], snap) ELSE Nothing IN
        /\ out' = [summary |-> SummaryOrFallback(NormalizeFinalSummary(answer.summary)),
                   names |-> Rehydrate(answer.names, snap),
                   hint |-> SanitizeExecutionHint(answer.hint, arg), arg |-> arg]
        /\ echoed' = PlanMeaning(answer.names)
    BY DEF FinalAnswered
<1> DEFINE arg == IF answer.hint = "cat" THEN Rehydrate(PathMarks[1], snap) ELSE Nothing
<1>3. /\ out'.summary = SummaryOrFallback(NormalizeFinalSummary(answer.summary))
      /\ out'.names = Rehydrate(answer.names, snap)
      /\ out'.hint = SanitizeExecutionHint(answer.hint, arg) /\ out'.arg = arg
    BY <1>2
<1> HIDE DEF arg
<1>4. answer.summary \in {"blank", "finding", "unrelated"}
    BY ReasoningAssumption
<1>5. /\ out'.summary \in {"finding", "unrelated", "cautious", "evidence", "analysed"}
      /\ out'.summary = "unrelated" => ~results.failed
    BY <1>3, <1>4 DEF SummaryOrFallback, NormalizeFinalSummary, FallbackSummary
<1>6. ReasoningTypeOK' /\ RsShape' /\ CautiousWhenBlind'
    BY <1>1, <1>5 DEF ReasonInv, ReasoningTypeOK, RsShape, CautiousWhenBlind
<1>7. RsAsked' /\ MaskedAsConfigured' /\ RawOnlyToDetector'
    BY <1>1, AskKeeps DEF ReasonInv, RsAsked
<1>8. MarksMeanTheSame'
    BY <1>1, <1>2, <1>3, EchoMeans DEF MarksMeanTheSame
<1>9. HintEarned'
    BY <1>1, <1>3 DEF HintEarned, SanitizeExecutionHint, ExplicitlyAllowed, Generic
<1>10. RsOpen' /\ KeptMarks(draft', planSnap') /\ GenericOnlyIfAsked' /\ DiskEvidenceFirst'
    BY <1>1 DEF ReasonInv, RsOpen, KeptMarks, GenericOnlyIfAsked, DiskEvidenceFirst, ExplicitlyAllowed
<1> QED
    BY <1>6, <1>7, <1>8, <1>9, <1>10 DEF ReasonInv

LEMMA FinalByHeuristicKeeps ==
    ASSUME ReasonInv, FinalByHeuristic
    PROVE  ReasonInv'
<1>1. /\ stage = "final" /\ stage' = "done" /\ asking' = "nobody"
      /\ UNCHANGED <<rules, registry, subject, binding, snap, draft, planSnap, results, reasonEdits, asked, echoed>>
    BY DEF FinalByHeuristic
<1>2. /\ out'.summary = FallbackSummary /\ out'.names = Nothing
      /\ out'.hint = IF LocalFallback /\ subject.direct THEN "restart" ELSE "none"
    BY DEF FinalByHeuristic, NoOutput
<1>3. out'.summary \in {"evidence", "analysed"}
    BY <1>2 DEF FallbackSummary
<1>4. ReasoningTypeOK' /\ RsShape' /\ CautiousWhenBlind'
    BY <1>1, <1>3 DEF ReasonInv, ReasoningTypeOK, RsShape, CautiousWhenBlind
<1>5. RsAsked' /\ MaskedAsConfigured' /\ RawOnlyToDetector'
    BY <1>1 DEF ReasonInv, RsAsked, InTurn, MaskedAsConfigured, RawOnlyToDetector
<1>6. MarksMeanTheSame' /\ RsOpen'
    BY <1>1 DEF ReasonInv, RsOpen, MarksMeanTheSame
<1>7. HintEarned'
    BY <1>1, <1>2 DEF HintEarned, ExplicitlyAllowed
<1>8. KeptMarks(draft', planSnap') /\ GenericOnlyIfAsked' /\ DiskEvidenceFirst'
    BY <1>1 DEF ReasonInv, KeptMarks, GenericOnlyIfAsked, DiskEvidenceFirst, ExplicitlyAllowed
<1> QED
    BY <1>4, <1>5, <1>6, <1>7, <1>8 DEF ReasonInv

LEMMA EditReasoningKeeps ==
    ASSUME ReasonInv, EditReasoning
    PROVE  ReasonInv'
<1>1. /\ stage # "done" /\ rules' \in MaskRules /\ registry' \in Bindings
      /\ reasonEdits' \in 0..MaxReasonEdits
      /\ UNCHANGED <<subject, binding, stage, asking, snap, draft, planSnap, results, out, asked, echoed>>
    BY ReasoningAssumption DEF EditReasoning, ReasonInv, ReasoningTypeOK
<1>2. ReasoningTypeOK' /\ RsShape' /\ RsAsked' /\ MaskedAsConfigured' /\ RawOnlyToDetector'
    BY <1>1 DEF ReasonInv, ReasoningTypeOK, RsShape, RsAsked, InTurn, MaskedAsConfigured, RawOnlyToDetector
<1> QED
    BY <1>1, <1>2, ConclusionKept DEF ReasonInv

LEMMA ReasonStutters ==
    ASSUME ReasonInv, UNCHANGED reasonVars
    PROVE  ReasonInv'
<1>1. UNCHANGED <<rules, registry, subject, binding, stage, asking, snap, draft, planSnap, results, out,
                  reasonEdits, asked, echoed>>
    BY DEF reasonVars
<1>2. ReasoningTypeOK' /\ RsShape' /\ RsAsked' /\ RsOpen' /\ MaskedAsConfigured' /\ RawOnlyToDetector'
    BY <1>1 DEF ReasonInv, ReasoningTypeOK, RsShape, RsAsked, InTurn, RsOpen, MaskedAsConfigured, RawOnlyToDetector
<1>3. KeptMarks(draft', planSnap') /\ MarksMeanTheSame' /\ CautiousWhenBlind' /\ HintEarned'
    BY <1>1 DEF ReasonInv, KeptMarks, MarksMeanTheSame, CautiousWhenBlind, HintEarned, ExplicitlyAllowed
<1>4. GenericOnlyIfAsked' /\ DiskEvidenceFirst'
    BY <1>1 DEF ReasonInv, GenericOnlyIfAsked, DiskEvidenceFirst, ExplicitlyAllowed
<1> QED
    BY <1>2, <1>3, <1>4 DEF ReasonInv

LEMMA ReasonInitial == ReasoningInit => ReasonInv
<1> HAVE ReasoningInit
<1>1. /\ rules \in MaskRules /\ registry \in Bindings /\ subject \in Contexts /\ binding \in RoleBindings
      /\ stage = "plan" /\ asking = "nobody" /\ snap = NoSnap /\ planSnap = NoMasks /\ draft = <<>>
      /\ results = [failed |-> FALSE, evidence |-> FALSE] /\ out = NoOutput
      /\ reasonEdits = 0 /\ asked = {} /\ echoed = Nothing
    BY DEF ReasoningInit
<1>2. snap.primary = NoModel /\ snap.assist = NoModel /\ snap.marks = <<>> /\ planSnap.marks = <<>>
    BY <1>1 DEF NoSnap, NoMasks
<1>3. out.summary = "blank" /\ out.hint = "none"
    BY <1>1 DEF NoOutput
<1>4. ReasoningTypeOK
    BY <1>1, <1>2, <1>3, ReasoningAssumption DEF ReasoningTypeOK
<1>5. RsShape /\ RsAsked /\ RsOpen /\ KeptMarks(draft, planSnap)
    BY <1>1, <1>2 DEF RsShape, RsAsked, InTurn, RsOpen, KeptMarks, MarksFit
<1>6. MaskedAsConfigured /\ RawOnlyToDetector /\ MarksMeanTheSame /\ CautiousWhenBlind /\ HintEarned
    BY <1>1, <1>3 DEF MaskedAsConfigured, RawOnlyToDetector, MarksMeanTheSame, CautiousWhenBlind, HintEarned
<1>7. GenericOnlyIfAsked /\ DiskEvidenceFirst
    BY <1>1 DEF GenericOnlyIfAsked, DiskEvidenceFirst
<1> QED
    BY <1>4, <1>5, <1>6, <1>7 DEF ReasonInv

\* What the models are sent of the context is masked by the rules of the phase, the raw
\* context goes only to the detector the rules enable, a failed model is not its own
\* failover, and what is made of the answers means what was asked, for any
\* context, rules, providers, answers, and edits between the phases.
THEOREM ReasoningCorrect == ReasoningSpec => []ReasoningSound
<1>1. ReasonInv /\ [ReasoningNext]_reasonVars => ReasonInv'
    BY BeginPhaseKeeps, DetectKeeps, ModelFailsKeeps, PlanAnsweredKeeps, PlanByHeuristicKeeps, RunToolsKeeps,
       FinalAnsweredKeeps, FinalByHeuristicKeeps, EditReasoningKeeps, ReasonStutters
    DEF ReasoningNext, ReasonStep
<1>2. ReasonInv => ReasoningSound
  <2>1. ReasonInv => NeverAskedTwice
    BY DEF ReasonInv, RsAsked, InTurn, NeverAskedTwice
  <2> QED
    BY <2>1 DEF ReasonInv, ReasoningSound
<1> QED
    BY ReasonInitial, <1>1, <1>2, PTL DEF ReasoningSpec

=============================================================================
