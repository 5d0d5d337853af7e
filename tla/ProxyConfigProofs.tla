-------------------------- MODULE ProxyConfigProofs --------------------------
(***************************************************************************)
(* Proofs about ProxyConfig.  The inductive invariant IInv has one part    *)
(* per idea, each kept by every command of every task (one lemma per part, *)
(* one case per command); the invariants of the module follow from it.     *)
(*                                                                         *)
(* Then proofs about UrltestPool, the other part of engine/nodes.py: for   *)
(* lists of any length, any buckets, any order of preference and any caps. *)
(***************************************************************************)
EXTENDS ProxyConfig, UrltestPool, FiniteSetTheorems, TLAPS

\* Changing a field of a task's job gives a job.
LEMMA JobEdit ==
  ASSUME TypeOK, NEW w \in Worker
  PROVE  /\ job[w] \in Job
         /\ \A s \in Section \cup {0} : [job EXCEPT ![w].sec = s] \in [Worker -> Job]
         /\ \A t \in SUBSET Node : [job EXCEPT ![w].todo = t] \in [Worker -> Job]
         /\ \A x \in {"idle", "restart", "noRules"} : [job EXCEPT ![w].next = x] \in [Worker -> Job]
         /\ \A j \in Job : [job EXCEPT ![w] = j] \in [Worker -> Job]
<1>1. job \in [Worker -> Job] /\ job[w] \in Job
  BY DEF TypeOK
<1>2. \A s \in Section \cup {0} : [job[w] EXCEPT !.sec = s] \in Job
  BY <1>1 DEF Job
<1>3. \A t \in SUBSET Node : [job[w] EXCEPT !.todo = t] \in Job
  BY <1>1 DEF Job
<1>4. \A x \in {"idle", "restart", "noRules"} : [job[w] EXCEPT !.next = x] \in Job
  BY <1>1 DEF Job
<1>5. QED
  BY <1>1, <1>2, <1>3, <1>4

\* The jobs tasks start with are jobs.
LEMMA JobMake ==
  /\ NoJob \in Job
  /\ \A src \in Source, n \in Target : [NoJob EXCEPT !.source = src, !.node = n] \in Job
  /\ \A s \in Section : [NoJob EXCEPT !.sec = s] \in Job
  /\ \A n \in Node : [NoJob EXCEPT !.node = n] \in Job
  /\ \A n \in Node \cup {"urltest"}, ns \in SUBSET Node :
       [NoJob EXCEPT !.node = n, !.todo = ns, !.next = "restart"] \in Job
  /\ [NoJob EXCEPT !.source = Refilter, !.node = "main-out"] \in Job
  BY ConfigAssumption DEF NoJob, Job, Target

\* `uci set` on a rule changes that rule and nothing else.
LEMMA RuleEdit ==
  ASSUME TypeOK, NEW w \in Worker, NEW r, SetRule(w, r), job[w].sec \in listed => r \in Rule
  PROVE  /\ rules' \in [Section -> Rule]
         /\ UNCHANGED <<nodes, main, pool, mode, listed, count>>
<1>1. UNCHANGED <<nodes, main, pool, mode, listed, count>>
  BY DEF SetRule, selection
<1>2. rules \in [Section -> Rule] /\ listed \subseteq Section
  BY DEF TypeOK
<1>3. CASE job[w].sec \in listed
  BY <1>1, <1>2, <1>3 DEF SetRule
<1>4. CASE job[w].sec \notin listed
  BY <1>1, <1>2, <1>4 DEF SetRule
<1>5. QED
  BY <1>1, <1>3, <1>4

\* The values add_rule sets are options of a rule.
LEMMA RuleOf ==
  ASSUME TypeOK, NEW w \in Worker, job[w].sec \in listed
  PROVE  /\ [rules[job[w].sec] EXCEPT !.source = job[w].source] \in Rule
         /\ [rules[job[w].sec] EXCEPT !.node = job[w].node] \in Rule
         /\ [rules[job[w].sec] EXCEPT !.enabled = TRUE] \in Rule
         /\ \A ns \in SUBSET Node : [rules[job[w].sec] EXCEPT !.pool = ns] \in Rule
<1>1. rules[job[w].sec] \in Rule /\ job[w] \in Job
  BY DEF TypeOK
<1>2. job[w].source \in Source \cup {None} /\ job[w].node \in Target \cup {None}
  BY <1>1 DEF Job
<1>3. [rules[job[w].sec] EXCEPT !.source = job[w].source] \in Rule
  BY <1>1, <1>2 DEF Rule
<1>4. [rules[job[w].sec] EXCEPT !.node = job[w].node] \in Rule
  BY <1>1, <1>2 DEF Rule
<1>5. [rules[job[w].sec] EXCEPT !.enabled = TRUE] \in Rule
  BY <1>1 DEF Rule
<1>6. \A ns \in SUBSET Node : [rules[job[w].sec] EXCEPT !.pool = ns] \in Rule
  BY <1>1 DEF Rule
<1>7. QED
  BY <1>3, <1>4, <1>5, <1>6

\* Deletions only: the rules come after the servers the file was written with,
\* and no number is beyond the last one given.
Numbered(ns, l, n) == l \subseteq (Cardinality(ns) + 1)..n
NumbersOK ==
  /\ nodes \subseteq saved.nodes
  /\ Cardinality(saved.nodes) <= count
  /\ Numbered(saved.nodes, listed, count)
  /\ Numbered(saved.nodes, saved.listed, Cardinality(saved.nodes) + Cardinality(saved.listed))

\* The sets that are counted are finite.
LEMMA Counted ==
  ASSUME TypeOK
  PROVE  /\ \A ns \in SUBSET Node : IsFiniteSet(ns) /\ Cardinality(ns) \in Nat
         /\ \A l \in SUBSET Section : IsFiniteSet(l) /\ Cardinality(l) \in Nat
         /\ saved.nodes \subseteq Node /\ saved.listed \subseteq Section
<1>1. IsFiniteSet(Node) /\ IsFiniteSet(Section)
  BY ConfigAssumption, FS_Interval DEF Section
<1>2. \A ns \in SUBSET Node : IsFiniteSet(ns) /\ Cardinality(ns) \in Nat
  BY <1>1, FS_Subset, FS_CardinalityType
<1>3. \A l \in SUBSET Section : IsFiniteSet(l) /\ Cardinality(l) \in Nat
  BY <1>1, FS_Subset, FS_CardinalityType
<1>4. QED
  BY <1>2, <1>3 DEF TypeOK

\* The commit gives a rule no higher number than it had, one after the servers.
LEMMA NumberDown ==
  ASSUME TypeOK, NumbersOK, NEW s \in listed
  PROVE  /\ Cardinality(nodes) \in Nat /\ Cardinality(listed) \in Nat
         /\ NewNumber(s) \in (Cardinality(nodes) + 1)..(Cardinality(nodes) + Cardinality(listed))
         /\ NewNumber(s) \in Section
<1> DEFINE below == {t \in listed : t <= s}
           first == Cardinality(saved.nodes) + 1
<1>1. listed \subseteq Section /\ nodes \subseteq Node /\ saved.nodes \subseteq Node
  BY Counted DEF TypeOK
<1>2. /\ IsFiniteSet(listed) /\ Cardinality(listed) \in Nat
      /\ IsFiniteSet(saved.nodes) /\ Cardinality(nodes) \in Nat /\ Cardinality(saved.nodes) \in Nat
  BY <1>1, Counted
<1>3. Cardinality(nodes) <= Cardinality(saved.nodes)
  BY <1>2, FS_Subset DEF NumbersOK
<1>4. s \in Nat /\ s <= MaxNumber /\ first <= s
  BY <1>1, <1>2, ConfigAssumption DEF Section, NumbersOK, Numbered, TypeOK
<1>5. IsFiniteSet(below) /\ Cardinality(below) \in Nat /\ Cardinality(below) <= Cardinality(listed)
  BY <1>2, FS_Subset, FS_CardinalityType
<1>6. Cardinality(below) # 0
  BY <1>4, <1>5, FS_EmptySet
<1>7. Cardinality(below) <= s - first + 1
  <2>1. first \in Int /\ s \in Int /\ first <= s
    BY <1>2, <1>4
  <2>2. listed \subseteq first..count /\ count \in Nat
    BY DEF NumbersOK, Numbered, TypeOK
  <2> HIDE DEF first
  <2>3. below \subseteq first..s
    <3>1. ASSUME NEW t \in listed, t <= s PROVE t \in first..s
      BY <2>1, <2>2, <3>1
    <3>2. QED
      BY <3>1
  <2>4. IsFiniteSet(first..s) /\ Cardinality(first..s) = s - first + 1
    BY <2>1, FS_Interval
  <2>5. QED
    BY <2>3, <2>4, FS_Subset
<1>8. NewNumber(s) = Cardinality(nodes) + Cardinality(below)
  BY DEF NewNumber, Rank
<1> HIDE DEF below
<1>9. QED
  BY <1>2, <1>3, <1>4, <1>5, <1>6, <1>7, <1>8, ConfigAssumption DEF Section

\* What the commit makes of the rules: those there were, under new names.
LEMMA Renumbered ==
  ASSUME TypeOK, NumbersOK, Renumber
  PROVE  /\ listed' \subseteq Section /\ rules' \in [Section -> Rule] /\ count' \in Nat
         /\ Numbered(nodes, listed', count')
         /\ \A n \in Section \ listed' : rules'[n] = NoRule
         /\ \A n \in listed' : \E s \in listed : NewNumber(s) = n /\ rules'[n] = rules[s]
         /\ (\A s \in listed : NewNumber(s) = s) =>
              listed' = listed /\ \A s \in listed : rules'[s] = rules[s]
<1>1. listed \subseteq Section /\ nodes \subseteq Node /\ rules \in [Section -> Rule] /\ NoRule \in Rule
  BY ConfigAssumption DEF TypeOK, NoRule, Rule
<1>2. /\ listed' = {NewNumber(s) : s \in listed}
      /\ count' = Cardinality(nodes) + Cardinality(listed)
  BY DEF Renumber
<1>3. Cardinality(nodes) \in Nat /\ Cardinality(listed) \in Nat
  BY <1>1, Counted
<1>4. listed' \subseteq Section /\ Numbered(nodes, listed', count')
  BY <1>2, NumberDown DEF Numbered
<1>5. \A n \in Section \ listed' : rules'[n] = NoRule
  BY <1>2 DEF Renumber
<1>6. \A n \in listed' : \E s \in listed : NewNumber(s) = n /\ rules'[n] = rules[s]
  <2> SUFFICES ASSUME NEW n \in listed'
               PROVE  \E s \in listed : NewNumber(s) = n /\ rules'[n] = rules[s]
    OBVIOUS
  <2> DEFINE t == CHOOSE s \in listed : NewNumber(s) = n
  <2>1. \E s \in listed : NewNumber(s) = n
    BY <1>2
  <2>2. t \in listed /\ NewNumber(t) = n
    BY <2>1
  <2>3. rules'[n] = rules[t]
    BY <1>4, <2>1 DEF Renumber
  <2>4. QED
    BY <2>2, <2>3
<1>7. rules' \in [Section -> Rule]
  <2>1. \A n \in Section : rules'[n] \in Rule
    BY <1>1, <1>5, <1>6
  <2>2. rules' = [n \in Section |-> rules'[n]]
    BY DEF Renumber
  <2>3. QED
    BY <2>1, <2>2
<1>8. ASSUME \A s \in listed : NewNumber(s) = s
      PROVE  listed' = listed /\ \A s \in listed : rules'[s] = rules[s]
  BY <1>2, <1>6, <1>8
<1>9. QED
  BY <1>2, <1>3, <1>4, <1>5, <1>6, <1>7, <1>8

\* The commit gives different rules different numbers: as many as there were.
LEMMA NewNames ==
  ASSUME TypeOK, NumbersOK, Renumber PROVE Cardinality(listed') = Cardinality(listed)
<1> DEFINE Below(s) == {t \in listed : t <= s}
<1>1. listed \subseteq Nat /\ IsFiniteSet(listed)
  BY Counted DEF TypeOK, Section
<1>2. \A s \in listed : IsFiniteSet(Below(s)) /\ Cardinality(Below(s)) \in Nat
  BY <1>1, FS_Subset, FS_CardinalityType
<1>3. ASSUME NEW s \in listed, NEW t \in listed, s < t PROVE NewNumber(s) # NewNumber(t)
  <2>1. Below(s) \subseteq Below(t) /\ t \in Below(t) /\ t \notin Below(s)
    <3>1. s \in Nat /\ t \in Nat
      BY <1>1
    <3>2. \A u \in listed : u \in Nat /\ (u <= s => u <= t)
      BY <1>1, <1>3, <3>1
    <3>3. t <= t /\ ~(t <= s)
      BY <1>3, <3>1
    <3>4. QED
      BY <3>2, <3>3
  <2>2. Cardinality(Below(s)) # Cardinality(Below(t))
    BY <1>2, <2>1, FS_Subset
  <2>3. Cardinality(nodes) \in Nat
    BY NumberDown
  <2>4. NewNumber(s) = Cardinality(nodes) + Cardinality(Below(s))
    BY DEF NewNumber, Rank
  <2>5. NewNumber(t) = Cardinality(nodes) + Cardinality(Below(t))
    BY DEF NewNumber, Rank
  <2> HIDE DEF Below
  <2>6. QED
    BY <1>2, <2>2, <2>3, <2>4, <2>5
<1>4. \A s, t \in listed : NewNumber(s) = NewNumber(t) => s = t
  BY <1>1, <1>3
<1>5. listed' = {NewNumber(s) : s \in listed}
  BY DEF Renumber
<1> DEFINE f == [s \in listed |-> NewNumber(s)]
<1>6. f \in Bijection(listed, listed')
  BY <1>4, <1>5 DEF Bijection, Injection, Surjection, IsInjective
<1>7. ExistsBijection(listed, listed')
  BY <1>6 DEF ExistsBijection
<1>8. QED
  BY <1>1, <1>7, FS_Bijection

\* A step that gives no number and deletes at most.
LEMMA NumbersFrame ==
  ASSUME NumbersOK, nodes' \subseteq nodes, listed' \subseteq listed, UNCHANGED <<count, saved>>
  PROVE  NumbersOK'
  BY DEF NumbersOK, Numbered

\* Starting a task keeps the types.
LEMMA StartType ==
  ASSUME TypeOK, NEW w \in Worker, NEW step \in Steps, NEW j \in Job, Start(w, step, j),
         raced' \in BOOLEAN
  PROVE  TypeOK'
<1>1. tasks' \in 0..MaxTasks
  BY ConfigAssumption DEF Start, TypeOK
<1>2. job' \in [Worker -> Job] /\ at' \in [Worker -> Steps]
  BY JobEdit DEF Start, Goto, TypeOK
<1>3. QED
  BY <1>1, <1>2 DEF Start, conf, TypeOK

\* Every step keeps the types: one case per command.
LEMMA TypeStep ==
  ASSUME TypeOK, NumbersOK, [Next]_vars PROVE TypeOK'
<1> USE DEF Steps, Reads, Open

<1>1. CASE UNCHANGED vars
  BY <1>1 DEF vars, conf, TypeOK
<1>2. ASSUME NEW w \in Worker, AddBinding(w) PROVE TypeOK'
  <2>1. PICK src \in Source, n \in Target :
          StartAdder(w, "seek", [NoJob EXCEPT !.source = src, !.node = n])
    BY <1>2 DEF AddBinding
  <2>2. QED
    BY <2>1, JobMake, StartType DEF StartAdder, TypeOK
<1>3. ASSUME NEW w \in Worker, RemoveBinding(w) PROVE TypeOK'
  <2>1. PICK s \in Section : Start(w, "removeRule", [NoJob EXCEPT !.sec = s])
    BY <1>3 DEF RemoveBinding
  <2>2. raced' \in BOOLEAN
    BY <1>3 DEF RemoveBinding, TypeOK
  <2>3. QED
    BY <2>1, <2>2, JobMake, StartType
<1>4. ASSUME NEW w \in Worker, OnMode(w) PROVE TypeOK'
  BY <1>4, JobMake, StartType DEF OnMode, TypeOK
<1>5. ASSUME NEW w \in Worker, QuickRefresh(w) PROVE TypeOK'
  BY <1>5, JobMake, StartType DEF QuickRefresh, StartAdder, TypeOK
<1>6. ASSUME NEW w \in Worker, ApplyMain(w) PROVE TypeOK'
  <2>1. PICK n \in Node \cup {"urltest"}, ns \in SUBSET Node :
          Start(w, "setMain", [NoJob EXCEPT !.node = n, !.todo = ns, !.next = "restart"])
    BY <1>6 DEF ApplyMain
  <2>2. raced' \in BOOLEAN
    BY <1>6 DEF ApplyMain, TypeOK
  <2>3. QED
    BY <2>1, <2>2, JobMake, StartType
<1>7. ASSUME NEW w \in Worker, DeleteNode(w) PROVE TypeOK'
  <2>1. PICK n \in Node : Start(w, "deleteNode", [NoJob EXCEPT !.node = n])
    BY <1>7 DEF DeleteNode
  <2>2. raced' \in BOOLEAN
    BY <1>7 DEF DeleteNode, TypeOK
  <2>3. QED
    BY <2>1, <2>2, JobMake, StartType
<1>8. ASSUME NEW w \in Worker, Seek(w) PROVE TypeOK'
  <2>1. CASE UNCHANGED job
    BY <1>8, <2>1 DEF Seek, SameService, history, Goto, conf, selection, book, TypeOK
  <2>2. CASE \E s \in Section : job' = [job EXCEPT ![w].sec = s]
    <3>1. PICK s \in Section : job' = [job EXCEPT ![w].sec = s]
      BY <2>2
    <3>2. job' \in [Worker -> Job]
      BY <3>1, JobEdit
    <3>3. QED
      BY <1>8, <3>2 DEF Seek, SameService, history, Goto, conf, selection, book, TypeOK
  <2>3. QED
    BY <1>8, <2>1, <2>2 DEF Seek, TypeOK
<1>9. ASSUME NEW w \in Worker, AddSection(w) PROVE TypeOK'
  <2>1. count \in Nat /\ count' = count + 1 /\ count + 1 \in Section
    BY <1>9, ConfigAssumption DEF AddSection, Section, TypeOK
  <2>2. job' \in [Worker -> Job]
    BY <1>9, <2>1, JobEdit DEF AddSection
  <2>3. QED
    BY <1>9, <2>1, <2>2 DEF AddSection, SameService, history, Goto, conf, selection, book, TypeOK
<1>10. ASSUME NEW w \in Worker, SetSource(w) PROVE TypeOK'
  <2>1. rules' \in [Section -> Rule] /\ UNCHANGED <<nodes, main, pool, mode, listed, count>>
    BY <1>10, RuleEdit, RuleOf DEF SetSource
  <2>2. QED
    BY <1>10, <2>1 DEF SetSource, SameService, history, Goto, TypeOK
<1>11. ASSUME NEW w \in Worker, SetNode(w) PROVE TypeOK'
  <2>1. rules' \in [Section -> Rule] /\ UNCHANGED <<nodes, main, pool, mode, listed, count>>
    BY <1>11, RuleEdit, RuleOf DEF SetNode
  <2>2. QED
    BY <1>11, <2>1 DEF SetNode, SameService, history, Goto, TypeOK
<1>12. ASSUME NEW w \in Worker, SetEnabled(w) PROVE TypeOK'
  <2>1. rules' \in [Section -> Rule] /\ UNCHANGED <<nodes, main, pool, mode, listed, count>>
    BY <1>12, RuleEdit, RuleOf DEF SetEnabled
  <2>2. QED
    BY <1>12, <2>1 DEF SetEnabled, SameService, history, Goto, TypeOK
<1>13. ASSUME NEW w \in Worker, EmptyRulePool(w) PROVE TypeOK'
  <2>1. rules' \in [Section -> Rule] /\ UNCHANGED <<nodes, main, pool, mode, listed, count>>
    BY <1>13, RuleEdit, RuleOf DEF EmptyRulePool
  <2>2. QED
    BY <1>13, <2>1 DEF EmptyRulePool, SameService, history, Goto, TypeOK
<1>14. ASSUME NEW w \in Worker, BuildRulePool(w) PROVE TypeOK'
  <2>1. job' \in [Worker -> Job]
    BY <1>14, JobEdit DEF BuildRulePool, TypeOK
  <2>2. QED
    BY <1>14, <2>1 DEF BuildRulePool, SameService, history, Goto, conf, selection, book, TypeOK
<1>15. ASSUME NEW w \in Worker, FillRulePool(w) PROVE TypeOK'
  <2>1. PICK n \in job[w].todo :
          /\ SetRule(w, [rules[job[w].sec] EXCEPT !.pool = rules[job[w].sec].pool \cup {n}])
          /\ job' = [job EXCEPT ![w].todo = job[w].todo \ {n}]
          /\ Goto(w, IF job[w].todo = {n} THEN "commit" ELSE "fillRule")
    BY <1>15 DEF FillRulePool
  <2>2. job[w].todo \subseteq Node /\ job[w].sec \in listed /\ rules[job[w].sec].pool \subseteq Node
    BY <1>15, JobEdit DEF FillRulePool, Job, TypeOK, Rule
  <2>3. rules' \in [Section -> Rule] /\ UNCHANGED <<nodes, main, pool, mode, listed, count>>
    BY <2>1, <2>2, RuleEdit, RuleOf
  <2>4. job' \in [Worker -> Job]
    BY <2>1, <2>2, JobEdit
  <2>5. QED
    BY <1>15, <2>1, <2>3, <2>4 DEF FillRulePool, SameService, history, Goto, TypeOK
<1>16. ASSUME NEW w \in Worker, RemoveRule(w) PROVE TypeOK'
  <2>1. rules' \in [Section -> Rule]
    BY <1>16, ConfigAssumption DEF RemoveRule, TypeOK, NoRule, Rule
  <2>2. job' \in [Worker -> Job]
    BY <1>16, JobEdit, JobMake DEF RemoveRule
  <2>3. QED
    BY <1>16, <2>1, <2>2 DEF RemoveRule, SameService, history, Goto, conf, selection, book, TypeOK
<1>17. ASSUME NEW w \in Worker, SetMode(w) PROVE TypeOK'
  BY <1>17 DEF SetMode, Migrate, TypeOK, Mode, SameService, history, Goto, conf, selection, book
<1>18. ASSUME NEW w \in Worker, ReadMode(w) PROVE TypeOK'
  BY <1>18 DEF ReadMode, SameService, history, Goto, conf, TypeOK
<1>19. ASSUME NEW w \in Worker, Migrate(w) PROVE TypeOK'
  BY <1>19 DEF SetMode, Migrate, TypeOK, Mode, SameService, history, Goto, conf, selection, book
<1>20. ASSUME NEW w \in Worker, SetDefault(w) PROVE TypeOK'
  <2>1. PICK x \in {"idle", "noRules"} : job' = [job EXCEPT ![w].next = x]
    BY <1>20 DEF SetDefault
  <2>2. job' \in [Worker -> Job]
    BY <2>1, JobEdit
  <2>3. QED
    BY <1>20, <2>2 DEF SetDefault, SameService, history, Goto, conf, selection, book, Mode, TypeOK
<1>21. ASSUME NEW w \in Worker, SeedRule(w) PROVE TypeOK'
  <2>1. \/ UNCHANGED job
        \/ job' = [job EXCEPT ![w] = [NoJob EXCEPT !.source = Refilter, !.node = "main-out"]]
    BY <1>21 DEF SeedRule
  <2>2. job' \in [Worker -> Job]
    BY <2>1, JobEdit, JobMake DEF TypeOK
  <2>3. QED
    BY <1>21, <2>2 DEF SeedRule, SameService, history, Goto, conf, selection, book, TypeOK
<1>22. ASSUME NEW w \in Worker, SetMain(w) PROVE TypeOK'
  <2>1. job[w].node \in Target \cup {None}
    BY JobEdit DEF Job
  <2>2. QED
    BY <1>22, <2>1 DEF SetMain, SameService, history, Goto, conf, selection, book, TypeOK
<1>23. ASSUME NEW w \in Worker, EmptyMainPool(w) PROVE TypeOK'
  BY <1>23 DEF EmptyMainPool, SameService, history, Goto, conf, selection, book, TypeOK
<1>24. ASSUME NEW w \in Worker, FillMainPool(w) PROVE TypeOK'
  <2>1. job[w].todo \subseteq Node
    BY JobEdit DEF Job
  <2>2. PICK n \in job[w].todo : job' = [job EXCEPT ![w].todo = job[w].todo \ {n}] /\ pool' = pool \cup {n}
    BY <1>24 DEF FillMainPool
  <2>3. job' \in [Worker -> Job] /\ pool' \subseteq Node
    BY <2>1, <2>2, JobEdit DEF TypeOK
  <2>4. QED
    BY <1>24, <2>3 DEF FillMainPool, SameService, history, Goto, conf, selection, book, TypeOK
<1>25. ASSUME NEW w \in Worker, Restart(w) PROVE TypeOK'
  BY <1>25 DEF Restart, history, Goto, conf, TypeOK
<1>26. ASSUME NEW w \in Worker, RemoveNode(w) PROVE TypeOK'
  BY <1>26 DEF RemoveNode, SameService, history, Goto, conf, selection, book, TypeOK
<1>27. ASSUME NEW w \in Worker, Unpool(w) PROVE TypeOK'
  BY <1>27 DEF Unpool, SameService, history, Goto, conf, selection, book, TypeOK
<1>28. ASSUME NEW w \in Worker, TestMain(w) PROVE TypeOK'
  BY <1>28 DEF TestMain, SameService, history, Goto, conf, TypeOK
<1>29. ASSUME NEW w \in Worker, UnsetMain(w) PROVE TypeOK'
  BY <1>29 DEF UnsetMain, SameService, history, Goto, conf, selection, book, TypeOK
<1>30. ASSUME NEW w \in Worker, Commit(w) PROVE TypeOK'
  <2>1. /\ listed' \subseteq Section /\ rules' \in [Section -> Rule] /\ count' \in Nat
        /\ UNCHANGED <<nodes, main, pool, mode>>
    BY <1>30, Renumbered DEF Commit, Renumber, selection
  <2>2. Config' \in [nodes : SUBSET Node, main : Target \cup {None}, pool : SUBSET Node,
                      mode : Mode, listed : SUBSET Section, rules : [Section -> Rule]]
    BY <2>1 DEF Config, TypeOK
  <2>3. job' \in [Worker -> Job] /\ at' \in [Worker -> Steps]
    <3>1. job[w].next \in Steps
      BY JobEdit DEF Job
    <3>2. CASE Goto(w, job[w].next) /\ job' = [job EXCEPT ![w] = NoJob]
      BY <3>1, <3>2, JobEdit, JobMake DEF Goto, TypeOK
    <3>3. CASE UNCHANGED <<at, job>>
      BY <3>3 DEF TypeOK
    <3>4. QED
      BY <1>30, <3>2, <3>3 DEF Commit
  <2>4. shifted' \in BOOLEAN
    BY <1>30 DEF Commit, Renames, TypeOK
  <2>5. UNCHANGED <<applied, tasks, failed, raced>> /\ torn' = FALSE /\ saved' = Config'
    BY <1>30 DEF Commit
  <2>6. QED
    BY <2>1, <2>2, <2>3, <2>4, <2>5 DEF TypeOK
<1>31. ASSUME NEW w \in Worker, Fail(w) PROVE TypeOK'
  <2>1. job' \in [Worker -> Job]
    BY <1>31, JobEdit, JobMake DEF Fail
  <2>2. QED
    BY <1>31, <2>1 DEF Fail, Goto, conf, TypeOK
<1>32. CASE Reboot
  <2>1. job' \in [Worker -> Job]
    BY <1>32, JobMake DEF Reboot
  <2>2. count' \in Nat
    BY <1>32, Counted DEF Reboot
  <2>3. QED
    BY <1>32, <2>1, <2>2 DEF Reboot, TypeOK
<1>33. QED
  BY <1>1, <1>2, <1>3, <1>4, <1>5, <1>6, <1>7, <1>8, <1>9, <1>10, <1>11, <1>12, <1>13, <1>14, <1>15, <1>16, <1>17, <1>18, <1>19, <1>20, <1>21, <1>22, <1>23, <1>24, <1>25, <1>26, <1>27, <1>28, <1>29, <1>30, <1>31, <1>32 DEF Next, Begin, AddRule, EnsureDefaults, SetMainNode, DeleteNodes

-----------------------------------------------------------------------------

\* Every step keeps the order of the numbers: a new section gets the next one,
\* the commit numbers from the first.
LEMMA NumbersStep ==
  ASSUME TypeOK, NumbersOK, [Next]_vars PROVE NumbersOK'
<1>1. CASE UNCHANGED vars
  BY <1>1, NumbersFrame DEF vars, conf
<1>2. ASSUME NEW w \in Worker, Begin(w) PROVE NumbersOK'
  <2>1. PICK step, j : Start(w, step, j)
    BY <1>2 DEF Begin, AddBinding, RemoveBinding, OnMode, QuickRefresh, ApplyMain, DeleteNode, StartAdder
  <2>2. QED
    BY <2>1, NumbersFrame DEF Start, conf
<1>3. ASSUME NEW w \in Worker, AddSection(w) PROVE NumbersOK'
  <2>1. /\ count \in Nat /\ count' = count + 1 /\ listed' = listed \cup {count + 1}
        /\ UNCHANGED <<nodes, saved>>
    BY <1>3 DEF AddSection, SameService, TypeOK
  <2>2. Cardinality(saved.nodes) \in Nat
    BY Counted
  <2>3. QED
    BY <2>1, <2>2 DEF NumbersOK, Numbered
<1>4. ASSUME NEW w \in Worker, AddRule(w), ~AddSection(w) PROVE NumbersOK'
  BY <1>4, NumbersFrame DEF AddRule, Seek, SetSource, SetNode, SetEnabled, EmptyRulePool,
    BuildRulePool, FillRulePool, SetRule, SameService, conf
<1>5. ASSUME NEW w \in Worker, RemoveRule(w) \/ SetMode(w) \/ EnsureDefaults(w) PROVE NumbersOK'
  BY <1>5, NumbersFrame DEF RemoveRule, SetMode, EnsureDefaults, ReadMode, Migrate, SetDefault,
    SeedRule, SameService, conf, book
<1>6. ASSUME NEW w \in Worker, SetMainNode(w) \/ DeleteNodes(w) PROVE NumbersOK'
  BY <1>6, NumbersFrame DEF SetMainNode, SetMain, EmptyMainPool, FillMainPool, Restart,
    DeleteNodes, RemoveNode, Unpool, TestMain, UnsetMain, SameService, conf, book
<1>7. ASSUME NEW w \in Worker, Commit(w) PROVE NumbersOK'
  <2>1. Renumber /\ saved' = Config'
    BY <1>7 DEF Commit
  <2>2. /\ nodes' = nodes /\ count' = Cardinality(nodes) + Cardinality(listed)
        /\ saved'.nodes = nodes' /\ saved'.listed = listed'
    BY <2>1 DEF Renumber, Config
  <2>3. Numbered(nodes, listed', count')
    BY <2>1, Renumbered
  <2>4. count' = Cardinality(nodes) + Cardinality(listed')
    BY <2>2, <2>1, NewNames
  <2>5. Cardinality(nodes) <= count'
    <3>1. nodes \subseteq Node /\ listed \subseteq Section
      BY DEF TypeOK
    <3>2. Cardinality(nodes) \in Nat /\ Cardinality(listed) \in Nat
      BY <3>1, Counted
    <3>3. QED
      BY <2>2, <3>2
  <2>6. QED
    BY <2>2, <2>3, <2>4, <2>5 DEF NumbersOK
<1>8. ASSUME NEW w \in Worker, Fail(w) PROVE NumbersOK'
  BY <1>8, NumbersFrame DEF Fail, conf
<1>9. CASE Reboot
  <2>1. Cardinality(saved.nodes) \in Nat /\ Cardinality(saved.listed) \in Nat
    BY Counted
  <2>2. QED
    BY <1>9, <2>1 DEF Reboot, NumbersOK
<1>10. QED
  BY <1>1, <1>2, <1>3, <1>4, <1>5, <1>6, <1>7, <1>8, <1>9 DEF Next

-----------------------------------------------------------------------------

\* What a task knows at each of its commands: only ensure_mode_defaults goes on to
\* add_rule after a commit; a choice of the main server ends in a restart and has a
\* pool to fill; a rule to add has a source and a node; a server to take out of the
\* pool is deleted already.
JobOK(w) ==
  /\ job[w].next = "noRules" => at[w] = "commit"
  /\ at[w] \in {"setMain", "emptyMain", "fillMain"} => job[w].next = "restart"
  /\ at[w] = "setMain" /\ job[w].node = "urltest" => job[w].todo # {}
  /\ at[w] \in {"emptyMain", "fillMain"} => job[w].todo # {}
  /\ at[w] \in {"seek", "add", "source", "node"} => job[w].source # None /\ job[w].node # None
  /\ at[w] = "deleteNode" => job[w].node \in Node
  /\ at[w] = "unpool" => job[w].node \in Node \ nodes
Jobs == \A w \in Worker : JobOK(w)

\* What a step of the task of w is to the jobs of the others.
LEMMA JobsFrame ==
  ASSUME Jobs, NEW w \in Worker, nodes' \subseteq nodes, JobOK(w)',
         \A v \in Worker \ {w} : at'[v] = at[v] /\ job'[v] = job[v]
  PROVE  Jobs'
  BY DEF Jobs, JobOK

\* Every step keeps what the tasks know.
LEMMA JobsStep ==
  ASSUME TypeOK, Jobs, [Next]_vars PROVE Jobs'
<1>0. at \in [Worker -> Steps] /\ job \in [Worker -> Job]
  BY DEF TypeOK
<1>1. CASE UNCHANGED vars
  BY <1>1 DEF vars, conf, Jobs, JobOK
<1>2. ASSUME NEW w \in Worker, AddBinding(w) PROVE Jobs'
  <2>1. JobOK(w)
    BY DEF Jobs
  <2>2. nodes' \subseteq nodes /\ \A v \in Worker \ {w} : at'[v] = at[v] /\ job'[v] = job[v]
    BY <1>2, <1>0 DEF AddBinding, StartAdder, Start, NoJob, Goto, conf
  <2>3. JobOK(w)'
    BY <1>2, <1>0, <2>1, ConfigAssumption DEF AddBinding, StartAdder, Start, NoJob, Goto, conf, JobOK, Job, NoJob, Target
  <2>4. QED
    BY <2>2, <2>3, JobsFrame
<1>3. ASSUME NEW w \in Worker, RemoveBinding(w) PROVE Jobs'
  <2>1. JobOK(w)
    BY DEF Jobs
  <2>2. nodes' \subseteq nodes /\ \A v \in Worker \ {w} : at'[v] = at[v] /\ job'[v] = job[v]
    BY <1>3, <1>0 DEF RemoveBinding, Start, NoJob, Goto, conf
  <2>3. JobOK(w)'
    BY <1>3, <1>0, <2>1, ConfigAssumption DEF RemoveBinding, Start, NoJob, Goto, conf, JobOK, Job, NoJob, Target
  <2>4. QED
    BY <2>2, <2>3, JobsFrame
<1>4. ASSUME NEW w \in Worker, OnMode(w) PROVE Jobs'
  <2>1. JobOK(w)
    BY DEF Jobs
  <2>2. nodes' \subseteq nodes /\ \A v \in Worker \ {w} : at'[v] = at[v] /\ job'[v] = job[v]
    BY <1>4, <1>0 DEF OnMode, Start, NoJob, Goto, conf
  <2>3. JobOK(w)'
    BY <1>4, <1>0, <2>1, ConfigAssumption DEF OnMode, Start, NoJob, Goto, conf, JobOK, Job, NoJob, Target
  <2>4. QED
    BY <2>2, <2>3, JobsFrame
<1>5. ASSUME NEW w \in Worker, QuickRefresh(w) PROVE Jobs'
  <2>1. JobOK(w)
    BY DEF Jobs
  <2>2. nodes' \subseteq nodes /\ \A v \in Worker \ {w} : at'[v] = at[v] /\ job'[v] = job[v]
    BY <1>5, <1>0 DEF QuickRefresh, StartAdder, Start, NoJob, Goto, conf
  <2>3. JobOK(w)'
    BY <1>5, <1>0, <2>1, ConfigAssumption DEF QuickRefresh, StartAdder, Start, NoJob, Goto, conf, JobOK, Job, NoJob, Target
  <2>4. QED
    BY <2>2, <2>3, JobsFrame
<1>6. ASSUME NEW w \in Worker, ApplyMain(w) PROVE Jobs'
  <2>1. JobOK(w)
    BY DEF Jobs
  <2>2. nodes' \subseteq nodes /\ \A v \in Worker \ {w} : at'[v] = at[v] /\ job'[v] = job[v]
    BY <1>6, <1>0 DEF ApplyMain, Start, NoJob, Goto, conf
  <2>3. JobOK(w)'
    BY <1>6, <1>0, <2>1, ConfigAssumption DEF ApplyMain, Start, NoJob, Goto, conf, JobOK, Job, NoJob, Target
  <2>4. QED
    BY <2>2, <2>3, JobsFrame
<1>7. ASSUME NEW w \in Worker, DeleteNode(w) PROVE Jobs'
  <2>1. JobOK(w)
    BY DEF Jobs
  <2>2. nodes' \subseteq nodes /\ \A v \in Worker \ {w} : at'[v] = at[v] /\ job'[v] = job[v]
    BY <1>7, <1>0 DEF DeleteNode, Start, NoJob, Goto, conf
  <2>3. JobOK(w)'
    BY <1>7, <1>0, <2>1, ConfigAssumption DEF DeleteNode, Start, NoJob, Goto, conf, JobOK, Job, NoJob, Target
  <2>4. QED
    BY <2>2, <2>3, JobsFrame
<1>8. ASSUME NEW w \in Worker, Seek(w) PROVE Jobs'
  <2>1. JobOK(w)
    BY DEF Jobs
  <2>2. nodes' \subseteq nodes /\ \A v \in Worker \ {w} : at'[v] = at[v] /\ job'[v] = job[v]
    BY <1>8, <1>0 DEF Seek, SameService, history, Goto, conf
  <2>3. JobOK(w)'
    BY <1>8, <1>0, <2>1, ConfigAssumption DEF Seek, SameService, history, Goto, conf, JobOK, Job, NoJob, Target
  <2>4. QED
    BY <2>2, <2>3, JobsFrame
<1>9. ASSUME NEW w \in Worker, AddSection(w) PROVE Jobs'
  <2>1. JobOK(w)
    BY DEF Jobs
  <2>2. nodes' \subseteq nodes /\ \A v \in Worker \ {w} : at'[v] = at[v] /\ job'[v] = job[v]
    BY <1>9, <1>0 DEF AddSection, SameService, history, Goto, conf, selection, book
  <2>3. JobOK(w)'
    BY <1>9, <1>0, <2>1, ConfigAssumption DEF AddSection, SameService, history, Goto, conf, selection, book, JobOK, Job, NoJob, Target
  <2>4. QED
    BY <2>2, <2>3, JobsFrame
<1>10. ASSUME NEW w \in Worker, SetSource(w) PROVE Jobs'
  <2>1. JobOK(w)
    BY DEF Jobs
  <2>2. nodes' \subseteq nodes /\ \A v \in Worker \ {w} : at'[v] = at[v] /\ job'[v] = job[v]
    BY <1>10, <1>0 DEF SetSource, SameService, history, SetRule, Goto, conf, selection, book
  <2>3. JobOK(w)'
    BY <1>10, <1>0, <2>1, ConfigAssumption DEF SetSource, SameService, history, SetRule, Goto, conf, selection, book, JobOK, Job, NoJob, Target
  <2>4. QED
    BY <2>2, <2>3, JobsFrame
<1>11. ASSUME NEW w \in Worker, SetNode(w) PROVE Jobs'
  <2>1. JobOK(w)
    BY DEF Jobs
  <2>2. nodes' \subseteq nodes /\ \A v \in Worker \ {w} : at'[v] = at[v] /\ job'[v] = job[v]
    BY <1>11, <1>0 DEF SetNode, SameService, history, SetRule, Goto, conf, selection, book
  <2>3. JobOK(w)'
    BY <1>11, <1>0, <2>1, ConfigAssumption DEF SetNode, SameService, history, SetRule, Goto, conf, selection, book, JobOK, Job, NoJob, Target
  <2>4. QED
    BY <2>2, <2>3, JobsFrame
<1>12. ASSUME NEW w \in Worker, SetEnabled(w) PROVE Jobs'
  <2>1. JobOK(w)
    BY DEF Jobs
  <2>2. nodes' \subseteq nodes /\ \A v \in Worker \ {w} : at'[v] = at[v] /\ job'[v] = job[v]
    BY <1>12, <1>0 DEF SetEnabled, SameService, history, SetRule, Goto, conf, selection, book
  <2>3. JobOK(w)'
    BY <1>12, <1>0, <2>1, ConfigAssumption DEF SetEnabled, SameService, history, SetRule, Goto, conf, selection, book, JobOK, Job, NoJob, Target
  <2>4. QED
    BY <2>2, <2>3, JobsFrame
<1>13. ASSUME NEW w \in Worker, EmptyRulePool(w) PROVE Jobs'
  <2>1. JobOK(w)
    BY DEF Jobs
  <2>2. nodes' \subseteq nodes /\ \A v \in Worker \ {w} : at'[v] = at[v] /\ job'[v] = job[v]
    BY <1>13, <1>0 DEF EmptyRulePool, SameService, history, SetRule, Goto, conf, selection, book
  <2>3. JobOK(w)'
    BY <1>13, <1>0, <2>1, ConfigAssumption DEF EmptyRulePool, SameService, history, SetRule, Goto, conf, selection, book, JobOK, Job, NoJob, Target
  <2>4. QED
    BY <2>2, <2>3, JobsFrame
<1>14. ASSUME NEW w \in Worker, BuildRulePool(w) PROVE Jobs'
  <2>1. JobOK(w)
    BY DEF Jobs
  <2>2. nodes' \subseteq nodes /\ \A v \in Worker \ {w} : at'[v] = at[v] /\ job'[v] = job[v]
    BY <1>14, <1>0 DEF BuildRulePool, SameService, history, Goto, conf
  <2>3. JobOK(w)'
    BY <1>14, <1>0, <2>1, ConfigAssumption DEF BuildRulePool, SameService, history, Goto, conf, JobOK, Job, NoJob, Target
  <2>4. QED
    BY <2>2, <2>3, JobsFrame
<1>15. ASSUME NEW w \in Worker, FillRulePool(w) PROVE Jobs'
  <2>1. JobOK(w)
    BY DEF Jobs
  <2>2. nodes' \subseteq nodes /\ \A v \in Worker \ {w} : at'[v] = at[v] /\ job'[v] = job[v]
    BY <1>15, <1>0 DEF FillRulePool, SameService, history, SetRule, Goto, conf, selection, book
  <2>3. JobOK(w)'
    BY <1>15, <1>0, <2>1, ConfigAssumption DEF FillRulePool, SameService, history, SetRule, Goto, conf, selection, book, JobOK, Job, NoJob, Target
  <2>4. QED
    BY <2>2, <2>3, JobsFrame
<1>16. ASSUME NEW w \in Worker, RemoveRule(w) PROVE Jobs'
  <2>1. JobOK(w)
    BY DEF Jobs
  <2>2. nodes' \subseteq nodes /\ \A v \in Worker \ {w} : at'[v] = at[v] /\ job'[v] = job[v]
    BY <1>16, <1>0 DEF RemoveRule, SameService, history, Goto, conf, selection, book
  <2>3. JobOK(w)'
    BY <1>16, <1>0, <2>1, ConfigAssumption DEF RemoveRule, SameService, history, Goto, conf, selection, book, JobOK, Job, NoJob, Target
  <2>4. QED
    BY <2>2, <2>3, JobsFrame
<1>17. ASSUME NEW w \in Worker, SetMode(w) PROVE Jobs'
  <2>1. JobOK(w)
    BY DEF Jobs
  <2>2. nodes' \subseteq nodes /\ \A v \in Worker \ {w} : at'[v] = at[v] /\ job'[v] = job[v]
    BY <1>17, <1>0 DEF SetMode, SameService, history, Goto, conf, selection, book
  <2>3. JobOK(w)'
    BY <1>17, <1>0, <2>1, ConfigAssumption DEF SetMode, SameService, history, Goto, conf, selection, book, JobOK, Job, NoJob, Target
  <2>4. QED
    BY <2>2, <2>3, JobsFrame
<1>18. ASSUME NEW w \in Worker, ReadMode(w) PROVE Jobs'
  <2>1. JobOK(w)
    BY DEF Jobs
  <2>2. nodes' \subseteq nodes /\ \A v \in Worker \ {w} : at'[v] = at[v] /\ job'[v] = job[v]
    BY <1>18, <1>0 DEF ReadMode, SameService, history, Goto, conf
  <2>3. JobOK(w)'
    BY <1>18, <1>0, <2>1, ConfigAssumption DEF ReadMode, SameService, history, Goto, conf, JobOK, Job, NoJob, Target
  <2>4. QED
    BY <2>2, <2>3, JobsFrame
<1>19. ASSUME NEW w \in Worker, Migrate(w) PROVE Jobs'
  <2>1. JobOK(w)
    BY DEF Jobs
  <2>2. nodes' \subseteq nodes /\ \A v \in Worker \ {w} : at'[v] = at[v] /\ job'[v] = job[v]
    BY <1>19, <1>0 DEF Migrate, SameService, history, Goto, conf, selection, book
  <2>3. JobOK(w)'
    BY <1>19, <1>0, <2>1, ConfigAssumption DEF Migrate, SameService, history, Goto, conf, selection, book, JobOK, Job, NoJob, Target
  <2>4. QED
    BY <2>2, <2>3, JobsFrame
<1>20. ASSUME NEW w \in Worker, SetDefault(w) PROVE Jobs'
  <2>1. JobOK(w)
    BY DEF Jobs
  <2>2. nodes' \subseteq nodes /\ \A v \in Worker \ {w} : at'[v] = at[v] /\ job'[v] = job[v]
    BY <1>20, <1>0 DEF SetDefault, SameService, history, Goto, conf, selection, book
  <2>3. JobOK(w)'
    BY <1>20, <1>0, <2>1, ConfigAssumption DEF SetDefault, SameService, history, Goto, conf, selection, book, JobOK, Job, NoJob, Target
  <2>4. QED
    BY <2>2, <2>3, JobsFrame
<1>21. ASSUME NEW w \in Worker, SeedRule(w) PROVE Jobs'
  <2>1. JobOK(w) /\ job[w] \in Job
    BY <1>0 DEF Jobs
  <2>2. nodes' \subseteq nodes /\ \A v \in Worker \ {w} : at'[v] = at[v] /\ job'[v] = job[v]
    BY <1>21, <1>0 DEF SeedRule, SameService, conf, Goto
  <2>3. CASE listed # {}
    BY <1>21, <1>0, <2>1, <2>3, <2>2, JobsFrame DEF SeedRule, Goto, conf, JobOK
  <2>4. CASE listed = {}
    <3>1. job'[w] = [NoJob EXCEPT !.source = Refilter, !.node = "main-out"] /\ at'[w] = "seek"
      BY <1>21, <1>0, <2>4 DEF SeedRule, Goto
    <3>2. job'[w].source = Refilter /\ job'[w].node = "main-out" /\ job'[w].next = "idle"
      BY <3>1 DEF NoJob
    <3>3. JobOK(w)'
      BY <3>1, <3>2, ConfigAssumption DEF JobOK
    <3>4. QED
      BY <2>2, <3>3, JobsFrame
  <2>5. QED
    BY <2>3, <2>4
<1>22. ASSUME NEW w \in Worker, SetMain(w) PROVE Jobs'
  <2>1. JobOK(w)
    BY DEF Jobs
  <2>2. nodes' \subseteq nodes /\ \A v \in Worker \ {w} : at'[v] = at[v] /\ job'[v] = job[v]
    BY <1>22, <1>0 DEF SetMain, SameService, history, Goto, conf, selection, book
  <2>3. JobOK(w)'
    BY <1>22, <1>0, <2>1, ConfigAssumption DEF SetMain, SameService, history, Goto, conf, selection, book, JobOK, Job, NoJob, Target
  <2>4. QED
    BY <2>2, <2>3, JobsFrame
<1>23. ASSUME NEW w \in Worker, EmptyMainPool(w) PROVE Jobs'
  <2>1. JobOK(w)
    BY DEF Jobs
  <2>2. nodes' \subseteq nodes /\ \A v \in Worker \ {w} : at'[v] = at[v] /\ job'[v] = job[v]
    BY <1>23, <1>0 DEF EmptyMainPool, SameService, history, Goto, conf, selection, book
  <2>3. JobOK(w)'
    BY <1>23, <1>0, <2>1, ConfigAssumption DEF EmptyMainPool, SameService, history, Goto, conf, selection, book, JobOK, Job, NoJob, Target
  <2>4. QED
    BY <2>2, <2>3, JobsFrame
<1>24. ASSUME NEW w \in Worker, FillMainPool(w) PROVE Jobs'
  <2>1. JobOK(w)
    BY DEF Jobs
  <2>2. nodes' \subseteq nodes /\ \A v \in Worker \ {w} : at'[v] = at[v] /\ job'[v] = job[v]
    BY <1>24, <1>0 DEF FillMainPool, SameService, history, Goto, conf, selection, book
  <2>3. JobOK(w)'
    BY <1>24, <1>0, <2>1, ConfigAssumption DEF FillMainPool, SameService, history, Goto, conf, selection, book, JobOK, Job, NoJob, Target
  <2>4. QED
    BY <2>2, <2>3, JobsFrame
<1>25. ASSUME NEW w \in Worker, Restart(w) PROVE Jobs'
  <2>1. JobOK(w)
    BY DEF Jobs
  <2>2. nodes' \subseteq nodes /\ \A v \in Worker \ {w} : at'[v] = at[v] /\ job'[v] = job[v]
    BY <1>25, <1>0 DEF Restart, history, Goto, conf
  <2>3. JobOK(w)'
    BY <1>25, <1>0, <2>1, ConfigAssumption DEF Restart, history, Goto, conf, JobOK, Job, NoJob, Target
  <2>4. QED
    BY <2>2, <2>3, JobsFrame
<1>26. ASSUME NEW w \in Worker, RemoveNode(w) PROVE Jobs'
  <2>1. JobOK(w)
    BY DEF Jobs
  <2>2. nodes' \subseteq nodes /\ \A v \in Worker \ {w} : at'[v] = at[v] /\ job'[v] = job[v]
    BY <1>26, <1>0 DEF RemoveNode, SameService, history, Goto, conf, selection, book
  <2>3. JobOK(w)'
    BY <1>26, <1>0, <2>1, ConfigAssumption DEF RemoveNode, SameService, history, Goto, conf, selection, book, JobOK, Job, NoJob, Target
  <2>4. QED
    BY <2>2, <2>3, JobsFrame
<1>27. ASSUME NEW w \in Worker, Unpool(w) PROVE Jobs'
  <2>1. JobOK(w)
    BY DEF Jobs
  <2>2. nodes' \subseteq nodes /\ \A v \in Worker \ {w} : at'[v] = at[v] /\ job'[v] = job[v]
    BY <1>27, <1>0 DEF Unpool, SameService, history, Goto, conf, selection, book
  <2>3. JobOK(w)'
    BY <1>27, <1>0, <2>1, ConfigAssumption DEF Unpool, SameService, history, Goto, conf, selection, book, JobOK, Job, NoJob, Target
  <2>4. QED
    BY <2>2, <2>3, JobsFrame
<1>28. ASSUME NEW w \in Worker, TestMain(w) PROVE Jobs'
  <2>1. JobOK(w)
    BY DEF Jobs
  <2>2. nodes' \subseteq nodes /\ \A v \in Worker \ {w} : at'[v] = at[v] /\ job'[v] = job[v]
    BY <1>28, <1>0 DEF TestMain, SameService, history, Goto, conf
  <2>3. JobOK(w)'
    BY <1>28, <1>0, <2>1, ConfigAssumption DEF TestMain, SameService, history, Goto, conf, JobOK, Job, NoJob, Target
  <2>4. QED
    BY <2>2, <2>3, JobsFrame
<1>29. ASSUME NEW w \in Worker, UnsetMain(w) PROVE Jobs'
  <2>1. JobOK(w)
    BY DEF Jobs
  <2>2. nodes' \subseteq nodes /\ \A v \in Worker \ {w} : at'[v] = at[v] /\ job'[v] = job[v]
    BY <1>29, <1>0 DEF UnsetMain, SameService, history, Goto, conf, selection, book
  <2>3. JobOK(w)'
    BY <1>29, <1>0, <2>1, ConfigAssumption DEF UnsetMain, SameService, history, Goto, conf, selection, book, JobOK, Job, NoJob, Target
  <2>4. QED
    BY <2>2, <2>3, JobsFrame
<1>30. ASSUME NEW w \in Worker, Commit(w) PROVE Jobs'
  <2>1. JobOK(w)
    BY DEF Jobs
  <2>2. nodes' \subseteq nodes /\ \A v \in Worker \ {w} : at'[v] = at[v] /\ job'[v] = job[v]
    BY <1>30, <1>0 DEF Commit, Renumber, selection, Goto, NoJob
  <2>3. JobOK(w)'
    BY <1>30, <1>0, <2>1, ConfigAssumption DEF Commit, Renumber, selection, Goto, NoJob, JobOK, Job, NoJob, Target
  <2>4. QED
    BY <2>2, <2>3, JobsFrame
<1>31. ASSUME NEW w \in Worker, Fail(w) PROVE Jobs'
  <2>1. JobOK(w)
    BY DEF Jobs
  <2>2. nodes' \subseteq nodes /\ \A v \in Worker \ {w} : at'[v] = at[v] /\ job'[v] = job[v]
    BY <1>31, <1>0 DEF Fail, Goto, conf, NoJob
  <2>3. JobOK(w)'
    BY <1>31, <1>0, <2>1, ConfigAssumption DEF Fail, Goto, conf, NoJob, JobOK, Job, NoJob, Target
  <2>4. QED
    BY <2>2, <2>3, JobsFrame
<1>32. CASE Reboot
  BY <1>32, <1>0 DEF Reboot, Jobs, JobOK, NoJob
<1>33. QED
  BY <1>1, <1>2, <1>3, <1>4, <1>5, <1>6, <1>7, <1>8, <1>9, <1>10, <1>11, <1>12, <1>13, <1>14, <1>15, <1>16, <1>17, <1>18, <1>19, <1>20, <1>21, <1>22, <1>23, <1>24, <1>25, <1>26, <1>27, <1>28, <1>29, <1>30, <1>31, <1>32 DEF Next, Begin, AddRule, EnsureDefaults, SetMainNode, DeleteNodes

-----------------------------------------------------------------------------

\* A change left staged is left by a failure.
Calm == torn => failed
Author == StagedHasAuthor /\ Calm

\* Every step keeps StagedHasAuthor: a command that stages is followed by others
\* of its task up to the commit, and a task that fails there leaves `torn`.
LEMMA AuthorStep ==
  ASSUME TypeOK, Author, [Next]_vars PROVE Author'
<1>0. at \in [Worker -> Steps] /\ job \in [Worker -> Job]
  BY DEF TypeOK
<1>1. CASE UNCHANGED vars
  BY <1>1 DEF vars, conf, Author, Calm, StagedHasAuthor, Config, Open
<1>2. ASSUME NEW w \in Worker, AddBinding(w) PROVE Author'
  BY <1>2, <1>0 DEF AddBinding, StartAdder, Start, NoJob, Goto, conf, Author, Calm, StagedHasAuthor, Config, Open
<1>3. ASSUME NEW w \in Worker, RemoveBinding(w) PROVE Author'
  BY <1>3, <1>0 DEF RemoveBinding, Start, NoJob, Goto, conf, Author, Calm, StagedHasAuthor, Config, Open
<1>4. ASSUME NEW w \in Worker, OnMode(w) PROVE Author'
  BY <1>4, <1>0 DEF OnMode, Start, NoJob, Goto, conf, Author, Calm, StagedHasAuthor, Config, Open
<1>5. ASSUME NEW w \in Worker, QuickRefresh(w) PROVE Author'
  BY <1>5, <1>0 DEF QuickRefresh, StartAdder, Start, NoJob, Goto, conf, Author, Calm, StagedHasAuthor, Config, Open
<1>6. ASSUME NEW w \in Worker, ApplyMain(w) PROVE Author'
  BY <1>6, <1>0 DEF ApplyMain, Start, NoJob, Goto, conf, Author, Calm, StagedHasAuthor, Config, Open
<1>7. ASSUME NEW w \in Worker, DeleteNode(w) PROVE Author'
  BY <1>7, <1>0 DEF DeleteNode, Start, NoJob, Goto, conf, Author, Calm, StagedHasAuthor, Config, Open
<1>8. ASSUME NEW w \in Worker, Seek(w) PROVE Author'
  BY <1>8, <1>0 DEF Seek, SameService, history, Goto, conf, Author, Calm, StagedHasAuthor, Config, Open
<1>9. ASSUME NEW w \in Worker, AddSection(w) PROVE Author'
  BY <1>9, <1>0 DEF AddSection, SameService, history, Goto, conf, selection, book, Author, Calm, StagedHasAuthor, Config, Open
<1>10. ASSUME NEW w \in Worker, SetSource(w) PROVE Author'
  BY <1>10, <1>0 DEF SetSource, SameService, history, SetRule, Goto, conf, selection, book, Author, Calm, StagedHasAuthor, Config, Open
<1>11. ASSUME NEW w \in Worker, SetNode(w) PROVE Author'
  BY <1>11, <1>0 DEF SetNode, SameService, history, SetRule, Goto, conf, selection, book, Author, Calm, StagedHasAuthor, Config, Open
<1>12. ASSUME NEW w \in Worker, SetEnabled(w) PROVE Author'
  BY <1>12, <1>0 DEF SetEnabled, SameService, history, SetRule, Goto, conf, selection, book, Author, Calm, StagedHasAuthor, Config, Open
<1>13. ASSUME NEW w \in Worker, EmptyRulePool(w) PROVE Author'
  BY <1>13, <1>0 DEF EmptyRulePool, SameService, history, SetRule, Goto, conf, selection, book, Author, Calm, StagedHasAuthor, Config, Open
<1>14. ASSUME NEW w \in Worker, BuildRulePool(w) PROVE Author'
  BY <1>14, <1>0 DEF BuildRulePool, SameService, history, Goto, conf, Author, Calm, StagedHasAuthor, Config, Open
<1>15. ASSUME NEW w \in Worker, FillRulePool(w) PROVE Author'
  BY <1>15, <1>0 DEF FillRulePool, SameService, history, SetRule, Goto, conf, selection, book, Author, Calm, StagedHasAuthor, Config, Open
<1>16. ASSUME NEW w \in Worker, RemoveRule(w) PROVE Author'
  BY <1>16, <1>0 DEF RemoveRule, SameService, history, Goto, conf, selection, book, Author, Calm, StagedHasAuthor, Config, Open
<1>17. ASSUME NEW w \in Worker, SetMode(w) PROVE Author'
  BY <1>17, <1>0 DEF SetMode, SameService, history, Goto, conf, selection, book, Author, Calm, StagedHasAuthor, Config, Open
<1>18. ASSUME NEW w \in Worker, ReadMode(w) PROVE Author'
  BY <1>18, <1>0 DEF ReadMode, SameService, history, Goto, conf, Author, Calm, StagedHasAuthor, Config, Open
<1>19. ASSUME NEW w \in Worker, Migrate(w) PROVE Author'
  BY <1>19, <1>0 DEF Migrate, SameService, history, Goto, conf, selection, book, Author, Calm, StagedHasAuthor, Config, Open
<1>20. ASSUME NEW w \in Worker, SetDefault(w) PROVE Author'
  BY <1>20, <1>0 DEF SetDefault, SameService, history, Goto, conf, selection, book, Author, Calm, StagedHasAuthor, Config, Open
<1>21. ASSUME NEW w \in Worker, SeedRule(w) PROVE Author'
  BY <1>21, <1>0 DEF SeedRule, SameService, history, Goto, conf, NoJob, Author, Calm, StagedHasAuthor, Config, Open
<1>22. ASSUME NEW w \in Worker, SetMain(w) PROVE Author'
  BY <1>22, <1>0 DEF SetMain, SameService, history, Goto, conf, selection, book, Author, Calm, StagedHasAuthor, Config, Open
<1>23. ASSUME NEW w \in Worker, EmptyMainPool(w) PROVE Author'
  BY <1>23, <1>0 DEF EmptyMainPool, SameService, history, Goto, conf, selection, book, Author, Calm, StagedHasAuthor, Config, Open
<1>24. ASSUME NEW w \in Worker, FillMainPool(w) PROVE Author'
  BY <1>24, <1>0 DEF FillMainPool, SameService, history, Goto, conf, selection, book, Author, Calm, StagedHasAuthor, Config, Open
<1>25. ASSUME NEW w \in Worker, Restart(w) PROVE Author'
  BY <1>25, <1>0 DEF Restart, history, Goto, conf, Author, Calm, StagedHasAuthor, Config, Open
<1>26. ASSUME NEW w \in Worker, RemoveNode(w) PROVE Author'
  BY <1>26, <1>0 DEF RemoveNode, SameService, history, Goto, conf, selection, book, Author, Calm, StagedHasAuthor, Config, Open
<1>27. ASSUME NEW w \in Worker, Unpool(w) PROVE Author'
  BY <1>27, <1>0 DEF Unpool, SameService, history, Goto, conf, selection, book, Author, Calm, StagedHasAuthor, Config, Open
<1>28. ASSUME NEW w \in Worker, TestMain(w) PROVE Author'
  BY <1>28, <1>0 DEF TestMain, SameService, history, Goto, conf, Author, Calm, StagedHasAuthor, Config, Open
<1>29. ASSUME NEW w \in Worker, UnsetMain(w) PROVE Author'
  BY <1>29, <1>0 DEF UnsetMain, SameService, history, Goto, conf, selection, book, Author, Calm, StagedHasAuthor, Config, Open
<1>30. ASSUME NEW w \in Worker, Commit(w) PROVE Author'
  BY <1>30, <1>0 DEF Commit, Renumber, selection, Goto, NoJob, Author, Calm, StagedHasAuthor, Config, Open
<1>31. ASSUME NEW w \in Worker, Fail(w) PROVE Author'
  BY <1>31, <1>0 DEF Fail, Goto, conf, NoJob, Author, Calm, StagedHasAuthor, Config, Open
<1>32. CASE Reboot
  <2>1. Config' = saved'
    BY <1>32 DEF Reboot, Config, TypeOK
  <2>2. QED
    BY <1>32, <2>1 DEF Reboot, Author, Calm, StagedHasAuthor
<1>33. QED
  BY <1>1, <1>2, <1>3, <1>4, <1>5, <1>6, <1>7, <1>8, <1>9, <1>10, <1>11, <1>12, <1>13, <1>14, <1>15, <1>16, <1>17, <1>18, <1>19, <1>20, <1>21, <1>22, <1>23, <1>24, <1>25, <1>26, <1>27, <1>28, <1>29, <1>30, <1>31, <1>32 DEF Next, Begin, AddRule, EnsureDefaults, SetMainNode, DeleteNodes

-----------------------------------------------------------------------------

\* A choice of the main server that is staged and will be followed by a restart.
Pending(w) == at[w] \in {"emptyMain", "fillMain", "commit"} /\ job[w].next = "restart"
\* The staged main server is the one running, or a restart is on its way.
AppliedInv == ~failed => main \in {applied, None} \/ \E w \in Worker : at[w] = "restart" \/ Pending(w)
\* The staged pool is empty only while a task fills it.
PoolInv ==
  ~failed /\ Node \subseteq nodes /\ main = "urltest" =>
    pool # {} \/ \E w \in Worker : at[w] \in {"emptyMain", "fillMain"}
MainInv == AppliedInv /\ PoolInv

\* Every step keeps both.
LEMMA MainStep ==
  ASSUME TypeOK, Jobs, MainInv, [Next]_vars PROVE MainInv'
<1>0. at \in [Worker -> Steps] /\ job \in [Worker -> Job] /\ \A w \in Worker : JobOK(w)
  BY DEF TypeOK, Jobs
<1>1. CASE UNCHANGED vars
  BY <1>1 DEF vars, conf, MainInv, AppliedInv, PoolInv, Pending, JobOK
<1>2. ASSUME NEW w \in Worker, AddBinding(w) PROVE MainInv'
  BY <1>2, <1>0, ConfigAssumption DEF AddBinding, StartAdder, Start, NoJob, Goto, conf, MainInv, AppliedInv, PoolInv, Pending, JobOK
<1>3. ASSUME NEW w \in Worker, RemoveBinding(w) PROVE MainInv'
  BY <1>3, <1>0, ConfigAssumption DEF RemoveBinding, Start, NoJob, Goto, conf, MainInv, AppliedInv, PoolInv, Pending, JobOK
<1>4. ASSUME NEW w \in Worker, OnMode(w) PROVE MainInv'
  BY <1>4, <1>0, ConfigAssumption DEF OnMode, Start, NoJob, Goto, conf, MainInv, AppliedInv, PoolInv, Pending, JobOK
<1>5. ASSUME NEW w \in Worker, QuickRefresh(w) PROVE MainInv'
  BY <1>5, <1>0, ConfigAssumption DEF QuickRefresh, StartAdder, Start, NoJob, Goto, conf, MainInv, AppliedInv, PoolInv, Pending, JobOK
<1>6. ASSUME NEW w \in Worker, ApplyMain(w) PROVE MainInv'
  BY <1>6, <1>0, ConfigAssumption DEF ApplyMain, Start, NoJob, Goto, conf, MainInv, AppliedInv, PoolInv, Pending, JobOK
<1>7. ASSUME NEW w \in Worker, DeleteNode(w) PROVE MainInv'
  BY <1>7, <1>0, ConfigAssumption DEF DeleteNode, Start, NoJob, Goto, conf, MainInv, AppliedInv, PoolInv, Pending, JobOK
<1>8. ASSUME NEW w \in Worker, Seek(w) PROVE MainInv'
  BY <1>8, <1>0, ConfigAssumption DEF Seek, SameService, history, Goto, conf, MainInv, AppliedInv, PoolInv, Pending, JobOK
<1>9. ASSUME NEW w \in Worker, AddSection(w) PROVE MainInv'
  BY <1>9, <1>0, ConfigAssumption DEF AddSection, SameService, history, Goto, conf, selection, book, MainInv, AppliedInv, PoolInv, Pending, JobOK
<1>10. ASSUME NEW w \in Worker, SetSource(w) PROVE MainInv'
  BY <1>10, <1>0, ConfigAssumption DEF SetSource, SameService, history, SetRule, Goto, conf, selection, book, MainInv, AppliedInv, PoolInv, Pending, JobOK
<1>11. ASSUME NEW w \in Worker, SetNode(w) PROVE MainInv'
  BY <1>11, <1>0, ConfigAssumption DEF SetNode, SameService, history, SetRule, Goto, conf, selection, book, MainInv, AppliedInv, PoolInv, Pending, JobOK
<1>12. ASSUME NEW w \in Worker, SetEnabled(w) PROVE MainInv'
  BY <1>12, <1>0, ConfigAssumption DEF SetEnabled, SameService, history, SetRule, Goto, conf, selection, book, MainInv, AppliedInv, PoolInv, Pending, JobOK
<1>13. ASSUME NEW w \in Worker, EmptyRulePool(w) PROVE MainInv'
  BY <1>13, <1>0, ConfigAssumption DEF EmptyRulePool, SameService, history, SetRule, Goto, conf, selection, book, MainInv, AppliedInv, PoolInv, Pending, JobOK
<1>14. ASSUME NEW w \in Worker, BuildRulePool(w) PROVE MainInv'
  BY <1>14, <1>0, ConfigAssumption DEF BuildRulePool, SameService, history, Goto, conf, MainInv, AppliedInv, PoolInv, Pending, JobOK
<1>15. ASSUME NEW w \in Worker, FillRulePool(w) PROVE MainInv'
  BY <1>15, <1>0, ConfigAssumption DEF FillRulePool, SameService, history, SetRule, Goto, conf, selection, book, MainInv, AppliedInv, PoolInv, Pending, JobOK
<1>16. ASSUME NEW w \in Worker, RemoveRule(w) PROVE MainInv'
  BY <1>16, <1>0, ConfigAssumption DEF RemoveRule, SameService, history, Goto, conf, selection, book, MainInv, AppliedInv, PoolInv, Pending, JobOK
<1>17. ASSUME NEW w \in Worker, SetMode(w) PROVE MainInv'
  BY <1>17, <1>0, ConfigAssumption DEF SetMode, SameService, history, Goto, conf, selection, book, MainInv, AppliedInv, PoolInv, Pending, JobOK
<1>18. ASSUME NEW w \in Worker, ReadMode(w) PROVE MainInv'
  BY <1>18, <1>0, ConfigAssumption DEF ReadMode, SameService, history, Goto, conf, MainInv, AppliedInv, PoolInv, Pending, JobOK
<1>19. ASSUME NEW w \in Worker, Migrate(w) PROVE MainInv'
  BY <1>19, <1>0, ConfigAssumption DEF Migrate, SameService, history, Goto, conf, selection, book, MainInv, AppliedInv, PoolInv, Pending, JobOK
<1>20. ASSUME NEW w \in Worker, SetDefault(w) PROVE MainInv'
  BY <1>20, <1>0, ConfigAssumption DEF SetDefault, SameService, history, Goto, conf, selection, book, MainInv, AppliedInv, PoolInv, Pending, JobOK
<1>21. ASSUME NEW w \in Worker, SeedRule(w) PROVE MainInv'
  BY <1>21, <1>0, ConfigAssumption DEF SeedRule, SameService, history, Goto, conf, NoJob, MainInv, AppliedInv, PoolInv, Pending, JobOK
<1>22. ASSUME NEW w \in Worker, SetMain(w) PROVE MainInv'
  BY <1>22, <1>0, ConfigAssumption DEF SetMain, SameService, history, Goto, conf, selection, book, MainInv, AppliedInv, PoolInv, Pending, JobOK
<1>23. ASSUME NEW w \in Worker, EmptyMainPool(w) PROVE MainInv'
  BY <1>23, <1>0, ConfigAssumption DEF EmptyMainPool, SameService, history, Goto, conf, selection, book, MainInv, AppliedInv, PoolInv, Pending, JobOK
<1>24. ASSUME NEW w \in Worker, FillMainPool(w) PROVE MainInv'
  BY <1>24, <1>0, ConfigAssumption DEF FillMainPool, SameService, history, Goto, conf, selection, book, MainInv, AppliedInv, PoolInv, Pending, JobOK
<1>25. ASSUME NEW w \in Worker, Restart(w) PROVE MainInv'
  BY <1>25, <1>0, ConfigAssumption DEF Restart, history, Goto, conf, MainInv, AppliedInv, PoolInv, Pending, JobOK
<1>26. ASSUME NEW w \in Worker, RemoveNode(w) PROVE MainInv'
  BY <1>26, <1>0, ConfigAssumption DEF RemoveNode, SameService, history, Goto, conf, selection, book, MainInv, AppliedInv, PoolInv, Pending, JobOK
<1>27. ASSUME NEW w \in Worker, Unpool(w) PROVE MainInv'
  BY <1>27, <1>0, ConfigAssumption DEF Unpool, SameService, history, Goto, conf, selection, book, MainInv, AppliedInv, PoolInv, Pending, JobOK
<1>28. ASSUME NEW w \in Worker, TestMain(w) PROVE MainInv'
  BY <1>28, <1>0, ConfigAssumption DEF TestMain, SameService, history, Goto, conf, MainInv, AppliedInv, PoolInv, Pending, JobOK
<1>29. ASSUME NEW w \in Worker, UnsetMain(w) PROVE MainInv'
  BY <1>29, <1>0, ConfigAssumption DEF UnsetMain, SameService, history, Goto, conf, selection, book, MainInv, AppliedInv, PoolInv, Pending, JobOK
<1>30. ASSUME NEW w \in Worker, Commit(w) PROVE MainInv'
  BY <1>30, <1>0, ConfigAssumption DEF Commit, Renumber, selection, Goto, NoJob, MainInv, AppliedInv, PoolInv, Pending, JobOK
<1>31. ASSUME NEW w \in Worker, Fail(w) PROVE MainInv'
  BY <1>31, <1>0, ConfigAssumption DEF Fail, Goto, conf, NoJob, MainInv, AppliedInv, PoolInv, Pending, JobOK
<1>32. CASE Reboot
  BY <1>32 DEF Reboot, NoJob, MainInv, AppliedInv, PoolInv, Pending, JobOK
<1>33. QED
  BY <1>1, <1>2, <1>3, <1>4, <1>5, <1>6, <1>7, <1>8, <1>9, <1>10, <1>11, <1>12, <1>13, <1>14, <1>15, <1>16, <1>17, <1>18, <1>19, <1>20, <1>21, <1>22, <1>23, <1>24, <1>25, <1>26, <1>27, <1>28, <1>29, <1>30, <1>31, <1>32 DEF Next, Begin, AddRule, EnsureDefaults, SetMainNode, DeleteNodes

-----------------------------------------------------------------------------

\* A rule the router's generator uses.
Full(r) == r.source # None /\ r.node # None /\ r.enabled
\* The task that still has options of rule s to set; those it has set stay.
Completing(w, s) ==
  /\ job[w].sec = s
  /\ \/ at[w] = "source"
     \/ at[w] = "node" /\ rules[s].source # None
     \/ at[w] = "enabled" /\ rules[s].source # None /\ rules[s].node # None
\* Every staged rule is whole or is being completed, and so is every saved one.
WholeInv ==
  /\ ~failed /\ ~shifted =>
       \A s \in listed : Full(rules[s]) \/ \E w \in Worker : Completing(w, s)
  /\ RulesWhole

\* Every step keeps it: a commit that renames rules finds no other task writing one.
LEMMA WholeStep ==
  ASSUME TypeOK, NumbersOK, Jobs, WholeInv, [Next]_vars PROVE WholeInv'
<1>0. /\ at \in [Worker -> Steps] /\ job \in [Worker -> Job] /\ \A w \in Worker : JobOK(w)
      /\ listed \subseteq Section /\ rules \in [Section -> Rule]
  BY DEF TypeOK, Jobs
<1>1. CASE UNCHANGED vars
  BY <1>1 DEF vars, conf, WholeInv, Full, Completing, JobOK, RulesWhole, Holds, Open, Rule, NoRule, Config
<1>2. ASSUME NEW w \in Worker, AddBinding(w) PROVE WholeInv'
  BY <1>2, <1>0 DEF AddBinding, StartAdder, Start, NoJob, Goto, conf, WholeInv, Full, Completing, JobOK, RulesWhole, Holds, Open, Rule, NoRule, Config
<1>3. ASSUME NEW w \in Worker, RemoveBinding(w) PROVE WholeInv'
  BY <1>3, <1>0 DEF RemoveBinding, Start, NoJob, Goto, conf, WholeInv, Full, Completing, JobOK, RulesWhole, Holds, Open, Rule, NoRule, Config
<1>4. ASSUME NEW w \in Worker, OnMode(w) PROVE WholeInv'
  BY <1>4, <1>0 DEF OnMode, Start, NoJob, Goto, conf, WholeInv, Full, Completing, JobOK, RulesWhole, Holds, Open, Rule, NoRule, Config
<1>5. ASSUME NEW w \in Worker, QuickRefresh(w) PROVE WholeInv'
  BY <1>5, <1>0 DEF QuickRefresh, StartAdder, Start, NoJob, Goto, conf, WholeInv, Full, Completing, JobOK, RulesWhole, Holds, Open, Rule, NoRule, Config
<1>6. ASSUME NEW w \in Worker, ApplyMain(w) PROVE WholeInv'
  BY <1>6, <1>0 DEF ApplyMain, Start, NoJob, Goto, conf, WholeInv, Full, Completing, JobOK, RulesWhole, Holds, Open, Rule, NoRule, Config
<1>7. ASSUME NEW w \in Worker, DeleteNode(w) PROVE WholeInv'
  BY <1>7, <1>0 DEF DeleteNode, Start, NoJob, Goto, conf, WholeInv, Full, Completing, JobOK, RulesWhole, Holds, Open, Rule, NoRule, Config
<1>8. ASSUME NEW w \in Worker, Seek(w) PROVE WholeInv'
  BY <1>8, <1>0 DEF Seek, SameService, history, Goto, conf, WholeInv, Full, Completing, JobOK, RulesWhole, Holds, Open, Rule, NoRule, Config
<1>9. ASSUME NEW w \in Worker, AddSection(w) PROVE WholeInv'
  BY <1>9, <1>0 DEF AddSection, SameService, history, Goto, conf, selection, book, WholeInv, Full, Completing, JobOK, RulesWhole, Holds, Open, Rule, NoRule, Config
<1>10. ASSUME NEW w \in Worker, SetSource(w) PROVE WholeInv'
  BY <1>10, <1>0 DEF SetSource, SameService, history, SetRule, Goto, conf, selection, book, WholeInv, Full, Completing, JobOK, RulesWhole, Holds, Open, Rule, NoRule, Config
<1>11. ASSUME NEW w \in Worker, SetNode(w) PROVE WholeInv'
  BY <1>11, <1>0 DEF SetNode, SameService, history, SetRule, Goto, conf, selection, book, WholeInv, Full, Completing, JobOK, RulesWhole, Holds, Open, Rule, NoRule, Config
<1>12. ASSUME NEW w \in Worker, SetEnabled(w) PROVE WholeInv'
  BY <1>12, <1>0 DEF SetEnabled, SameService, history, SetRule, Goto, conf, selection, book, WholeInv, Full, Completing, JobOK, RulesWhole, Holds, Open, Rule, NoRule, Config
<1>13. ASSUME NEW w \in Worker, EmptyRulePool(w) PROVE WholeInv'
  BY <1>13, <1>0 DEF EmptyRulePool, SameService, history, SetRule, Goto, conf, selection, book, WholeInv, Full, Completing, JobOK, RulesWhole, Holds, Open, Rule, NoRule, Config
<1>14. ASSUME NEW w \in Worker, BuildRulePool(w) PROVE WholeInv'
  BY <1>14, <1>0 DEF BuildRulePool, SameService, history, Goto, conf, WholeInv, Full, Completing, JobOK, RulesWhole, Holds, Open, Rule, NoRule, Config
<1>15. ASSUME NEW w \in Worker, FillRulePool(w) PROVE WholeInv'
  BY <1>15, <1>0 DEF FillRulePool, SameService, history, SetRule, Goto, conf, selection, book, WholeInv, Full, Completing, JobOK, RulesWhole, Holds, Open, Rule, NoRule, Config
<1>16. ASSUME NEW w \in Worker, RemoveRule(w) PROVE WholeInv'
  BY <1>16, <1>0 DEF RemoveRule, SameService, history, Goto, conf, selection, book, WholeInv, Full, Completing, JobOK, RulesWhole, Holds, Open, Rule, NoRule, Config
<1>17. ASSUME NEW w \in Worker, SetMode(w) PROVE WholeInv'
  BY <1>17, <1>0 DEF SetMode, SameService, history, Goto, conf, selection, book, WholeInv, Full, Completing, JobOK, RulesWhole, Holds, Open, Rule, NoRule, Config
<1>18. ASSUME NEW w \in Worker, ReadMode(w) PROVE WholeInv'
  BY <1>18, <1>0 DEF ReadMode, SameService, history, Goto, conf, WholeInv, Full, Completing, JobOK, RulesWhole, Holds, Open, Rule, NoRule, Config
<1>19. ASSUME NEW w \in Worker, Migrate(w) PROVE WholeInv'
  BY <1>19, <1>0 DEF Migrate, SameService, history, Goto, conf, selection, book, WholeInv, Full, Completing, JobOK, RulesWhole, Holds, Open, Rule, NoRule, Config
<1>20. ASSUME NEW w \in Worker, SetDefault(w) PROVE WholeInv'
  BY <1>20, <1>0 DEF SetDefault, SameService, history, Goto, conf, selection, book, WholeInv, Full, Completing, JobOK, RulesWhole, Holds, Open, Rule, NoRule, Config
<1>21. ASSUME NEW w \in Worker, SeedRule(w) PROVE WholeInv'
  BY <1>21, <1>0 DEF SeedRule, SameService, history, Goto, conf, NoJob, WholeInv, Full, Completing, JobOK, RulesWhole, Holds, Open, Rule, NoRule, Config
<1>22. ASSUME NEW w \in Worker, SetMain(w) PROVE WholeInv'
  BY <1>22, <1>0 DEF SetMain, SameService, history, Goto, conf, selection, book, WholeInv, Full, Completing, JobOK, RulesWhole, Holds, Open, Rule, NoRule, Config
<1>23. ASSUME NEW w \in Worker, EmptyMainPool(w) PROVE WholeInv'
  BY <1>23, <1>0 DEF EmptyMainPool, SameService, history, Goto, conf, selection, book, WholeInv, Full, Completing, JobOK, RulesWhole, Holds, Open, Rule, NoRule, Config
<1>24. ASSUME NEW w \in Worker, FillMainPool(w) PROVE WholeInv'
  BY <1>24, <1>0 DEF FillMainPool, SameService, history, Goto, conf, selection, book, WholeInv, Full, Completing, JobOK, RulesWhole, Holds, Open, Rule, NoRule, Config
<1>25. ASSUME NEW w \in Worker, Restart(w) PROVE WholeInv'
  BY <1>25, <1>0 DEF Restart, history, Goto, conf, WholeInv, Full, Completing, JobOK, RulesWhole, Holds, Open, Rule, NoRule, Config
<1>26. ASSUME NEW w \in Worker, RemoveNode(w) PROVE WholeInv'
  BY <1>26, <1>0 DEF RemoveNode, SameService, history, Goto, conf, selection, book, WholeInv, Full, Completing, JobOK, RulesWhole, Holds, Open, Rule, NoRule, Config
<1>27. ASSUME NEW w \in Worker, Unpool(w) PROVE WholeInv'
  BY <1>27, <1>0 DEF Unpool, SameService, history, Goto, conf, selection, book, WholeInv, Full, Completing, JobOK, RulesWhole, Holds, Open, Rule, NoRule, Config
<1>28. ASSUME NEW w \in Worker, TestMain(w) PROVE WholeInv'
  BY <1>28, <1>0 DEF TestMain, SameService, history, Goto, conf, WholeInv, Full, Completing, JobOK, RulesWhole, Holds, Open, Rule, NoRule, Config
<1>29. ASSUME NEW w \in Worker, UnsetMain(w) PROVE WholeInv'
  BY <1>29, <1>0 DEF UnsetMain, SameService, history, Goto, conf, selection, book, WholeInv, Full, Completing, JobOK, RulesWhole, Holds, Open, Rule, NoRule, Config
<1>30. ASSUME NEW w \in Worker, Commit(w) PROVE WholeInv'
  <2> SUFFICES ASSUME ~failed', ~shifted' PROVE WholeInv'
    BY DEF WholeInv, RulesWhole
  <2>1. /\ Renumber /\ saved'.listed = listed' /\ saved'.rules = rules'
        /\ at[w] = "commit" /\ ~failed /\ ~shifted /\ ~Renames(w)
    BY <1>30 DEF Commit, Config
  <2>2. \A v \in Worker \ {w} : at'[v] = at[v] /\ job'[v] = job[v]
    BY <1>30, <1>0 DEF Commit, Goto
  <2>3. \A s \in listed : Full(rules[s]) \/ \E v \in Worker \ {w} : Completing(v, s) /\ Holds(v)
    <3>1. \A s \in listed : s # 0
      BY <1>0 DEF Section
    <3>2. QED
      BY <2>1, <3>1 DEF WholeInv, Completing, Holds, Open
  <2>4. CASE \A s \in listed : NewNumber(s) = s
    <3>1. listed' = listed /\ \A s \in listed : rules'[s] = rules[s]
      BY <2>1, <2>4, Renumbered
    <3>2. \A s \in listed' : Full(rules'[s]) \/ \E v \in Worker : Completing(v, s)' /\ Holds(v)'
      BY <2>2, <2>3, <3>1 DEF Completing, Holds, Open
    <3>3. QED
      BY <2>1, <3>2 DEF WholeInv, RulesWhole, Full, Completing
  <2>5. CASE ~\A s \in listed : NewNumber(s) = s
    <3>1. \A s \in listed : Full(rules[s])
      BY <2>1, <2>3, <2>5 DEF Renames
    <3>2. \A n \in listed' : Full(rules'[n])
      BY <2>1, <3>1, Renumbered
    <3>3. QED
      BY <2>1, <3>2 DEF WholeInv, RulesWhole, Full
  <2>6. QED
    BY <2>4, <2>5
<1>31. ASSUME NEW w \in Worker, Fail(w) PROVE WholeInv'
  BY <1>31, <1>0 DEF Fail, Goto, conf, NoJob, WholeInv, Full, Completing, JobOK, RulesWhole, Holds, Open, Rule, NoRule, Config
<1>32. CASE Reboot
  BY <1>32 DEF Reboot, NoJob, WholeInv, Full, Completing, JobOK, RulesWhole, Holds, Open, Rule, NoRule, Config
<1>33. QED
  BY <1>1, <1>2, <1>3, <1>4, <1>5, <1>6, <1>7, <1>8, <1>9, <1>10, <1>11, <1>12, <1>13, <1>14, <1>15, <1>16, <1>17, <1>18, <1>19, <1>20, <1>21, <1>22, <1>23, <1>24, <1>25, <1>26, <1>27, <1>28, <1>29, <1>30, <1>31, <1>32 DEF Next, Begin, AddRule, EnsureDefaults, SetMainNode, DeleteNodes

-----------------------------------------------------------------------------

\* A section that is not listed has no options.
Clean(l, r) == \A s \in Section \ l : r[s] = NoRule
CleanInv == Clean(listed, rules) /\ Clean(saved.listed, saved.rules)

\* Every step keeps the unlisted sections empty, staged and saved.
LEMMA CleanStep ==
  ASSUME TypeOK, NumbersOK, CleanInv, [Next]_vars PROVE CleanInv'
<1>0. at \in [Worker -> Steps] /\ job \in [Worker -> Job]
      /\ listed \subseteq Section /\ rules \in [Section -> Rule]
  BY DEF TypeOK
<1>1. CASE UNCHANGED vars
  BY <1>1 DEF vars, conf, CleanInv, Clean, Config
<1>2. ASSUME NEW w \in Worker, AddBinding(w) PROVE CleanInv'
  BY <1>2, <1>0 DEF AddBinding, StartAdder, Start, NoJob, Goto, conf, CleanInv, Clean, Config
<1>3. ASSUME NEW w \in Worker, RemoveBinding(w) PROVE CleanInv'
  BY <1>3, <1>0 DEF RemoveBinding, Start, NoJob, Goto, conf, CleanInv, Clean, Config
<1>4. ASSUME NEW w \in Worker, OnMode(w) PROVE CleanInv'
  BY <1>4, <1>0 DEF OnMode, Start, NoJob, Goto, conf, CleanInv, Clean, Config
<1>5. ASSUME NEW w \in Worker, QuickRefresh(w) PROVE CleanInv'
  BY <1>5, <1>0 DEF QuickRefresh, StartAdder, Start, NoJob, Goto, conf, CleanInv, Clean, Config
<1>6. ASSUME NEW w \in Worker, ApplyMain(w) PROVE CleanInv'
  BY <1>6, <1>0 DEF ApplyMain, Start, NoJob, Goto, conf, CleanInv, Clean, Config
<1>7. ASSUME NEW w \in Worker, DeleteNode(w) PROVE CleanInv'
  BY <1>7, <1>0 DEF DeleteNode, Start, NoJob, Goto, conf, CleanInv, Clean, Config
<1>8. ASSUME NEW w \in Worker, Seek(w) PROVE CleanInv'
  BY <1>8, <1>0 DEF Seek, SameService, history, Goto, conf, CleanInv, Clean, Config
<1>9. ASSUME NEW w \in Worker, AddSection(w) PROVE CleanInv'
  BY <1>9, <1>0 DEF AddSection, SameService, history, Goto, conf, selection, book, CleanInv, Clean, Config
<1>10. ASSUME NEW w \in Worker, SetSource(w) PROVE CleanInv'
  BY <1>10, <1>0 DEF SetSource, SameService, history, SetRule, Goto, conf, selection, book, CleanInv, Clean, Config
<1>11. ASSUME NEW w \in Worker, SetNode(w) PROVE CleanInv'
  BY <1>11, <1>0 DEF SetNode, SameService, history, SetRule, Goto, conf, selection, book, CleanInv, Clean, Config
<1>12. ASSUME NEW w \in Worker, SetEnabled(w) PROVE CleanInv'
  BY <1>12, <1>0 DEF SetEnabled, SameService, history, SetRule, Goto, conf, selection, book, CleanInv, Clean, Config
<1>13. ASSUME NEW w \in Worker, EmptyRulePool(w) PROVE CleanInv'
  BY <1>13, <1>0 DEF EmptyRulePool, SameService, history, SetRule, Goto, conf, selection, book, CleanInv, Clean, Config
<1>14. ASSUME NEW w \in Worker, BuildRulePool(w) PROVE CleanInv'
  BY <1>14, <1>0 DEF BuildRulePool, SameService, history, Goto, conf, CleanInv, Clean, Config
<1>15. ASSUME NEW w \in Worker, FillRulePool(w) PROVE CleanInv'
  BY <1>15, <1>0 DEF FillRulePool, SameService, history, SetRule, Goto, conf, selection, book, CleanInv, Clean, Config
<1>16. ASSUME NEW w \in Worker, RemoveRule(w) PROVE CleanInv'
  BY <1>16, <1>0 DEF RemoveRule, SameService, history, Goto, conf, selection, book, CleanInv, Clean, Config
<1>17. ASSUME NEW w \in Worker, SetMode(w) PROVE CleanInv'
  BY <1>17, <1>0 DEF SetMode, SameService, history, Goto, conf, selection, book, CleanInv, Clean, Config
<1>18. ASSUME NEW w \in Worker, ReadMode(w) PROVE CleanInv'
  BY <1>18, <1>0 DEF ReadMode, SameService, history, Goto, conf, CleanInv, Clean, Config
<1>19. ASSUME NEW w \in Worker, Migrate(w) PROVE CleanInv'
  BY <1>19, <1>0 DEF Migrate, SameService, history, Goto, conf, selection, book, CleanInv, Clean, Config
<1>20. ASSUME NEW w \in Worker, SetDefault(w) PROVE CleanInv'
  BY <1>20, <1>0 DEF SetDefault, SameService, history, Goto, conf, selection, book, CleanInv, Clean, Config
<1>21. ASSUME NEW w \in Worker, SeedRule(w) PROVE CleanInv'
  BY <1>21, <1>0 DEF SeedRule, SameService, history, Goto, conf, NoJob, CleanInv, Clean, Config
<1>22. ASSUME NEW w \in Worker, SetMain(w) PROVE CleanInv'
  BY <1>22, <1>0 DEF SetMain, SameService, history, Goto, conf, selection, book, CleanInv, Clean, Config
<1>23. ASSUME NEW w \in Worker, EmptyMainPool(w) PROVE CleanInv'
  BY <1>23, <1>0 DEF EmptyMainPool, SameService, history, Goto, conf, selection, book, CleanInv, Clean, Config
<1>24. ASSUME NEW w \in Worker, FillMainPool(w) PROVE CleanInv'
  BY <1>24, <1>0 DEF FillMainPool, SameService, history, Goto, conf, selection, book, CleanInv, Clean, Config
<1>25. ASSUME NEW w \in Worker, Restart(w) PROVE CleanInv'
  BY <1>25, <1>0 DEF Restart, history, Goto, conf, CleanInv, Clean, Config
<1>26. ASSUME NEW w \in Worker, RemoveNode(w) PROVE CleanInv'
  BY <1>26, <1>0 DEF RemoveNode, SameService, history, Goto, conf, selection, book, CleanInv, Clean, Config
<1>27. ASSUME NEW w \in Worker, Unpool(w) PROVE CleanInv'
  BY <1>27, <1>0 DEF Unpool, SameService, history, Goto, conf, selection, book, CleanInv, Clean, Config
<1>28. ASSUME NEW w \in Worker, TestMain(w) PROVE CleanInv'
  BY <1>28, <1>0 DEF TestMain, SameService, history, Goto, conf, CleanInv, Clean, Config
<1>29. ASSUME NEW w \in Worker, UnsetMain(w) PROVE CleanInv'
  BY <1>29, <1>0 DEF UnsetMain, SameService, history, Goto, conf, selection, book, CleanInv, Clean, Config
<1>30. ASSUME NEW w \in Worker, Commit(w) PROVE CleanInv'
  BY <1>30, Renumbered DEF Commit, CleanInv, Clean, Config
<1>31. ASSUME NEW w \in Worker, Fail(w) PROVE CleanInv'
  BY <1>31, <1>0 DEF Fail, Goto, conf, NoJob, CleanInv, Clean, Config
<1>32. CASE Reboot
  BY <1>32 DEF Reboot, NoJob, CleanInv, Clean, Config
<1>33. QED
  BY <1>1, <1>2, <1>3, <1>4, <1>5, <1>6, <1>7, <1>8, <1>9, <1>10, <1>11, <1>12, <1>13, <1>14, <1>15, <1>16, <1>17, <1>18, <1>19, <1>20, <1>21, <1>22, <1>23, <1>24, <1>25, <1>26, <1>27, <1>28, <1>29, <1>30, <1>31, <1>32 DEF Next, Begin, AddRule, EnsureDefaults, SetMainNode, DeleteNodes

-----------------------------------------------------------------------------

\* No two rules of one source.
Distinct(l, r) == \A s, t \in l : r[s].source # None /\ r[s].source = r[t].source => s = t
\* What list_rules answered is still true when the task acts on it: there is no
\* other rule of its source.
Fresh(w) ==
  /\ at[w] = "add" => \A s \in listed : rules[s].source # job[w].source
  /\ at[w] = "source" => \A s \in listed \ {job[w].sec} : rules[s].source # job[w].source
\* One task at a time adds rules.
Single == \A v, w \in Worker : Adder(v) /\ Adder(w) => v = w
\* Until additions overlap or a rule is renamed under one; the saved rules too, as
\* a reboot brings them back.
UniqueInv ==
  ~raced /\ ~shifted =>
    /\ Distinct(listed, rules)
    /\ Distinct(saved.listed, saved.rules)
    /\ Single
    /\ \A w \in Worker : Fresh(w)

\* Every step keeps it: without another addition nothing invalidates the answer.
LEMMA UniqueStep ==
  ASSUME TypeOK, NumbersOK, Jobs, CleanInv, UniqueInv, [Next]_vars PROVE UniqueInv'
<1>0. /\ at \in [Worker -> Steps] /\ job \in [Worker -> Job] /\ \A w \in Worker : JobOK(w)
      /\ listed \subseteq Section /\ rules \in [Section -> Rule]
      /\ \A s \in Section \ listed : rules[s] = NoRule
  BY DEF TypeOK, Jobs, CleanInv, Clean
<1>1. CASE UNCHANGED vars
  BY <1>1 DEF vars, conf, UniqueInv, Distinct, Fresh, Single, Adder, Adding, JobOK, NoRule, Config
<1>2. ASSUME NEW w \in Worker, AddBinding(w) PROVE UniqueInv'
  <2>1. PICK src \in Source, n \in Target :
          StartAdder(w, "seek", [NoJob EXCEPT !.source = src, !.node = n])
    BY <1>2 DEF AddBinding
  <2>2. /\ at[w] = "idle" /\ at' = [at EXCEPT ![w] = "seek"]
        /\ \A v \in Worker \ {w} : at'[v] = at[v] /\ job'[v] = job[v]
        /\ UNCHANGED <<listed, rules, saved, shifted>>
        /\ raced' = (raced \/ \E v \in Worker : Adder(v))
    BY <2>1, <1>0 DEF StartAdder, Start, Goto, conf
  <2>3. ~raced' => Single'
    BY <2>2, <1>0 DEF Single, Adder, Adding
  <2>4. at'[w] = "seek"
    BY <2>2, <1>0
  <2>5. Fresh(w)'
    BY <2>4 DEF Fresh
  <2>6. ASSUME ~raced', ~shifted', NEW v \in Worker \ {w} PROVE Fresh(v)'
    <3>1. Fresh(v)
      BY <2>2, <2>6 DEF UniqueInv
    <3>2. QED
      BY <3>1, <2>2 DEF Fresh
  <2>7. QED
    BY <2>2, <2>3, <2>5, <2>6 DEF UniqueInv, Distinct
<1>3. ASSUME NEW w \in Worker, RemoveBinding(w) PROVE UniqueInv'
  BY <1>3, <1>0 DEF RemoveBinding, Start, NoJob, Goto, conf, UniqueInv, Distinct, Fresh, Single, Adder, Adding, JobOK, NoRule, Config
<1>4. ASSUME NEW w \in Worker, OnMode(w) PROVE UniqueInv'
  BY <1>4, <1>0 DEF OnMode, Start, NoJob, Goto, conf, UniqueInv, Distinct, Fresh, Single, Adder, Adding, JobOK, NoRule, Config
<1>5. ASSUME NEW w \in Worker, QuickRefresh(w) PROVE UniqueInv'
  BY <1>5, <1>0 DEF QuickRefresh, StartAdder, Start, NoJob, Goto, conf, UniqueInv, Distinct, Fresh, Single, Adder, Adding, JobOK, NoRule, Config
<1>6. ASSUME NEW w \in Worker, ApplyMain(w) PROVE UniqueInv'
  BY <1>6, <1>0 DEF ApplyMain, Start, NoJob, Goto, conf, UniqueInv, Distinct, Fresh, Single, Adder, Adding, JobOK, NoRule, Config
<1>7. ASSUME NEW w \in Worker, DeleteNode(w) PROVE UniqueInv'
  BY <1>7, <1>0 DEF DeleteNode, Start, NoJob, Goto, conf, UniqueInv, Distinct, Fresh, Single, Adder, Adding, JobOK, NoRule, Config
<1>8. ASSUME NEW w \in Worker, Seek(w) PROVE UniqueInv'
  <2> SUFFICES ASSUME ~raced', ~shifted' PROVE UniqueInv'
    BY DEF UniqueInv
  <2>1. /\ \A v \in Worker \ {w} : at'[v] = at[v] /\ job'[v] = job[v]
        /\ UNCHANGED <<listed, rules, saved, raced, shifted>>
        /\ at[w] = "seek" /\ job[w].source # None
    BY <1>8, <1>0 DEF Seek, SameService, history, Goto, conf, JobOK
  <2>2. Distinct(listed, rules) /\ Single /\ \A v \in Worker : Fresh(v)
    BY <2>1 DEF UniqueInv
  <2>3. at'[w] \in {"add", "source"} /\ job'[w].next = job[w].next
    BY <1>8, <1>0 DEF Seek, Goto, Job
  <2>4. Single'
    BY <2>1, <2>2, <2>3 DEF Single, Adder, Adding
  <2>5. Fresh(w)'
    <3>1. CASE {s \in listed : rules[s].source = job[w].source} = {}
      BY <1>8, <1>0, <2>1, <3>1 DEF Seek, Goto, Fresh
    <3>2. CASE {s \in listed : rules[s].source = job[w].source} # {}
      <4>1. PICK s \in listed : /\ rules[s].source = job[w].source
                                /\ at'[w] = "source" /\ job' = [job EXCEPT ![w].sec = s]
        BY <1>8, <1>0, <3>2 DEF Seek, Goto
      <4>2. job'[w].sec = s /\ job'[w].source = job[w].source
        BY <4>1, <1>0 DEF Job
      <4>3. QED
        BY <4>1, <4>2, <2>1, <2>2 DEF Fresh, Distinct
    <3>3. QED
      BY <3>1, <3>2
  <2>6. QED
    BY <2>1, <2>2, <2>4, <2>5 DEF UniqueInv, Distinct, Fresh
<1>9. ASSUME NEW w \in Worker, AddSection(w) PROVE UniqueInv'
  <2> SUFFICES ASSUME ~raced', ~shifted' PROVE UniqueInv'
    BY DEF UniqueInv
  <2> DEFINE new == count + 1
  <2>1. /\ listed' = listed \cup {new} /\ UNCHANGED <<rules, saved, raced, shifted>>
        /\ at[w] = "add" /\ at'[w] = "source" /\ job'[w].sec = new
        /\ job'[w].source = job[w].source /\ job'[w].next = job[w].next
        /\ \A v \in Worker \ {w} : at'[v] = at[v] /\ job'[v] = job[v]
    BY <1>9, <1>0 DEF AddSection, SameService, history, Goto, Job
  <2>2. new \in Section
    BY <1>9, ConfigAssumption DEF AddSection, Section, TypeOK
  <2> HIDE DEF new
  <2>3. Distinct(listed, rules) /\ Distinct(saved.listed, saved.rules) /\ Single
        /\ \A v \in Worker : Fresh(v)
    BY <2>1 DEF UniqueInv
  <2>4. new \notin listed => rules[new].source = None
    BY <1>0, <2>2 DEF NoRule
  <2>5. Distinct(listed', rules')
    BY <2>1, <2>3, <2>4 DEF Distinct
  <2>6. Single'
    BY <2>1, <2>3 DEF Single, Adder, Adding
  <2>7. Fresh(w)'
    BY <2>1, <2>3 DEF Fresh
  <2>8. \A v \in Worker \ {w} : Fresh(v)'
    BY <2>1, <2>3 DEF Fresh, Single, Adder, Adding
  <2>9. QED
    BY <2>1, <2>3, <2>5, <2>6, <2>7, <2>8 DEF UniqueInv
<1>10. ASSUME NEW w \in Worker, SetSource(w) PROVE UniqueInv'
  BY <1>10, <1>0 DEF SetSource, SameService, history, SetRule, Goto, conf, selection, book, UniqueInv, Distinct, Fresh, Single, Adder, Adding, JobOK, NoRule, Config
<1>11. ASSUME NEW w \in Worker, SetNode(w) PROVE UniqueInv'
  BY <1>11, <1>0 DEF SetNode, SameService, history, SetRule, Goto, conf, selection, book, UniqueInv, Distinct, Fresh, Single, Adder, Adding, JobOK, NoRule, Config
<1>12. ASSUME NEW w \in Worker, SetEnabled(w) PROVE UniqueInv'
  BY <1>12, <1>0 DEF SetEnabled, SameService, history, SetRule, Goto, conf, selection, book, UniqueInv, Distinct, Fresh, Single, Adder, Adding, JobOK, NoRule, Config
<1>13. ASSUME NEW w \in Worker, EmptyRulePool(w) PROVE UniqueInv'
  BY <1>13, <1>0 DEF EmptyRulePool, SameService, history, SetRule, Goto, conf, selection, book, UniqueInv, Distinct, Fresh, Single, Adder, Adding, JobOK, NoRule, Config
<1>14. ASSUME NEW w \in Worker, BuildRulePool(w) PROVE UniqueInv'
  BY <1>14, <1>0 DEF BuildRulePool, SameService, history, Goto, conf, UniqueInv, Distinct, Fresh, Single, Adder, Adding, JobOK, NoRule, Config
<1>15. ASSUME NEW w \in Worker, FillRulePool(w) PROVE UniqueInv'
  BY <1>15, <1>0 DEF FillRulePool, SameService, history, SetRule, Goto, conf, selection, book, UniqueInv, Distinct, Fresh, Single, Adder, Adding, JobOK, NoRule, Config
<1>16. ASSUME NEW w \in Worker, RemoveRule(w) PROVE UniqueInv'
  <2> SUFFICES ASSUME ~raced', ~shifted' PROVE UniqueInv'
    BY DEF UniqueInv
  <2>1. /\ listed' \subseteq listed /\ \A s \in listed' : rules'[s] = rules[s]
        /\ UNCHANGED <<saved, raced, shifted>>
        /\ at'[w] = "commit" /\ job'[w] = NoJob
        /\ \A v \in Worker \ {w} : at'[v] = at[v] /\ job'[v] = job[v]
    BY <1>16, <1>0 DEF RemoveRule, SameService, history, Goto
  <2>2. Distinct(listed, rules) /\ Distinct(saved.listed, saved.rules) /\ Single
        /\ \A v \in Worker : Fresh(v)
    BY <2>1 DEF UniqueInv
  <2>3. Distinct(listed', rules')
    BY <2>1, <2>2 DEF Distinct
  <2>4. Single' /\ Fresh(w)'
    BY <2>1, <2>2 DEF Single, Adder, Adding, NoJob, Fresh
  <2>5. \A v \in Worker \ {w} : Fresh(v)'
    BY <2>1, <2>2 DEF Fresh
  <2>6. QED
    BY <2>1, <2>2, <2>3, <2>4, <2>5 DEF UniqueInv
<1>17. ASSUME NEW w \in Worker, SetMode(w) PROVE UniqueInv'
  BY <1>17, <1>0 DEF SetMode, SameService, history, Goto, conf, selection, book, UniqueInv, Distinct, Fresh, Single, Adder, Adding, JobOK, NoRule, Config
<1>18. ASSUME NEW w \in Worker, ReadMode(w) PROVE UniqueInv'
  BY <1>18, <1>0 DEF ReadMode, SameService, history, Goto, conf, UniqueInv, Distinct, Fresh, Single, Adder, Adding, JobOK, NoRule, Config
<1>19. ASSUME NEW w \in Worker, Migrate(w) PROVE UniqueInv'
  BY <1>19, <1>0 DEF Migrate, SameService, history, Goto, conf, selection, book, UniqueInv, Distinct, Fresh, Single, Adder, Adding, JobOK, NoRule, Config
<1>20. ASSUME NEW w \in Worker, SetDefault(w) PROVE UniqueInv'
  BY <1>20, <1>0 DEF SetDefault, SameService, history, Goto, conf, selection, book, UniqueInv, Distinct, Fresh, Single, Adder, Adding, JobOK, NoRule, Config
<1>21. ASSUME NEW w \in Worker, SeedRule(w) PROVE UniqueInv'
  BY <1>21, <1>0 DEF SeedRule, SameService, history, Goto, conf, NoJob, UniqueInv, Distinct, Fresh, Single, Adder, Adding, JobOK, NoRule, Config
<1>22. ASSUME NEW w \in Worker, SetMain(w) PROVE UniqueInv'
  BY <1>22, <1>0 DEF SetMain, SameService, history, Goto, conf, selection, book, UniqueInv, Distinct, Fresh, Single, Adder, Adding, JobOK, NoRule, Config
<1>23. ASSUME NEW w \in Worker, EmptyMainPool(w) PROVE UniqueInv'
  BY <1>23, <1>0 DEF EmptyMainPool, SameService, history, Goto, conf, selection, book, UniqueInv, Distinct, Fresh, Single, Adder, Adding, JobOK, NoRule, Config
<1>24. ASSUME NEW w \in Worker, FillMainPool(w) PROVE UniqueInv'
  BY <1>24, <1>0 DEF FillMainPool, SameService, history, Goto, conf, selection, book, UniqueInv, Distinct, Fresh, Single, Adder, Adding, JobOK, NoRule, Config
<1>25. ASSUME NEW w \in Worker, Restart(w) PROVE UniqueInv'
  BY <1>25, <1>0 DEF Restart, history, Goto, conf, UniqueInv, Distinct, Fresh, Single, Adder, Adding, JobOK, NoRule, Config
<1>26. ASSUME NEW w \in Worker, RemoveNode(w) PROVE UniqueInv'
  BY <1>26, <1>0 DEF RemoveNode, SameService, history, Goto, conf, selection, book, UniqueInv, Distinct, Fresh, Single, Adder, Adding, JobOK, NoRule, Config
<1>27. ASSUME NEW w \in Worker, Unpool(w) PROVE UniqueInv'
  BY <1>27, <1>0 DEF Unpool, SameService, history, Goto, conf, selection, book, UniqueInv, Distinct, Fresh, Single, Adder, Adding, JobOK, NoRule, Config
<1>28. ASSUME NEW w \in Worker, TestMain(w) PROVE UniqueInv'
  BY <1>28, <1>0 DEF TestMain, SameService, history, Goto, conf, UniqueInv, Distinct, Fresh, Single, Adder, Adding, JobOK, NoRule, Config
<1>29. ASSUME NEW w \in Worker, UnsetMain(w) PROVE UniqueInv'
  BY <1>29, <1>0 DEF UnsetMain, SameService, history, Goto, conf, selection, book, UniqueInv, Distinct, Fresh, Single, Adder, Adding, JobOK, NoRule, Config
<1>30. ASSUME NEW w \in Worker, Commit(w) PROVE UniqueInv'
  <2> SUFFICES ASSUME ~raced', ~shifted' PROVE UniqueInv'
    BY DEF UniqueInv
  <2>1. /\ Renumber /\ saved'.listed = listed' /\ saved'.rules = rules'
        /\ \A v \in Worker \ {w} : at'[v] = at[v] /\ job'[v] = job[v]
        /\ at[w] = "commit" /\ ~raced /\ ~shifted /\ ~Renames(w)
    BY <1>30, <1>0 DEF Commit, Config, Goto
  <2>2. Distinct(listed, rules) /\ Single /\ \A v \in Worker : Fresh(v)
    BY <2>1 DEF UniqueInv
  <2>3. \A n \in listed' : \E s \in listed : NewNumber(s) = n /\ rules'[n] = rules[s]
    BY <2>1, Renumbered
  <2>4. Distinct(listed', rules')
    BY <2>2, <2>3 DEF Distinct
  <2>5. at'[w] \in {"commit", "idle", "restart", "noRules"}
    BY <1>30, <1>0 DEF Commit, Goto, Job
  <2>6. Single'
    <3>1. Adder(w)' => Adder(w)
      <4>1. CASE at'[w] = job[w].next /\ job'[w] = NoJob
        BY <1>0, <2>1, <2>5, <4>1 DEF Adder, Adding, NoJob, Job
      <4>2. CASE UNCHANGED <<at, job>>
        BY <4>2 DEF Adder
      <4>3. QED
        BY <1>30, <1>0, <4>1, <4>2 DEF Commit, Goto
    <3>2. \A v \in Worker \ {w} : Adder(v)' => Adder(v)
      BY <2>1 DEF Adder
    <3>3. QED
      BY <2>2, <3>1, <3>2 DEF Single
  <2>7. Fresh(w)'
    BY <2>5 DEF Fresh
  <2>8. ASSUME NEW v \in Worker \ {w} PROVE Fresh(v)'
    <3>1. Fresh(v) /\ at'[v] = at[v] /\ job'[v] = job[v]
      BY <2>1, <2>2
    <3>2. ASSUME at[v] = "add", NEW n \in listed' PROVE rules'[n].source # job[v].source
      BY <2>3, <3>1, <3>2 DEF Fresh
    <3>3. ASSUME at[v] = "source", NEW n \in listed' \ {job[v].sec} PROVE rules'[n].source # job[v].source
      <4>1. CASE \A s \in listed : NewNumber(s) = s
        BY <2>3, <3>1, <3>3, <4>1 DEF Fresh
      <4>2. CASE ~\A s \in listed : NewNumber(s) = s
        <5>1. job[v].sec = 0 /\ \A s \in listed : s # 0
          BY <1>0, <2>1, <3>3, <4>2 DEF Renames, Holds, Open, Section
        <5>2. QED
          BY <2>3, <3>1, <3>3, <5>1 DEF Fresh
      <4>3. QED
        BY <4>1, <4>2
    <3>4. QED
      BY <3>1, <3>2, <3>3 DEF Fresh
  <2>9. QED
    BY <2>1, <2>4, <2>6, <2>7, <2>8 DEF UniqueInv
<1>31. ASSUME NEW w \in Worker, Fail(w) PROVE UniqueInv'
  BY <1>31, <1>0 DEF Fail, Goto, conf, NoJob, UniqueInv, Distinct, Fresh, Single, Adder, Adding, JobOK, NoRule, Config
<1>32. CASE Reboot
  BY <1>32 DEF Reboot, NoJob, UniqueInv, Distinct, Fresh, Single, Adder, Adding, JobOK, NoRule, Config
<1>33. QED
  BY <1>1, <1>2, <1>3, <1>4, <1>5, <1>6, <1>7, <1>8, <1>9, <1>10, <1>11, <1>12, <1>13, <1>14, <1>15, <1>16, <1>17, <1>18, <1>19, <1>20, <1>21, <1>22, <1>23, <1>24, <1>25, <1>26, <1>27, <1>28, <1>29, <1>30, <1>31, <1>32 DEF Next, Begin, AddRule, EnsureDefaults, SetMainNode, DeleteNodes

-----------------------------------------------------------------------------
(* The inductive invariant and the theorems.                                *)

\* All of it.
IInv == TypeOK /\ NumbersOK /\ Jobs /\ Author /\ MainInv /\ WholeInv /\ CleanInv /\ UniqueInv

\* The invariant holds of the configuration found, with no task running.
LEMMA InitInv == Init => IInv
<1> SUFFICES ASSUME Init PROVE IInv
  OBVIOUS
<1> USE ConfigAssumption
<1>1. NoRule \in Rule /\ NoJob \in Job /\ None \in Target \cup {None}
  BY DEF NoRule, Rule, NoJob, Job
<1>2. /\ nodes = Node /\ Cardinality(nodes) \in Nat /\ count \in Nat
      /\ Cardinality(nodes) <= count /\ count <= MaxNumber
      /\ listed = (Cardinality(nodes) + 1)..count
  BY FS_CardinalityType DEF Init
<1>3. listed \subseteq Section
  BY <1>2 DEF Section
<1>4. PICK src \in [listed -> Source] :
        /\ \A s, t \in listed : src[s] = src[t] => s = t
        /\ rules = [s \in Section |-> IF s \in listed THEN WholeRule(src[s]) ELSE NoRule]
  BY DEF Init
<1>5. \A s \in listed : /\ rules[s].source = src[s] /\ src[s] \in Source
                        /\ rules[s] \in Rule /\ Full(rules[s])
  BY <1>3, <1>4 DEF WholeRule, Rule, Target, Full
<1>6. \A s \in Section \ listed : rules[s] = NoRule
  BY <1>4
<1>7. rules \in [Section -> Rule]
  BY <1>1, <1>4, <1>5, <1>6
<1>8. /\ saved = Config /\ saved.nodes = nodes /\ saved.listed = listed /\ saved.rules = rules
  BY DEF Init, Config
<1>9. TypeOK
  <2>1. /\ at \in [Worker -> Steps] /\ job \in [Worker -> Job] /\ mode \in Mode
    BY <1>1 DEF Init, Steps, Mode
  <2>2. main \in Target \cup {None} /\ applied \in Target \cup {None}
        /\ nodes \subseteq Node /\ pool \subseteq Node
    BY <1>1 DEF Init
  <2>3. Config \in [nodes : SUBSET Node, main : Target \cup {None}, pool : SUBSET Node,
                    mode : Mode, listed : SUBSET Section, rules : [Section -> Rule]]
    BY <1>3, <1>7, <2>1, <2>2 DEF Config
  <2>4. tasks \in 0..MaxTasks /\ torn \in BOOLEAN /\ failed \in BOOLEAN
        /\ raced \in BOOLEAN /\ shifted \in BOOLEAN
    <3>1. tasks = 0 /\ torn = FALSE /\ failed = FALSE /\ raced = FALSE /\ shifted = FALSE
      BY DEF Init
    <3>2. MaxTasks \in Nat
      OBVIOUS
    <3>3. 0 \in 0..MaxTasks
      BY <3>2
    <3>4. QED
      BY <3>1, <3>3
  <2>5. QED
    BY <1>2, <1>3, <1>7, <1>8, <2>1, <2>2, <2>3, <2>4 DEF TypeOK
<1>10. NumbersOK
  <2>1. Cardinality(listed) = count - Cardinality(nodes)
    <3> DEFINE a == Cardinality(nodes) + 1
    <3>1. a \in Int /\ count \in Int
      BY <1>2
    <3>2. Cardinality(a..count) = IF a > count THEN 0 ELSE count - a + 1
      BY <3>1, FS_Interval
    <3>3. QED
      BY <1>2, <3>2
  <2>2. QED
    BY <1>2, <1>8, <2>1 DEF NumbersOK, Numbered
<1>11. Jobs
  BY DEF Init, Jobs, JobOK, NoJob
<1>12. Author
  BY DEF Init, Author, StagedHasAuthor, Calm
<1>13. MainInv
  BY DEF Init, MainInv, AppliedInv, PoolInv
<1>14. WholeInv
  BY <1>5, <1>8 DEF WholeInv, RulesWhole, Full
<1>15. CleanInv
  BY <1>6, <1>8 DEF CleanInv, Clean
<1>16. UniqueInv
  <2>1. Distinct(listed, rules)
    BY <1>4, <1>5 DEF Distinct
  <2>2. QED
    BY <1>8, <2>1 DEF Init, UniqueInv, Single, Adder, Adding, Fresh
<1>17. QED
  BY <1>9, <1>10, <1>11, <1>12, <1>13, <1>14, <1>15, <1>16 DEF IInv

\* Every step keeps it: each part by its own lemma.
LEMMA StepInv == IInv /\ [Next]_vars => IInv'
  BY TypeStep, NumbersStep, JobsStep, AuthorStep, MainStep, WholeStep, CleanStep, UniqueStep DEF IInv

\* It holds of every state.
LEMMA Invariance == Spec => []IInv
  BY InitInv, StepInv, PTL DEF Spec

\* The model's variables keep their types (every task of the screens does).
THEOREM TypeCorrect == Spec => []TypeOK
<1>1. IInv => TypeOK
  BY DEF IInv
<1>2. QED
  BY <1>1, Invariance, PTL

\* However the commands of the tasks interleave, a change staged in uci has a
\* task that will commit it, unless one failed.
THEOREM StagedSafe == Spec => []StagedHasAuthor
<1>1. IInv => StagedHasAuthor
  BY DEF IInv, Author
<1>2. QED
  BY <1>1, Invariance, PTL

\* Without two overlapping additions, and without a commit that renames the rule an
\* addition is about to write, a source has one rule, whatever else overlaps, fails
\* or restarts.
THEOREM UniqueSafe == Spec => []UniqueUnlessRaced
<1>1. IInv => UniqueUnlessRaced
  BY DEF IInv, UniqueInv, UniqueUnlessRaced, Distinct
<1>2. QED
  BY <1>1, Invariance, PTL

\* Without failures, and without a commit that renames the rule an addition is
\* writing, a saved rule is whole, or its addition is on its way.
THEOREM RulesSafe == Spec => []RulesWhole
<1>1. IInv => RulesWhole
  BY DEF IInv, WholeInv
<1>2. QED
  BY <1>1, Invariance, PTL

\* At rest, without failures, what is staged is what is saved.
LEMMA RestSaved ==
  ASSUME IInv, AtRest, ~failed PROVE saved.main = main /\ saved.pool = pool
<1>1. saved = Config
  BY DEF IInv, Author, Calm, StagedHasAuthor, AtRest, Open
<1>2. QED
  BY <1>1 DEF Config

\* Without failures and deletions the automatic pool that is saved has a server.
THEOREM PoolSafe == Spec => []PoolKept
<1>1. IInv => PoolKept
  BY RestSaved DEF IInv, MainInv, PoolInv, PoolKept, AtRest
<1>2. QED
  BY <1>1, Invariance, PTL

\* Without failures the service runs with the main server that is saved.
THEOREM AppliedSafe == Spec => []MainApplied
<1>1. IInv => MainApplied
  BY RestSaved DEF IInv, MainInv, AppliedInv, Pending, MainApplied, AtRest
<1>2. QED
  BY <1>1, Invariance, PTL

-----------------------------------------------------------------------------
(* UrltestPool: what an action does to the pool                             *)

\* Server i joins.
Joins(i) == i \in DOMAIN servers \ Picked /\ Len(members) < Cap /\ members' = Append(members, i)

LEMMA AppendPool ==
  ASSUME PoolTypeOK, NEW i \in DOMAIN servers, members' = Append(members, i)
  PROVE  /\ Len(members) \in Nat /\ Len(members') = Len(members) + 1
         /\ DOMAIN members = 1..Len(members) /\ DOMAIN members' = 1..(Len(members) + 1)
         /\ \A p \in 1..Len(members) : members'[p] = members[p]
         /\ members'[Len(members) + 1] = i
         /\ members' \in Seq(DOMAIN servers)
         /\ Picked' = Picked \cup {i}
<1>1. /\ Len(members) \in Nat /\ Len(members') = Len(members) + 1
      /\ DOMAIN members = 1..Len(members) /\ DOMAIN members' = 1..(Len(members) + 1)
      /\ \A p \in 1..Len(members) : members'[p] = members[p]
      /\ members'[Len(members) + 1] = i
      /\ members' \in Seq(DOMAIN servers)
  BY DEF PoolTypeOK
<1>2. Picked' = Picked \cup {i}
  BY <1>1 DEF Picked, Range
<1>3. QED
  BY <1>1, <1>2

\* The sets of servers depend on the list alone.
LEMMA SameSets ==
  ASSUME servers' = servers
  PROVE  /\ WlNodes' = WlNodes /\ Priority' = Priority /\ Other' = Other
         /\ \A b : InBucket(b)' = InBucket(b)
  BY DEF WlNodes, Priority, Other, InBucket

\* Every member of these sets is in the list and usable, and of one kind.
LEMMA Kinds ==
  /\ WlNodes \subseteq DOMAIN servers /\ Priority \subseteq DOMAIN servers
  /\ WlNodes \cap Priority = {}
  /\ \A i \in WlNodes \cup Priority : Eligible(servers[i])
  /\ \A b : /\ InBucket(b) \subseteq DOMAIN servers
            /\ InBucket(b) \cap (WlNodes \cup Priority) = {}
            /\ \A i \in InBucket(b) : Eligible(servers[i])
            /\ \A c : b # c => InBucket(b) \cap InBucket(c) = {}
  BY DEF WlNodes, Priority, InBucket

\* The four ways to pick, each with the set it picks from.
LEMMA PickWlSeed ==
  ASSUME PoolTypeOK, Seed PROVE \E i \in WlNodes : Joins(i)
<1>1. Len(members) < Cap
  BY PoolAssumption DEF Seed, Seeding, PoolTypeOK
<1>2. QED
  BY <1>1, Kinds DEF Seed, Pick, Joins

LEMMA PickPriority == ASSUME Prioritise PROVE \E i \in Priority : Joins(i)
  BY Kinds DEF Prioritise, MayJoin, Pick, Joins

LEMMA PickWl == ASSUME Resort PROVE \E i \in WlNodes : Joins(i)
  BY Kinds DEF Resort, MayJoin, Pick, Joins

LEMMA PickBucket ==
  ASSUME Deal PROVE UNCHANGED members \/ \E i \in InBucket(order[turn]) : Joins(i)
  BY Kinds DEF Deal, Waiting, Pick, Joins

\* The input never changes.
LEMMA SameInput == [PoolNext]_poolVars => UNCHANGED input
  BY DEF PoolNext, Seed, EndSeed, Prioritise, EndPriority, Deal, EndDeal, Resort, EndResort, poolVars, input

\* A step leaves the pool alone or adds one usable server.
LEMMA OneJoins ==
  ASSUME PoolTypeOK, [PoolNext]_poolVars
  PROVE  UNCHANGED members \/ \E i \in DOMAIN servers : Eligible(servers[i]) /\ Joins(i)
<1>1. CASE Seed
  BY <1>1, PickWlSeed, Kinds
<1>2. CASE Prioritise
  BY <1>2, PickPriority, Kinds
<1>3. CASE Deal
  BY <1>3, PickBucket, Kinds
<1>4. CASE Resort
  BY <1>4, PickWl, Kinds
<1>5. CASE EndSeed \/ EndPriority \/ EndDeal \/ EndResort \/ UNCHANGED poolVars
  BY <1>5 DEF EndSeed, EndPriority, EndDeal, EndResort, poolVars
<1>6. QED
  BY <1>1, <1>2, <1>3, <1>4, <1>5 DEF PoolNext

-----------------------------------------------------------------------------
(* Type correctness                                                         *)

\* What the order is, stage by stage.
OrderOK ==
  /\ stage \in {"seed", "priority", "preferred"} => order = Preferred
  /\ stage = "rest" => Range(order) = Other \cup Range(Weak)

LEMMA PoolInitType == PoolInit => PoolTypeOK /\ OrderOK
<1> SUFFICES ASSUME PoolInit PROVE PoolTypeOK /\ OrderOK
  OBVIOUS
<1>1. servers \in Seq(Server)
  BY DEF PoolInit
<1>2. 1 \in DOMAIN Preferred /\ Preferred \in Seq(Bucket) /\ Preferred # <<>>
  BY PoolAssumption
<1>3. members \in Seq(DOMAIN servers)
  BY DEF PoolInit
<1>4. order = Preferred /\ turn = 1 /\ whitelist \in BOOLEAN /\ stage = "seed"
  BY DEF PoolInit
<1>5. OrderOK
  BY <1>4 DEF OrderOK
<1>6. PoolTypeOK
  BY <1>1, <1>2, <1>3, <1>4 DEF PoolTypeOK, Stages
<1>7. QED
  BY <1>5, <1>6

\* The second round robin has its own order.
LEMMA RestOrder ==
  ASSUME PoolTypeOK, servers' = servers, Rest
  PROVE  order' \in Seq(Bucket) /\ order' # <<>> /\ 1 \in DOMAIN order'
         /\ Range(order') = Other \cup Range(Weak)
<1>1. PICK n \in 0..Len(servers) : \E s \in [1..n -> Other] : IsOtherOrder(s) /\ order' = s \o Weak
  BY DEF Rest
<1>2. PICK s \in [1..n -> Other] : IsOtherOrder(s) /\ order' = s \o Weak
  BY <1>1
<1>3. n \in Nat /\ s \in Seq(Bucket) /\ Len(s) = n
  BY DEF PoolTypeOK, Other
<1>4. /\ order' \in Seq(Bucket) /\ Len(order') = n + Len(Weak) /\ Len(Weak) \in Nat /\ Len(Weak) > 0
      /\ \A k \in 1..n : order'[k] = s[k]
      /\ \A k \in 1..Len(Weak) : order'[n + k] = Weak[k]
      /\ DOMAIN order' = 1..(n + Len(Weak)) /\ DOMAIN s = 1..n /\ DOMAIN Weak = 1..Len(Weak)
  <2>1. Weak \in Seq(Bucket) /\ Weak # <<>>
    BY PoolAssumption
  <2>2. Len(Weak) \in Nat /\ Len(Weak) > 0 /\ DOMAIN Weak = 1..Len(Weak)
    BY <2>1
  <2>3. DOMAIN s = 1..n
    OBVIOUS
  <2>4. s \o Weak \in Seq(Bucket) /\ Len(s \o Weak) = Len(s) + Len(Weak)
    BY <1>3, <2>1
  <2>5. DOMAIN (s \o Weak) = 1..(n + Len(Weak))
    BY <1>3, <2>4
  <2>6. \A k \in 1..n : (s \o Weak)[k] = s[k]
    BY <1>3, <2>1, <2>2
  <2>7. \A k \in 1..Len(Weak) : (s \o Weak)[n + k] = Weak[k]
    BY <1>3, <2>1, <2>2
  <2>8. QED
    BY <1>2, <1>3, <2>2, <2>3, <2>4, <2>5, <2>6, <2>7
<1>5. Range(order') = Range(s) \cup Range(Weak)
  <2>1. ASSUME NEW k \in DOMAIN order' PROVE order'[k] \in Range(s) \cup Range(Weak)
    <3>1. CASE k \in 1..n
      BY <1>4, <3>1 DEF Range
    <3>2. CASE k - n \in 1..Len(Weak)
      <4>1. order'[n + (k - n)] = Weak[k - n] /\ n + (k - n) = k
        BY <1>3, <1>4, <3>2
      <4>2. QED
        BY <1>4, <3>2, <4>1 DEF Range
    <3>3. QED
      BY <1>3, <1>4, <3>1, <3>2
  <2>2. ASSUME NEW k \in DOMAIN s PROVE s[k] \in Range(order')
    BY <1>3, <1>4 DEF Range
  <2>3. ASSUME NEW k \in DOMAIN Weak PROVE Weak[k] \in Range(order')
    <3>1. n + k \in DOMAIN order'
      BY <1>3, <1>4
    <3>2. QED
      BY <1>4, <3>1 DEF Range
  <2>4. QED
    BY <2>1, <2>2, <2>3 DEF Range
<1>6. QED
  BY <1>2, <1>3, <1>4, <1>5 DEF IsOtherOrder

LEMMA PoolNextType == PoolTypeOK /\ OrderOK /\ [PoolNext]_poolVars => (PoolTypeOK /\ OrderOK)'
<1> SUFFICES ASSUME PoolTypeOK, OrderOK, [PoolNext]_poolVars PROVE PoolTypeOK' /\ OrderOK'
  OBVIOUS
<1>1. UNCHANGED input
  BY SameInput
<1>2. members' \in Seq(DOMAIN servers')
  <2>1. ASSUME NEW i \in DOMAIN servers, Joins(i) PROVE members' \in Seq(DOMAIN servers)
    BY <2>1, AppendPool DEF Joins
  <2>2. QED
    BY <1>1, <2>1, OneJoins DEF PoolTypeOK, input
<1>3. Other' = Other
  BY <1>1, SameSets DEF input
<1>4. CASE Deal
  <2>1. NextTurn \in DOMAIN order
    BY DEF NextTurn, PoolTypeOK
  <2>2. QED
    BY <1>1, <1>2, <1>3, <1>4, <2>1 DEF Deal, PoolTypeOK, OrderOK, input
<1>5. CASE EndDeal
  <2>1. CASE stage = "preferred" /\ Len(members) < Cap
    <3>1. Rest /\ servers' = servers
      BY <1>1, <1>5, <2>1 DEF EndDeal, input
    <3>2. stage' = "rest" /\ turn' = 1
      BY <3>1 DEF Rest
    <3>3. QED
      BY <1>1, <1>2, <1>3, <3>1, <3>2, RestOrder DEF PoolTypeOK, OrderOK, Stages, Robin, input
  <2>2. CASE ~(stage = "preferred" /\ Len(members) < Cap)
    BY <1>1, <1>2, <1>5, <2>2 DEF EndDeal, EndRobin, PoolTypeOK, OrderOK, Stages, input
  <2>3. QED
    BY <2>1, <2>2
<1>6. CASE Seed \/ EndSeed \/ Prioritise \/ EndPriority \/ Resort \/ EndResort \/ UNCHANGED poolVars
  BY <1>1, <1>2, <1>3, <1>6
     DEF Seed, EndSeed, Prioritise, EndPriority, Resort, EndResort, poolVars, input, PoolTypeOK, OrderOK,
         Stages, Robin
<1>7. QED
  BY <1>4, <1>5, <1>6 DEF PoolNext

LEMMA Typed == PoolSpec => [](PoolTypeOK /\ OrderOK)
  BY PoolInitType, PoolNextType, PTL DEF PoolSpec

\* Every reachable state is well-typed, whatever the list.
THEOREM PoolTypeCorrect == PoolSpec => []PoolTypeOK
  BY Typed, PTL

-----------------------------------------------------------------------------
(* Soundness                                                                *)

LEMMA NextSound == PoolTypeOK /\ PoolSound /\ [PoolNext]_poolVars => PoolSound'
<1> SUFFICES ASSUME PoolTypeOK, PoolSound, [PoolNext]_poolVars PROVE PoolSound'
  OBVIOUS
<1>1. servers' = servers
  BY SameInput DEF input
<1>2. CASE UNCHANGED members
  BY <1>1, <1>2 DEF PoolSound, Picked
<1>3. ASSUME NEW i \in DOMAIN servers, Eligible(servers[i]), Joins(i) PROVE PoolSound'
  <2>1. i \notin Picked /\ Len(members) < Cap /\ members' = Append(members, i)
    BY <1>3 DEF Joins
  <2>2. /\ Len(members) \in Nat /\ Len(members') = Len(members) + 1
        /\ DOMAIN members = 1..Len(members) /\ DOMAIN members' = 1..(Len(members) + 1)
        /\ \A p \in 1..Len(members) : members'[p] = members[p]
        /\ members'[Len(members) + 1] = i
        /\ Picked' = Picked \cup {i}
    BY <2>1, AppendPool
  <2>3. Len(members') <= Cap
    BY <2>1, <2>2, PoolAssumption
  <2>4. \A j \in Picked' : servers'[j].bucket \notin Bad \cup {NoType} /\ ~servers'[j].ru
    BY <1>1, <1>3, <2>2 DEF PoolSound, Eligible
  <2>5. \A p \in 1..Len(members) : members[p] # i
    BY <2>1, <2>2 DEF Picked, Range
  <2>6. \A p, q \in DOMAIN members' : members'[p] = members'[q] => p = q
    BY <2>2, <2>5 DEF PoolSound
  <2>7. QED
    BY <2>3, <2>4, <2>6 DEF PoolSound
<1>4. QED
  BY <1>2, <1>3, OneJoins

\* The pool never has a server the core cannot run, a Russian one, one twice,
\* or more of them than the cap.
THEOREM PoolIsSound == PoolSpec => []PoolSound
<1>1. PoolInit => PoolSound
  BY PoolAssumption DEF PoolInit, PoolSound, Picked, Range
<1>2. QED
  BY <1>1, NextSound, PoolTypeCorrect, PTL DEF PoolSpec

-----------------------------------------------------------------------------
(* Precedence and completeness                                              *)

Early == {"seed", "priority"}
Late == {"rest", "resort", "done"}
Ordinary == UNION {InBucket(b) : b \in Bucket}

\* Precedence with what each finished stage leaves behind.
StageInv ==
  /\ stage \notin Early /\ Len(members) < Cap => Priority \subseteq Picked
  /\ Ordinary \cap Picked # {} => stage \notin Early /\ Priority \subseteq Picked
  /\ stage \in Late /\ Len(members) < Cap => \A c \in Range(Preferred) : Waiting(c) = {}
  /\ \A b \in Bucket \ Range(Preferred) : InBucket(b) \cap Picked # {} =>
       stage \in Late /\ \A c \in Range(Preferred) : Waiting(c) = {}
  /\ stage \in {"resort", "done"} /\ Len(members) < Cap => Ordinary \subseteq Picked

WlInv ==
  /\ ~whitelist /\ WlNodes \cap Picked # {} => stage \in {"resort", "done"} /\ Priority \cup Ordinary = {}
  /\ stage = "resort" => ~whitelist /\ Priority \cup Ordinary = {}
  /\ whitelist /\ stage # "seed" /\ members = <<>> => WlNodes = {}
  /\ stage = "done" /\ members = <<>> => WlNodes = {}

LEMMA InitStage == PoolInit => StageInv /\ WlInv
<1> SUFFICES ASSUME PoolInit PROVE StageInv /\ WlInv
  OBVIOUS
<1>1. Picked = {}
  BY DEF PoolInit, Picked, Range
<1>2. QED
  BY <1>1 DEF PoolInit, StageInv, WlInv, Early, Late

LEMMA OrdinarySame == servers' = servers => Ordinary' = Ordinary
  BY SameSets DEF Ordinary

LEMMA OrdinaryKinds == Ordinary \cap (WlNodes \cup Priority) = {}
  BY Kinds DEF Ordinary

\* A pick that is not of an ordinary server disturbs nothing.
LEMMA JoinOutside ==
  ASSUME PoolTypeOK, StageInv, servers' = servers, stage' = stage,
         NEW i \in WlNodes \cup Priority, Joins(i)
  PROVE  StageInv'
<1>1. Picked' = Picked \cup {i} /\ Len(members') = Len(members) + 1 /\ Len(members) \in Nat
  BY AppendPool DEF Joins
<1>2. WlNodes' = WlNodes /\ Priority' = Priority /\ Ordinary' = Ordinary /\ \A b : InBucket(b)' = InBucket(b)
  BY SameSets, OrdinarySame
<1>3. i \notin Ordinary /\ \A b : i \notin InBucket(b)
  BY OrdinaryKinds, Kinds
<1>4. \A b : Waiting(b)' = Waiting(b)
  BY <1>1, <1>2, <1>3 DEF Waiting
<1>5. Len(members') < Cap => Len(members) < Cap
  BY <1>1, PoolAssumption
<1>6. QED
  BY <1>1, <1>2, <1>3, <1>4, <1>5 DEF StageInv

LEMMA DealStage ==
  ASSUME PoolTypeOK, OrderOK, StageInv, servers' = servers, Deal PROVE StageInv'
<1> DEFINE b == order[turn]
<1>0. stage' = stage /\ stage \in Robin /\ stage \notin Early /\ Len(members) < Cap
      /\ stage \notin {"resort", "done"} /\ (stage \in Late => stage = "rest")
  BY DEF Deal, Robin, Early, Late
<1>1. WlNodes' = WlNodes /\ Priority' = Priority /\ Ordinary' = Ordinary /\ \A c : InBucket(c)' = InBucket(c)
  BY SameSets, OrdinarySame
<1>2. CASE UNCHANGED members
  <2>1. Picked' = Picked /\ \A c : Waiting(c)' = Waiting(c)
    BY <1>1, <1>2 DEF Picked, Waiting
  <2>2. QED
    BY <1>0, <1>1, <1>2, <2>1 DEF StageInv
<1>3. ASSUME NEW i \in InBucket(b), Joins(i) PROVE StageInv'
  <2>1. Picked' = Picked \cup {i} /\ Len(members') = Len(members) + 1 /\ Len(members) \in Nat
    BY <1>3, Kinds, AppendPool DEF Joins
  <2>2. Len(members') < Cap => Len(members) < Cap
    BY <2>1, PoolAssumption
  <2>3. \A c : Waiting(c)' \subseteq Waiting(c)
    BY <1>1, <2>1 DEF Waiting
  <2>4. Priority \subseteq Picked
    BY <1>0 DEF StageInv
  <2>5. stage = "preferred" => b \in Range(Preferred)
    BY <1>0 DEF OrderOK, PoolTypeOK, Range
  <2>6. \A c \in Bucket \ Range(Preferred) : InBucket(c) \cap Picked' # {} =>
          stage \in Late /\ \A d \in Range(Preferred) : Waiting(d) = {}
    <3> SUFFICES ASSUME NEW c \in Bucket \ Range(Preferred), InBucket(c) \cap Picked' # {}
                 PROVE  stage \in Late /\ \A d \in Range(Preferred) : Waiting(d) = {}
      OBVIOUS
    <3>1. CASE InBucket(c) \cap Picked # {}
      BY <3>1 DEF StageInv
    <3>2. CASE i \in InBucket(c)
      <4>1. b = c
        BY <1>3, <3>2, Kinds
      <4>2. stage = "rest"
        BY <1>0, <2>5, <4>1 DEF Robin
      <4>3. QED
        BY <1>0, <4>2 DEF StageInv, Late
    <3>3. QED
      BY <2>1, <3>1, <3>2
  <2>7. QED
    BY <1>0, <1>1, <2>1, <2>2, <2>3, <2>4, <2>6 DEF StageInv
<1>4. QED
  BY <1>2, <1>3, PickBucket

\* When no bucket of a round robin has a server left, nor has any bucket.
LEMMA AllDealt ==
  ASSUME PoolTypeOK, OrderOK, StageInv, stage = "rest", Len(members) < Cap, ~AnyWaiting
  PROVE  Ordinary \subseteq Picked
<1> SUFFICES ASSUME NEW b \in Bucket PROVE Waiting(b) = {}
  BY DEF Ordinary, Waiting
<1>1. CASE b \in Range(Preferred)
  BY <1>1 DEF StageInv, Late
<1>2. CASE b \in Range(order)
  BY <1>2 DEF AnyWaiting
<1>3. CASE InBucket(b) = {}
  BY <1>3 DEF Waiting
<1>4. QED
  BY <1>1, <1>2, <1>3 DEF OrderOK, Other

LEMMA EndDealStage ==
  ASSUME PoolTypeOK, OrderOK, StageInv, servers' = servers, EndDeal PROVE StageInv'
<1>1. WlNodes' = WlNodes /\ Priority' = Priority /\ Ordinary' = Ordinary /\ \A c : InBucket(c)' = InBucket(c)
  BY SameSets, OrdinarySame
<1>2. members' = members /\ Picked' = Picked /\ stage \in Robin /\ stage \notin Early
      /\ (\A c : Waiting(c)' = Waiting(c)) /\ (Len(members) < Cap => ~AnyWaiting)
  BY <1>1 DEF EndDeal, Picked, Waiting, Robin, Early
<1>3. stage' \in Late /\ stage' \notin Early
  BY DEF EndDeal, Rest, EndRobin, Late, Early
<1>4. Len(members) < Cap => \A c \in Range(Preferred) : Waiting(c) = {}
  <2>1. CASE stage = "preferred"
    BY <1>2, <2>1 DEF OrderOK, AnyWaiting
  <2>2. CASE stage = "rest"
    BY <2>2 DEF StageInv, Late
  <2>3. QED
    BY <1>2, <2>1, <2>2 DEF Robin
<1>5. stage' \in {"resort", "done"} /\ Len(members) < Cap => Ordinary \subseteq Picked
  <2> SUFFICES ASSUME stage' \in {"resort", "done"}, Len(members) < Cap PROVE Ordinary \subseteq Picked
    OBVIOUS
  <2>1. stage = "rest"
    BY <1>2 DEF EndDeal, Rest, Robin
  <2>2. QED
    BY <1>2, <2>1, AllDealt
<1>6. QED
  BY <1>1, <1>2, <1>3, <1>4, <1>5 DEF StageInv

LEMMA NextStage == PoolTypeOK /\ OrderOK /\ StageInv /\ [PoolNext]_poolVars => StageInv'
<1> SUFFICES ASSUME PoolTypeOK, OrderOK, StageInv, [PoolNext]_poolVars PROVE StageInv'
  OBVIOUS
<1>1. servers' = servers
  BY SameInput DEF input
<1>2. CASE Seed
  BY <1>1, <1>2, PickWlSeed, JoinOutside DEF Seed
<1>3. CASE Prioritise
  BY <1>1, <1>3, PickPriority, JoinOutside DEF Prioritise
<1>4. CASE Resort
  BY <1>1, <1>4, PickWl, JoinOutside DEF Resort
<1>5. CASE EndSeed \/ EndPriority \/ EndResort \/ UNCHANGED poolVars
  <2>1. /\ Priority' = Priority /\ Ordinary' = Ordinary /\ \A c : InBucket(c)' = InBucket(c)
        /\ members' = members /\ Picked' = Picked /\ \A c : Waiting(c)' = Waiting(c)
    <3>1. members' = members
      BY <1>5 DEF EndSeed, EndPriority, EndResort, poolVars
    <3>2. QED
      BY <1>1, <3>1, SameSets, OrdinarySame DEF Picked, Waiting
  <2>2. CASE EndSeed
    BY <2>1, <2>2 DEF EndSeed, StageInv, Early, Late
  <2>3. CASE EndPriority
    <3>1. Len(members) < Cap => Priority \subseteq Picked
      BY <2>3 DEF EndPriority, MayJoin
    <3>2. QED
      BY <2>1, <2>3, <3>1 DEF EndPriority, StageInv, Early, Late
  <2>4. CASE EndResort
    BY <2>1, <2>4 DEF EndResort, StageInv, Early, Late
  <2>5. CASE UNCHANGED poolVars
    BY <2>1, <2>5 DEF poolVars, StageInv
  <2>6. QED
    BY <1>5, <2>2, <2>3, <2>4, <2>5
<1>6. QED
  BY <1>1, <1>2, <1>3, <1>4, <1>5, DealStage, EndDealStage DEF PoolNext

LEMMA NextWl == PoolTypeOK /\ OrderOK /\ StageInv /\ WlInv /\ [PoolNext]_poolVars => WlInv'
<1> SUFFICES ASSUME PoolTypeOK, OrderOK, StageInv, WlInv, [PoolNext]_poolVars PROVE WlInv'
  OBVIOUS
<1>1. servers' = servers /\ whitelist' = whitelist
  BY SameInput DEF input
<1>2. WlNodes' = WlNodes /\ Priority' = Priority /\ Ordinary' = Ordinary
  BY <1>1, SameSets, OrdinarySame
<1>3. ASSUME NEW i \in DOMAIN servers, Joins(i), stage' = stage,
             ~whitelist /\ i \in WlNodes => stage = "resort"
      PROVE  WlInv'
  <2>1. Picked' = Picked \cup {i} /\ members' # <<>>
    BY <1>3, AppendPool DEF Joins
  <2>2. QED
    BY <1>1, <1>2, <1>3, <2>1 DEF WlInv
<1>4. CASE Seed
  <2>1. stage' = stage /\ whitelist
    BY <1>4 DEF Seed, Seeding
  <2>2. QED
    BY <1>3, <1>4, <2>1, PickWlSeed, Kinds
<1>5. CASE Prioritise
  <2>1. stage' = stage
    BY <1>5 DEF Prioritise
  <2>2. QED
    BY <1>3, <1>5, <2>1, PickPriority, Kinds
<1>6. CASE Deal
  <2>1. stage' = stage
    BY <1>6 DEF Deal
  <2>2. CASE UNCHANGED members
    BY <1>1, <1>2, <2>1, <2>2 DEF WlInv, Picked
  <2>3. QED
    BY <1>3, <1>6, <2>1, <2>2, PickBucket, Kinds
<1>7. CASE Resort
  <2>1. stage' = stage /\ stage = "resort"
    BY <1>7 DEF Resort
  <2>2. QED
    BY <1>3, <1>7, <2>1, PickWl, Kinds
<1>8. CASE EndSeed \/ EndPriority \/ EndDeal \/ EndResort \/ UNCHANGED poolVars
  <2>1. members' = members /\ Picked' = Picked
    BY <1>8 DEF EndSeed, EndPriority, EndDeal, EndResort, poolVars, Picked
  <2>2. members = <<>> => Picked = {} /\ Len(members) < Cap /\ Len(members) < WlCap
    BY PoolAssumption DEF Picked, Range
  <2>3. CASE EndSeed
    BY <1>1, <1>2, <2>1, <2>2, <2>3 DEF EndSeed, Seeding, WlInv
  <2>4. CASE EndPriority
    BY <1>1, <1>2, <2>1, <2>4 DEF EndPriority, WlInv
  <2>5. CASE EndDeal
    <3>0. stage \in Robin /\ stage' \in {"rest", "resort", "done"} /\ stage # "seed"
      BY <2>5 DEF EndDeal, Rest, EndRobin, Robin
    <3>1. ~whitelist => WlNodes \cap Picked = {}
      BY <3>0 DEF WlInv, Robin
    <3>2. ASSUME stage' = "resort" PROVE ~whitelist /\ Priority \cup Ordinary = {}
      <4>1. ~whitelist /\ members = <<>>
        BY <2>5, <3>2 DEF EndDeal, Rest, EndRobin
      <4>3. Priority \subseteq Picked /\ Ordinary \subseteq Picked
        <5>1. StageInv' /\ stage' = "resort"
          BY <1>1, <2>5, <3>2, EndDealStage
        <5>2. QED
          BY <1>2, <2>1, <2>2, <4>1, <5>1 DEF StageInv, Early
      <4>4. QED
        BY <2>2, <4>1, <4>3
    <3>3. ASSUME stage' = "done", members = <<>> PROVE WlNodes = {}
      <4>1. whitelist
        BY <2>5, <3>3 DEF EndDeal, Rest, EndRobin
      <4>2. QED
        BY <3>0, <3>3, <4>1 DEF WlInv
    <3>4. QED
      BY <1>1, <1>2, <2>1, <3>0, <3>1, <3>2, <3>3 DEF WlInv
  <2>6. CASE EndResort
    <3>1. members = <<>> => WlNodes = {}
      BY <2>2, <2>6 DEF EndResort, MayJoin
    <3>2. QED
      BY <1>1, <1>2, <2>1, <2>6, <3>1 DEF EndResort, WlInv
  <2>7. CASE UNCHANGED poolVars
    BY <1>1, <1>2, <2>1, <2>7 DEF poolVars, WlInv
  <2>8. QED
    BY <1>8, <2>3, <2>4, <2>5, <2>6, <2>7
<1>9. QED
  BY <1>4, <1>5, <1>6, <1>7, <1>8 DEF PoolNext

LEMMA StageWl == PoolSpec => [](StageInv /\ WlInv)
  BY InitStage, NextStage, NextWl, Typed, PTL DEF PoolSpec

\* The provider's best come before the buckets, the preferred buckets before
\* the rest, and unwanted whitelist servers only where there is no other.
THEOREM PrecedenceSafe == PoolSpec => []Precedence
<1>1. StageInv /\ WlInv => Precedence
  BY DEF StageInv, WlInv, Precedence, Ordinary
<1>2. QED
  BY <1>1, StageWl, PTL

\* The finished pool leaves a server out only because it is full (or of the
\* whitelist), and is empty exactly when no server is usable.
THEOREM PoolComplete == PoolSpec => []Complete
<1>1. ASSUME PoolTypeOK, StageInv, WlInv, PoolSound, stage = "done" PROVE
        /\ Len(members) < Cap => Priority \cup Ordinary \subseteq Picked
        /\ members = <<>> <=> ~HasUsable
  <2>1. Len(members) < Cap => Priority \cup Ordinary \subseteq Picked
    BY <1>1 DEF StageInv, Early
  <2>2. ASSUME members = <<>> PROVE ~HasUsable
    <3>1. Len(members) < Cap /\ Picked = {}
      BY <2>2, PoolAssumption DEF Picked, Range
    <3>2. WlNodes = {} /\ Priority = {} /\ Ordinary = {}
      BY <1>1, <2>1, <2>2, <3>1 DEF WlInv
    <3>3. \A i \in DOMAIN servers : servers[i].wl \in BOOLEAN /\ servers[i].best \in BOOLEAN /\ servers[i].bucket \in Bucket
      BY <1>1, PoolAssumption DEF PoolTypeOK
    <3>4. QED
      BY <3>2, <3>3 DEF HasUsable, WlNodes, Priority, Ordinary, InBucket
  <2>3. ASSUME members # <<>> PROVE HasUsable
    <3>1. 1 \in DOMAIN members /\ members[1] \in DOMAIN servers /\ members[1] \in Picked
      BY <1>1, <2>3 DEF PoolTypeOK, Picked, Range
    <3>2. QED
      BY <1>1, <3>1 DEF PoolSound, HasUsable, Eligible
  <2>4. QED
    BY <2>1, <2>2, <2>3
<1>2. PoolTypeOK /\ StageInv /\ WlInv /\ PoolSound => Complete
  BY <1>1 DEF Complete, Ordinary
<1>3. QED
  BY <1>2, PoolTypeCorrect, StageWl, PoolIsSound, PTL

-----------------------------------------------------------------------------
(* Diversity                                                                *)

\* Is the turn on its way from the bucket at j to the one at k?
OnTheWay(j, k) == IF j < k THEN j < turn /\ turn <= k ELSE j < turn \/ turn <= k

\* Diverse, with its reason: since a server of the bucket at j was dealt, the
\* bucket at k, which still has some, got none; so the turn has not reached it.
DealInv ==
  /\ Diverse
  /\ stage \in Early => Ordinary \cap Picked = {}
  /\ stage = "preferred" =>
       \A j, k \in DOMAIN Preferred : \A p \in DOMAIN members :
         /\ j # k /\ members[p] \in InBucket(Preferred[j])
         /\ \A r \in p..Len(members) : members[r] \notin InBucket(Preferred[k])
         /\ Waiting(Preferred[k]) # {}
         => OnTheWay(j, k)

LEMMA PreferredBuckets ==
  \A k \in DOMAIN Preferred : Preferred[k] \in Bucket /\ InBucket(Preferred[k]) \subseteq Ordinary
  BY PoolAssumption DEF Ordinary

\* A server of no preferred bucket joins: nothing changes for those.
LEMMA OtherJoins ==
  ASSUME PoolTypeOK, Diverse, servers' = servers, NEW i \in DOMAIN servers, Joins(i),
         \A b \in Range(Preferred) : i \notin InBucket(b)
  PROVE  Diverse'
<1>1. /\ Len(members) \in Nat
      /\ DOMAIN members = 1..Len(members) /\ DOMAIN members' = 1..(Len(members) + 1)
      /\ \A p \in 1..Len(members) : members'[p] = members[p]
      /\ members'[Len(members) + 1] = i
      /\ Picked' = Picked \cup {i}
  BY AppendPool DEF Joins
<1>2. \A b : InBucket(b)' = InBucket(b) /\ Waiting(b)' \subseteq Waiting(b)
  BY <1>1, SameSets DEF Waiting
<1> SUFFICES ASSUME NEW b \in Range(Preferred), NEW c \in Range(Preferred),
                    NEW p \in DOMAIN members', NEW q \in DOMAIN members',
                    p < q, {members'[p], members'[q]} \subseteq InBucket(b),
                    \A r \in p..q : members'[r] \notin InBucket(c)
             PROVE  Waiting(c) = {}
  BY <1>2 DEF Diverse
<1>3. p \in 1..Len(members) /\ q \in 1..Len(members)
  BY <1>1
<1>4. \A r \in p..q : r \in 1..Len(members) /\ members[r] \notin InBucket(c)
  BY <1>1, <1>3
<1>5. QED
  BY <1>1, <1>3, <1>4 DEF Diverse

\* The turn moves on, past a bucket that is not the one at k.
LEMMA TurnMoves ==
  ASSUME PoolTypeOK, order = Preferred, turn' = NextTurn, NEW j \in DOMAIN Preferred,
         NEW k \in DOMAIN Preferred, j # k, turn # k, j = turn \/ OnTheWay(j, k)
  PROVE  OnTheWay(j, k)'
<1> DEFINE n == Len(Preferred)
<1>1. n \in Nat /\ j \in 1..n /\ k \in 1..n /\ turn \in 1..n
  BY PoolAssumption DEF PoolTypeOK
<1> HIDE DEF n
<1>2. (turn = n /\ turn' = 1) \/ (turn # n /\ turn' = turn + 1)
  BY DEF NextTurn, n
<1>3. CASE j < k
  <2>1. j <= turn /\ turn < k
    BY <1>1, <1>3 DEF OnTheWay
  <2>2. j < turn' /\ turn' <= k
    BY <1>1, <1>2, <2>1
  <2>3. QED
    BY <1>3, <2>2 DEF OnTheWay
<1>4. CASE ~(j < k)
  <2>1. j <= turn \/ turn < k
    BY <1>1, <1>4 DEF OnTheWay
  <2>2. j < turn' \/ turn' <= k
    BY <1>1, <1>2, <2>1
  <2>3. QED
    BY <1>4, <2>2 DEF OnTheWay
<1>5. QED
  BY <1>3, <1>4

LEMMA DealDiverse ==
  ASSUME PoolTypeOK, OrderOK, DealInv, servers' = servers, Deal, stage = "preferred"
  PROVE  DealInv'
<1> DEFINE b == Preferred[turn]
<1>0. order = Preferred /\ stage' = stage /\ turn' = NextTurn /\ turn \in DOMAIN Preferred
      /\ b \in Range(Preferred) /\ stage \notin Early
  BY DEF Deal, OrderOK, PoolTypeOK, Range, Early
<1>1. \A c : InBucket(c)' = InBucket(c)
  BY SameSets
<1>2. CASE UNCHANGED members
  <2>1. Waiting(b) = {}
    <3> SUFFICES ASSUME Waiting(b) # {} PROVE FALSE
      OBVIOUS
    <3>1. PICK i \in DOMAIN servers : members' = Append(members, i)
      BY <1>0, Kinds DEF Deal, Pick, Waiting
    <3>2. Len(members') = Len(members) + 1 /\ Len(members) \in Nat
      BY <3>1, AppendPool
    <3>3. QED
      BY <1>2, <3>2
  <2>2. Picked' = Picked /\ \A c : Waiting(c)' = Waiting(c)
    BY <1>1, <1>2 DEF Picked, Waiting
  <2>3. Diverse'
    BY <1>1, <1>2, <2>2 DEF DealInv, Diverse
  <2>4. ASSUME NEW j \in DOMAIN Preferred, NEW k \in DOMAIN Preferred, NEW p \in DOMAIN members,
               j # k, members[p] \in InBucket(Preferred[j]),
               \A r \in p..Len(members) : members[r] \notin InBucket(Preferred[k]),
               Waiting(Preferred[k]) # {}
        PROVE  OnTheWay(j, k)'
    <3>1. OnTheWay(j, k)
      BY <2>4 DEF DealInv
    <3>2. turn # k
      BY <2>1, <2>4
    <3>3. QED
      BY <1>0, <2>4, <3>1, <3>2, TurnMoves
  <2>5. QED
    BY <1>0, <1>1, <1>2, <2>2, <2>3, <2>4 DEF DealInv
<1>3. ASSUME NEW i \in InBucket(b), Joins(i) PROVE DealInv'
  <2> DEFINE n == Len(members)
  <2>1. /\ n \in Nat /\ Len(members') = n + 1
        /\ DOMAIN members = 1..n /\ DOMAIN members' = 1..(n + 1)
        /\ \A p \in 1..n : members'[p] = members[p]
        /\ members'[n + 1] = i
        /\ Picked' = Picked \cup {i}
    BY <1>3, Kinds, AppendPool DEF Joins
  <2>2. \A c : Waiting(c)' \subseteq Waiting(c)
    BY <1>1, <2>1 DEF Waiting
  <2>3. Diverse'
    <3> SUFFICES ASSUME NEW d \in Range(Preferred), NEW c \in Range(Preferred),
                        NEW p \in DOMAIN members', NEW q \in DOMAIN members',
                        p < q, members'[p] \in InBucket(d), members'[q] \in InBucket(d),
                        \A r \in p..q : members'[r] \notin InBucket(c)
                 PROVE  Waiting(c) = {}
      BY <1>1, <2>2 DEF Diverse
    <3>1. p \in 1..n /\ q \in 1..(n + 1)
      BY <2>1
    <3>2. CASE q \in 1..n
      <4>1. \A r \in p..q : r \in 1..n /\ members[r] \notin InBucket(c)
        BY <2>1, <3>1, <3>2
      <4>2. QED
        BY <2>1, <3>1, <3>2, <4>1 DEF DealInv, Diverse
    <3>3. CASE q = n + 1
      <4>1. d = b
        BY <1>3, <2>1, <3>3, Kinds
      <4>2. PICK k \in DOMAIN Preferred : c = Preferred[k]
        BY DEF Range
      <4>3. k # turn
        BY <1>3, <2>1, <3>1, <3>3, <4>2
      <4>4. members[p] \in InBucket(Preferred[turn])
        BY <2>1, <3>1, <4>1
      <4>5. \A r \in p..n : members[r] \notin InBucket(c)
        <5>1. \A r \in p..n : r \in 1..n /\ r \in p..q
          BY <2>1, <3>1, <3>3
        <5>2. QED
          BY <2>1, <5>1
      <4>6. ~OnTheWay(turn, k)
        BY <1>0, <4>3, PoolAssumption DEF OnTheWay, PoolTypeOK
      <4>7. QED
        BY <1>0, <2>1, <3>1, <4>2, <4>3, <4>4, <4>5, <4>6 DEF DealInv
    <3>4. QED
      BY <2>1, <3>1, <3>2, <3>3
  <2>4. ASSUME NEW j \in DOMAIN Preferred, NEW k \in DOMAIN Preferred, NEW p \in DOMAIN members',
               j # k, members'[p] \in InBucket(Preferred[j]),
               \A r \in p..(n + 1) : members'[r] \notin InBucket(Preferred[k]),
               Waiting(Preferred[k])' # {}
        PROVE  OnTheWay(j, k)'
    <3>0. p \in 1..(n + 1) /\ n + 1 \in p..(n + 1)
      BY <2>1
    <3>1. turn # k
      BY <1>3, <2>1, <2>4, <3>0
    <3>2. CASE p = n + 1
      <4>1. Preferred[j] = b
        BY <1>3, <2>1, <2>4, <3>2, Kinds
      <4>2. j = turn
        BY <1>0, <4>1, PoolAssumption
      <4>3. QED
        BY <1>0, <2>4, <3>1, <4>2, TurnMoves
    <3>3. CASE p \in 1..n
      <4>1. \A r \in p..n : members[r] \notin InBucket(Preferred[k])
        <5>1. \A r \in p..n : r \in 1..n /\ r \in p..(n + 1)
          BY <2>1, <3>3
        <5>2. QED
          BY <2>1, <2>4, <5>1
      <4>2. Waiting(Preferred[k]) # {}
        BY <2>2, <2>4
      <4>3. members[p] \in InBucket(Preferred[j])
        BY <2>1, <2>4, <3>3
      <4>4. OnTheWay(j, k)
        BY <2>1, <2>4, <3>3, <4>1, <4>2, <4>3 DEF DealInv
      <4>5. QED
        BY <1>0, <2>4, <3>1, <4>4, TurnMoves
    <3>4. QED
      BY <2>1, <3>0, <3>2, <3>3
  <2>5. QED
    BY <1>0, <1>1, <2>1, <2>3, <2>4 DEF DealInv
<1>4. QED
  BY <1>0, <1>2, <1>3, PickBucket

LEMMA NextDeal == PoolTypeOK /\ OrderOK /\ DealInv /\ [PoolNext]_poolVars => DealInv'
<1> SUFFICES ASSUME PoolTypeOK, OrderOK, DealInv, [PoolNext]_poolVars PROVE DealInv'
  OBVIOUS
<1>1. servers' = servers
  BY SameInput DEF input
<1>2. (\A c : InBucket(c)' = InBucket(c)) /\ Ordinary' = Ordinary
  BY <1>1, SameSets, OrdinarySame
<1>3. ASSUME NEW i \in WlNodes \cup Priority, Joins(i), stage' = stage, stage # "preferred"
      PROVE  DealInv'
  <2>1. i \in DOMAIN servers /\ i \notin Ordinary /\ \A b : i \notin InBucket(b)
    BY Kinds, OrdinaryKinds
  <2>2. Diverse'
    BY <1>1, <1>3, <2>1, OtherJoins DEF DealInv
  <2>3. Picked' = Picked \cup {i}
    BY <1>3, <2>1, AppendPool DEF Joins
  <2>4. QED
    BY <1>2, <1>3, <2>1, <2>2, <2>3 DEF DealInv
<1>4. CASE Seed
  <2>1. stage' = stage /\ stage = "seed"
    BY <1>4 DEF Seed
  <2>2. QED
    BY <1>3, <1>4, <2>1, PickWlSeed
<1>5. CASE Prioritise
  <2>1. stage' = stage /\ stage = "priority"
    BY <1>5 DEF Prioritise
  <2>2. QED
    BY <1>3, <1>5, <2>1, PickPriority
<1>6. CASE Resort
  <2>1. stage' = stage /\ stage = "resort"
    BY <1>6 DEF Resort
  <2>2. QED
    BY <1>3, <1>6, <2>1, PickWl
<1>7. CASE Deal /\ stage = "preferred"
  BY <1>1, <1>7, DealDiverse
<1>8. CASE Deal /\ stage = "rest"
  <2>0. stage' = "rest" /\ "rest" \notin Early
    BY <1>8 DEF Deal, Early
  <2>1. order[turn] \notin Range(Preferred)
    <3>1. order[turn] \in Range(order)
      BY DEF PoolTypeOK, Range
    <3>2. order[turn] \in Other \cup Range(Weak)
      BY <1>8, <3>1 DEF OrderOK
    <3>3. QED
      BY <3>2, PoolAssumption DEF Other
  <2>2. CASE UNCHANGED members
    <3>1. Diverse'
      BY <1>2, <2>2 DEF DealInv, Diverse, Waiting, Picked
    <3>2. QED
      BY <2>0, <3>1 DEF DealInv
  <2>3. ASSUME NEW i \in InBucket(order[turn]), Joins(i) PROVE DealInv'
    <3>1. i \in DOMAIN servers /\ \A b \in Range(Preferred) : i \notin InBucket(b)
      BY <2>1, Kinds
    <3>2. Diverse'
      BY <1>1, <2>3, <3>1, OtherJoins DEF DealInv
    <3>3. QED
      BY <2>0, <3>2 DEF DealInv
  <2>4. QED
    BY <1>8, <2>2, <2>3, PickBucket
<1>9. CASE EndSeed \/ EndPriority \/ EndDeal \/ EndResort \/ UNCHANGED poolVars
  <2>1. members' = members /\ Picked' = Picked /\ \A c : Waiting(c)' = Waiting(c)
    <3>1. members' = members
      BY <1>9 DEF EndSeed, EndPriority, EndDeal, EndResort, poolVars
    <3>2. QED
      BY <1>2, <3>1 DEF Picked, Waiting
  <2>2. Diverse'
    BY <1>2, <2>1 DEF DealInv, Diverse
  <2>3. CASE EndPriority
    <3>1. Ordinary \cap Picked = {} /\ stage' = "preferred"
      BY <2>3 DEF EndPriority, DealInv, Early
    <3>2. \A k \in DOMAIN Preferred : \A p \in DOMAIN members : members[p] \notin InBucket(Preferred[k])
      BY <3>1, PreferredBuckets DEF Picked, Range
    <3>3. QED
      BY <1>2, <2>1, <2>2, <3>1, <3>2 DEF DealInv, Early
  <2>4. CASE EndSeed
    BY <1>2, <2>1, <2>2, <2>4 DEF EndSeed, DealInv, Early
  <2>5. CASE EndDeal \/ EndResort
    <3>1. stage' \in Late /\ stage' \notin Early /\ stage' # "preferred"
      BY <2>5 DEF EndDeal, EndResort, Rest, EndRobin, Late, Early
    <3>2. QED
      BY <2>2, <3>1 DEF DealInv
  <2>6. CASE UNCHANGED poolVars
    BY <1>2, <2>1, <2>2, <2>6 DEF poolVars, DealInv, OnTheWay
  <2>7. QED
    BY <1>9, <2>3, <2>4, <2>5, <2>6
<1>10. QED
  <2>1. Deal => stage \in {"preferred", "rest"}
    BY DEF Deal, Robin
  <2>2. QED
    BY <1>4, <1>5, <1>6, <1>7, <1>8, <1>9, <2>1 DEF PoolNext

\* The pool is spread over the preferred protocols: none gets another server
\* while a second one that has servers left was not served since.
THEOREM PoolDiverse == PoolSpec => []Diverse
<1>1. PoolInit => DealInv
  <2> SUFFICES ASSUME PoolInit PROVE DealInv
    OBVIOUS
  <2>1. DOMAIN members = {} /\ Picked = {} /\ stage = "seed"
    BY DEF PoolInit, Picked, Range
  <2>2. QED
    BY <2>1 DEF DealInv, Diverse
<1>2. DealInv => Diverse
  BY DEF DealInv
<1>3. QED
  BY <1>1, <1>2, NextDeal, Typed, PTL DEF PoolSpec
=============================================================================
