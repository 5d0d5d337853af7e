---------------------------- MODULE ProxyConfig -----------------------------
(***************************************************************************)
(* The proxy's configuration on the router, package homeproxy of uci, and  *)
(* the tasks of the screens that change it (engine/rules.py, the selection *)
(* part of engine/nodes.py, ui/rules_screen.py and the other screens that  *)
(* call them).                                                             *)
(*                                                                         *)
(* RouterClient runs one command at a time, but a task is many commands:   *)
(* those of overlapping tasks interleave.  `uci set` stages a change every *)
(* other command sees; `uci commit` saves all that is staged, whoever      *)
(* staged it.  A command that fails ends its task where it stands.         *)
(*                                                                         *)
(* A rule is an anonymous section.  uci names it by its position among all *)
(* the sections, rules and servers, when the file was last written; a new  *)
(* one gets the next number.  Deleting leaves the names of the others as   *)
(* they are, the commit numbers them anew: a name that a task or a screen  *)
(* still holds may then be another rule's, or nobody's.                    *)
(*                                                                         *)
(* The user picks from lists that may be stale: any server and any rule.   *)
(***************************************************************************)
EXTENDS Naturals, FiniteSets

CONSTANTS
  Worker,      \* the threads
  Node,        \* the servers
  Usable,      \* those build_urltest_pool picks
  Source,      \* the services and lists rules are about
  Refilter,    \* the list of the default rule
  None,        \* no value
  MaxNumber,   \* bound: the number of a section
  MaxTasks     \* bound: the tasks started

ASSUME ConfigAssumption ==
  /\ IsFiniteSet(Node) /\ Usable \subseteq Node
  /\ Refilter \in Source
  /\ None \notin Node \cup Source
  /\ Node \cap {"main-out", "urltest"} = {}
  /\ None \notin {"main-out", "urltest"}
  /\ MaxNumber \in Nat /\ Cardinality(Node) <= MaxNumber /\ MaxTasks \in Nat

Section == 1..MaxNumber
Target == Node \cup {"main-out", "urltest"}
Mode == {"unset", "legacy", "russia", "region", "global"}
Rule == [source : Source \cup {None}, node : Target \cup {None}, enabled : BOOLEAN, pool : SUBSET Node]
WholeRule(src) == [source |-> src, node |-> "main-out", enabled |-> TRUE, pool |-> {}]
NoRule == [source |-> None, node |-> None, enabled |-> FALSE, pool |-> {}]

VARIABLES
  nodes,    \* the sections of type node, as staged
  main,     \* main_node
  pool,     \* main_urltest_nodes
  mode,     \* routing_mode
  listed,   \* the sections of type proxy_ru_rule, by number; the servers' come first
  rules,    \* the options of each
  count,    \* the number of the last section
  saved,    \* the configuration last committed
  applied,  \* the main node the service runs with
  at,       \* the next command of each thread's task
  job,      \* what each task is for
  tasks,    \* how many were started
  torn,     \* did a task fail and leave changes staged?
  failed,   \* history: did any task fail?
  raced,    \* history: did two tasks that add rules overlap?
  shifted   \* history: did a commit rename rules while another task held a name?

conf == <<nodes, main, pool, mode, listed, rules, count>>
vars == <<conf, saved, applied, at, job, tasks, torn, failed, raced, shifted>>
book == <<listed, rules, count>>
selection == <<main, pool>>
history == <<tasks, failed, raced, shifted>>

\* The commands of a task, by the first change it makes: none yet, then staged.
Reads == {"seek", "add", "removeRule", "raw", "migrate", "default", "noRules",
          "setMain", "deleteNode", "setMode", "restart"}
Open == {"source", "node", "enabled", "emptyRule", "build", "fillRule",
         "emptyMain", "fillMain", "unpool", "testMain", "unsetMain", "commit"}
Steps == {"idle"} \cup Reads \cup Open

Job == [source : Source \cup {None}, node : Target \cup {None}, sec : Section \cup {0},
        todo : SUBSET Node, next : {"idle", "restart", "noRules"}]
NoJob == [source |-> None, node |-> None, sec |-> 0, todo |-> {}, next |-> "idle"]

\* The steps of add_rule, and those that may lead to one (ensure_mode_defaults).
Adding == {"seek", "add", "source", "node", "enabled", "emptyRule", "build", "fillRule"}
Adder(w) ==
  \/ at[w] \in Adding \cup {"raw", "migrate", "default", "noRules"}
  \/ at[w] = "commit" /\ job[w].next = "noRules"

TypeOK ==
  /\ nodes \subseteq Node
  /\ main \in Target \cup {None}
  /\ pool \subseteq Node
  /\ mode \in Mode
  /\ listed \subseteq Section
  /\ rules \in [Section -> Rule]
  /\ count \in Nat
  /\ saved \in [nodes : SUBSET Node, main : Target \cup {None}, pool : SUBSET Node,
                mode : Mode, listed : SUBSET Section, rules : [Section -> Rule]]
  /\ applied \in Target \cup {None}
  /\ at \in [Worker -> Steps]
  /\ job \in [Worker -> Job]
  /\ tasks \in 0..MaxTasks
  /\ torn \in BOOLEAN /\ failed \in BOOLEAN /\ raced \in BOOLEAN /\ shifted \in BOOLEAN

Config == [nodes |-> nodes, main |-> main, pool |-> pool, mode |-> mode,
           listed |-> listed, rules |-> rules]

\* A rule's number when the file is written.
Rank(s) == Cardinality({t \in listed : t <= s})
NewNumber(s) == Cardinality(nodes) + Rank(s)

\* The router has its servers and no rules yet, or in the Russian mode as many as
\* the bound allows: whole, each of another source, through the main server.
Init ==
  /\ nodes = Node
  /\ main = None
  /\ pool = {}
  /\ count \in {Cardinality(nodes), MaxNumber}
  /\ mode \in IF count = Cardinality(nodes) THEN {"unset", "legacy", "russia"} ELSE {"russia"}
  /\ listed = (Cardinality(nodes) + 1)..count
  /\ \E src \in [listed -> Source] :
       /\ \A s, t \in listed : src[s] = src[t] => s = t
       /\ rules = [s \in Section |-> IF s \in listed THEN WholeRule(src[s]) ELSE NoRule]
  /\ saved = Config
  /\ applied = None
  /\ at = [w \in Worker |-> "idle"]
  /\ job = [w \in Worker |-> NoJob]
  /\ tasks = 0
  /\ torn = FALSE /\ failed = FALSE /\ raced = FALSE /\ shifted = FALSE

Goto(w, step) == at' = [at EXCEPT ![w] = step]

-----------------------------------------------------------------------------
(* Tasks start.                                                             *)

Start(w, step, j) ==
  /\ at[w] = "idle"
  /\ tasks < MaxTasks
  /\ tasks' = tasks + 1
  /\ Goto(w, step)
  /\ job' = [job EXCEPT ![w] = j]
  /\ UNCHANGED <<conf, saved, applied, torn, failed, shifted>>

\* A task that may add a rule starts; does another one run?
StartAdder(w, step, j) ==
  /\ Start(w, step, j)
  /\ raced' = (raced \/ \E v \in Worker : Adder(v))

\* "+": the button stays enabled while the rule is added.
AddBinding(w) ==
  \E src \in Source, n \in Target :
    StartAdder(w, "seek", [NoJob EXCEPT !.source = src, !.node = n])

RemoveBinding(w) ==
  \E s \in Section : Start(w, "removeRule", [NoJob EXCEPT !.sec = s]) /\ UNCHANGED raced

OnMode(w) == Start(w, "setMode", NoJob) /\ UNCHANGED raced

\* The rules screen of the wizard reads the rules, and seeds them.
QuickRefresh(w) == StartAdder(w, "raw", NoJob)

\* A server is chosen, or the automatic pool with at least one.
ApplyMain(w) ==
  \E n \in Node \cup {"urltest"} : \E ns \in SUBSET Node :
    /\ (n = "urltest") = (ns # {})
    /\ Start(w, "setMain", [NoJob EXCEPT !.node = n, !.todo = ns, !.next = "restart"])
    /\ UNCHANGED raced

DeleteNode(w) ==
  \E n \in Node : Start(w, "deleteNode", [NoJob EXCEPT !.node = n]) /\ UNCHANGED raced

-----------------------------------------------------------------------------
(* add_rule and remove_rule                                                 *)

SameService == UNCHANGED <<saved, applied, torn, history>>

\* Mutant: the list is not asked, a section is always added.
SeekNothing(w) ==
  /\ at[w] = "seek"
  /\ Goto(w, "add")
  /\ UNCHANGED <<conf, job>> /\ SameService

\* list_rules: is there a rule for the source?
Seek(w) ==
  /\ at[w] = "seek"
  /\ LET found == {s \in listed : rules[s].source = job[w].source}
     IN  \/ found = {} /\ Goto(w, "add") /\ UNCHANGED job
         \/ \E s \in found : Goto(w, "source") /\ job' = [job EXCEPT ![w].sec = s]
  /\ UNCHANGED conf /\ SameService

\* uci add: the next number.
AddSection(w) ==
  /\ at[w] = "add"
  /\ count < MaxNumber
  /\ count' = count + 1
  /\ listed' = listed \cup {count + 1}
  /\ job' = [job EXCEPT ![w].sec = count + 1]
  /\ Goto(w, "source")
  /\ UNCHANGED <<nodes, selection, mode, rules>> /\ SameService

\* uci set, on whatever has the name now; it fails silently when nothing has.
SetRule(w, r) ==
  /\ rules' = IF job[w].sec \in listed THEN [rules EXCEPT ![job[w].sec] = r] ELSE rules
  /\ UNCHANGED <<nodes, selection, mode, listed, count>>

\* Mutant: `enabled` is not set.
SetNodeOnly(w) ==
  /\ at[w] = "node"
  /\ SetRule(w, [rules[job[w].sec] EXCEPT !.node = job[w].node])
  /\ Goto(w, IF job[w].node = "urltest" THEN "emptyRule" ELSE "commit")
  /\ UNCHANGED job /\ SameService

SetSource(w) ==
  /\ at[w] = "source"
  /\ SetRule(w, [rules[job[w].sec] EXCEPT !.source = job[w].source])
  /\ Goto(w, "node")
  /\ UNCHANGED job /\ SameService

SetNode(w) ==
  /\ at[w] = "node"
  /\ SetRule(w, [rules[job[w].sec] EXCEPT !.node = job[w].node])
  /\ Goto(w, "enabled")
  /\ UNCHANGED job /\ SameService

SetEnabled(w) ==
  /\ at[w] = "enabled"
  /\ SetRule(w, [rules[job[w].sec] EXCEPT !.enabled = TRUE])
  /\ Goto(w, IF job[w].node = "urltest" THEN "emptyRule" ELSE "commit")
  /\ UNCHANGED job /\ SameService

\* uci delete of the rule's urltest_nodes
EmptyRulePool(w) ==
  /\ at[w] = "emptyRule"
  /\ SetRule(w, [rules[job[w].sec] EXCEPT !.pool = {}])
  /\ Goto(w, "build")
  /\ UNCHANGED job /\ SameService

\* build_urltest_pool(list_nodes, active_core)
BuildRulePool(w) ==
  /\ at[w] = "build"
  /\ job' = [job EXCEPT ![w].todo = nodes \cap Usable]
  /\ Goto(w, IF nodes \cap Usable = {} THEN "commit" ELSE "fillRule")
  /\ UNCHANGED conf /\ SameService

\* uci add_list, one server at a time; here a missing section is an error (Fail).
FillRulePool(w) ==
  /\ at[w] = "fillRule" /\ job[w].sec \in listed
  /\ \E n \in job[w].todo :
       /\ SetRule(w, [rules[job[w].sec] EXCEPT !.pool = @ \cup {n}])
       /\ job' = [job EXCEPT ![w].todo = @ \ {n}]
       /\ Goto(w, IF job[w].todo = {n} THEN "commit" ELSE "fillRule")
  /\ SameService

RemoveRule(w) ==
  /\ at[w] = "removeRule"
  /\ listed' = listed \ {job[w].sec}
  /\ rules' = [rules EXCEPT ![job[w].sec] = NoRule]
  /\ job' = [job EXCEPT ![w] = NoJob]
  /\ Goto(w, "commit")
  /\ UNCHANGED <<nodes, selection, mode, count>> /\ SameService

\* A task that adds a rule works on the section it names.
Holds(w) == at[w] \in Open /\ job[w].sec # 0

\* Does writing the file rename rules under another task than that of w?
Renames(w) == (\E s \in listed : NewNumber(s) # s) /\ \E v \in Worker \ {w} : Holds(v)

\* The file is written: its sections are numbered in their order.
Renumber ==
  /\ listed' = {NewNumber(s) : s \in listed}
  /\ rules' = [n \in Section |->
                 IF \E s \in listed : NewNumber(s) = n
                 THEN rules[CHOOSE s \in listed : NewNumber(s) = n]
                 ELSE NoRule]
  /\ count' = Cardinality(nodes) + Cardinality(listed)
  /\ UNCHANGED <<nodes, selection, mode>>

\* uci commit homeproxy.  The overview commits again, for the interval and the
\* tolerance of the pool, before it restarts the service.
Commit(w) ==
  /\ at[w] = "commit"
  /\ Renumber
  /\ saved' = Config'
  /\ shifted' = (shifted \/ Renames(w))
  /\ torn' = FALSE
  /\ \/ Goto(w, job[w].next) /\ job' = [job EXCEPT ![w] = NoJob]
     \/ job[w].next = "restart" /\ job[w].node = "urltest" /\ UNCHANGED <<at, job>>
  /\ UNCHANGED <<applied, tasks, failed, raced>>

-----------------------------------------------------------------------------
(* ensure_mode_defaults and the mode menu                                   *)

SetMode(w) ==
  /\ at[w] = "setMode"
  /\ \E m \in {"russia", "region", "global"} : mode' = m
  /\ Goto(w, "commit")
  /\ UNCHANGED <<nodes, selection, book, job>> /\ SameService

\* uci get routing_mode
ReadMode(w) ==
  /\ at[w] = "raw"
  /\ Goto(w, CASE mode = "legacy" -> "migrate" [] mode = "unset" -> "default"
               [] mode = "russia" -> "noRules" [] OTHER -> "idle")
  /\ UNCHANGED <<conf, job>> /\ SameService

\* Mutant: the stale value is written, not the one it maps to.
MigrateSame(w) ==
  /\ at[w] = "migrate"
  /\ mode' = "mainland"
  /\ Goto(w, "commit")
  /\ UNCHANGED <<nodes, selection, book, job>> /\ SameService

\* A stale value of China becomes the current one.
Migrate(w) ==
  /\ at[w] = "migrate"
  /\ mode' = "region"
  /\ Goto(w, "commit")
  /\ UNCHANGED <<nodes, selection, book, job>> /\ SameService

\* The mode of the app's language.
SetDefault(w) ==
  /\ at[w] = "default"
  /\ \E m \in {"russia", "region"} :
       /\ mode' = m
       /\ job' = [job EXCEPT ![w].next = IF m = "russia" THEN "noRules" ELSE "idle"]
  /\ Goto(w, "commit")
  /\ UNCHANGED <<nodes, selection, book>> /\ SameService

\* No rules: Re:filter goes through the main pool.
SeedRule(w) ==
  /\ at[w] = "noRules"
  /\ \/ listed # {} /\ Goto(w, "idle") /\ UNCHANGED job
     \/ /\ listed = {}
        /\ Goto(w, "seek")
        /\ job' = [job EXCEPT ![w] = [NoJob EXCEPT !.source = Refilter, !.node = "main-out"]]
  /\ UNCHANGED conf /\ SameService

-----------------------------------------------------------------------------
(* set_main_node, delete_nodes                                              *)

\* Mutant: the pool is filled before it is emptied.
SetMainFull(w) ==
  /\ at[w] = "setMain"
  /\ main' = job[w].node
  /\ pool' = IF job[w].node = "urltest" THEN job[w].todo ELSE pool
  /\ job' = [job EXCEPT ![w].todo = {}]
  /\ Goto(w, IF job[w].node = "urltest" THEN "emptyMain" ELSE "commit")
  /\ UNCHANGED <<nodes, mode, book>> /\ SameService

SetMain(w) ==
  /\ at[w] = "setMain"
  /\ main' = job[w].node
  /\ Goto(w, IF job[w].node = "urltest" THEN "emptyMain" ELSE "commit")
  /\ UNCHANGED <<nodes, pool, mode, book, job>> /\ SameService

EmptyMainPool(w) ==
  /\ at[w] = "emptyMain"
  /\ pool' = {}
  /\ Goto(w, IF job[w].todo = {} THEN "commit" ELSE "fillMain")
  /\ UNCHANGED <<nodes, main, mode, book, job>> /\ SameService

FillMainPool(w) ==
  /\ at[w] = "fillMain"
  /\ \E n \in job[w].todo :
       /\ pool' = pool \cup {n}
       /\ job' = [job EXCEPT ![w].todo = @ \ {n}]
       /\ Goto(w, IF job[w].todo = {n} THEN "commit" ELSE "fillMain")
  /\ UNCHANGED <<nodes, main, mode, book>> /\ SameService

\* Mutant: the service is not restarted.
RestartNothing(w) ==
  /\ at[w] = "restart"
  /\ Goto(w, "idle")
  /\ UNCHANGED <<conf, job>> /\ SameService

\* apply_and_restart: the service reads the configuration as it is staged.
Restart(w) ==
  /\ at[w] = "restart"
  /\ applied' = main
  /\ Goto(w, "idle")
  /\ UNCHANGED <<conf, saved, job, torn, history>>

RemoveNode(w) ==
  /\ at[w] = "deleteNode"
  /\ nodes' = nodes \ {job[w].node}
  /\ Goto(w, "unpool")
  /\ UNCHANGED <<selection, mode, book, job>> /\ SameService

Unpool(w) ==
  /\ at[w] = "unpool"
  /\ pool' = pool \ {job[w].node}
  /\ Goto(w, "testMain")
  /\ UNCHANGED <<nodes, main, mode, book, job>> /\ SameService

\* uci get main_node
TestMain(w) ==
  /\ at[w] = "testMain"
  /\ Goto(w, IF main = job[w].node THEN "unsetMain" ELSE "commit")
  /\ UNCHANGED <<conf, job>> /\ SameService

UnsetMain(w) ==
  /\ at[w] = "unsetMain"
  /\ main' = None
  /\ Goto(w, "commit")
  /\ UNCHANGED <<nodes, pool, mode, book, job>> /\ SameService

-----------------------------------------------------------------------------
(* Ends.                                                                    *)

\* A command times out, fails or the connection breaks: the task ends.
Fail(w) ==
  /\ at[w] # "idle"
  /\ Goto(w, "idle")
  /\ job' = [job EXCEPT ![w] = NoJob]
  /\ torn' = (torn \/ at[w] \in Open)
  /\ failed' = TRUE
  /\ UNCHANGED <<conf, saved, applied, tasks, raced, shifted>>

\* The router restarts: what was staged is lost, and so is every connection.
Reboot ==
  /\ nodes' = saved.nodes /\ main' = saved.main /\ pool' = saved.pool
  /\ mode' = saved.mode /\ listed' = saved.listed /\ rules' = saved.rules
  /\ count' = Cardinality(saved.nodes) + Cardinality(saved.listed)
  /\ applied' = saved.main
  /\ at' = [w \in Worker |-> "idle"]
  /\ job' = [w \in Worker |-> NoJob]
  /\ torn' = FALSE
  /\ failed' = TRUE
  /\ UNCHANGED <<saved, tasks, raced, shifted>>

Begin(w) ==
  AddBinding(w) \/ RemoveBinding(w) \/ OnMode(w) \/ QuickRefresh(w) \/ ApplyMain(w) \/ DeleteNode(w)

AddRule(w) ==
  \/ Seek(w) \/ AddSection(w) \/ SetSource(w) \/ SetNode(w) \/ SetEnabled(w)
  \/ EmptyRulePool(w) \/ BuildRulePool(w) \/ FillRulePool(w)

EnsureDefaults(w) == ReadMode(w) \/ Migrate(w) \/ SetDefault(w) \/ SeedRule(w)

SetMainNode(w) == SetMain(w) \/ EmptyMainPool(w) \/ FillMainPool(w) \/ Restart(w)

DeleteNodes(w) == RemoveNode(w) \/ Unpool(w) \/ TestMain(w) \/ UnsetMain(w)

Next ==
  \/ \E w \in Worker :
       \/ Begin(w) \/ AddRule(w) \/ RemoveRule(w) \/ SetMode(w) \/ EnsureDefaults(w)
       \/ SetMainNode(w) \/ DeleteNodes(w) \/ Commit(w) \/ Fail(w)
  \/ Reboot

Spec == Init /\ [][Next]_vars

-----------------------------------------------------------------------------
(* Properties *)

AtRest == \A w \in Worker : at[w] = "idle"

\* Whatever overlaps, a staged change is not forgotten: a task that will commit
\* it is still on its way, or one failed.
StagedHasAuthor == Config # saved => torn \/ \E w \in Worker : at[w] \in Open

\* Two rules of one source ("only the first rule for a source applies") come
\* from two additions that overlapped, or from a commit of another task that
\* renamed the rule an addition was about to write, and from nothing else: no
\* removal between additions, no failure halfway and no reboot makes them.
UniqueUnlessRaced ==
  ~raced /\ ~shifted =>
    \A s, t \in listed : rules[s].source # None /\ rules[s].source = rules[t].source => s = t

\* "Without enabled the rule is silently skipped": as long as no task failed and
\* no rule was renamed under the task that writes it, a saved rule is whole or
\* somebody is completing it.
RulesWhole ==
  ~failed /\ ~shifted => \A s \in saved.listed :
    \/ saved.rules[s].source # None /\ saved.rules[s].node # None /\ saved.rules[s].enabled
    \/ \E w \in Worker : Holds(w) /\ job[w].sec = s

\* "An empty pool makes the urltest outbound have no members": the saved pool is
\* empty only for a while, or after a failure or the deletion of its servers.
PoolKept ==
  AtRest /\ ~failed /\ Node \subseteq nodes /\ saved.main = "urltest" => saved.pool # {}

\* However the choices of a main server overlap, when all of them ended the
\* service runs with the one that is saved (unless it was deleted).
MainApplied == AtRest /\ ~failed => saved.main \in {applied, None}
=============================================================================
