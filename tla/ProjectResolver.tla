---------------------------- MODULE ProjectResolver ----------------------------
(* The packages of a project: Piperine.toml, Piperine.lock and the checkouts    *)
(* below target/deps, shared by the processes that resolve dependencies: the    *)
(* command line, and the editor's language server, which resolves at every      *)
(* analysis. A step of a process is what it does to one file or one checkout;   *)
(* between two of them the other process may run, upstream may move, and the    *)
(* process may die.                                                             *)
(*                                                                              *)
(* A commit is a number, newer ones greater; the manifest and the artifact a    *)
(* package ships are those of the commit that is checked out.                   *)
EXTENDS Integers

CONSTANTS
  Procs, Cli,     \* the processes; those that run `add`, `remove` and `run`
  AtRoot,         \* processes whose working directory is the project root
  Packages,
  Local,          \* packages with a path source
  Plugins,        \* packages that carry a piperine-plugin.toml
  MaxCommit,      \* bound: commits upstream of each package
  Needs,          \* dependencies a package declares at a commit
  Declared,       \* dependencies of the project to begin with
  Asked,          \* dependencies `add` is asked for
  MaxOps          \* bound: commands of each process

Absent  == -1
Latest  == 0
Commits == UNION {1..MaxCommit[p] : p \in Packages}
Dep     == [pkg : Packages, at : {Latest} \cup Commits]

ASSUME ResolverAssumption ==
  /\ Cli \subseteq Procs /\ AtRoot \subseteq Procs
  /\ Packages # {} /\ Local \subseteq Packages /\ Plugins \subseteq Packages \ Local
  /\ MaxCommit \in [Packages -> Nat \ {0}] /\ MaxOps \in [Procs -> Nat]
  /\ Needs \in [Packages \X Commits -> SUBSET Dep]
  /\ Declared \in [Packages -> {Absent, Latest} \cup Commits] /\ Asked \subseteq Dep

VARIABLES
  manifest,     \* [dependencies] of the root manifest
  lock,         \* Piperine.lock: its entries, NoFile, or Torn while it is rewritten
  content,      \* what the lock file last held as a whole
  tree,         \* commit checked out for each package
  upstream,     \* newest commit of each package's repository
  proc,         \* the processes
  begun,        \* commands each has begun
  disturbed     \* another process has written since this one's command began

files == <<manifest, lock, content, tree>>
vars  == <<manifest, lock, content, tree, upstream, proc, begun, disturbed>>

Entries == [Packages -> {Absent} \cup Commits]
None    == [p \in Packages |-> Absent]
Lock    == [deps : Entries, approved : Entries]
Empty   == [deps |-> None, approved |-> None]
NoFile  == [deps |-> None, approved |-> <<>>]
Torn    == [deps |-> <<>>, approved |-> <<>>]

\* (mutant: a file that does not parse is an empty one)
ParsesAnything(l) == TRUE

\* PiperineLock::load: whether the file parses, and what it says.
Parses(l) == l # Torn
Loaded(l) == IF l \in {NoFile, Torn} THEN Empty ELSE l

AnyPackage == CHOOSE p \in Packages : TRUE

\* A process: what it does next, for which command and about which package; the
\* Resolver (lock in memory, dependencies left with their level of recursion,
\* visited); what it writes to the lock file and why; plugins still to load; the
\* files an `add` goes back to; how the command ended.
Idle == [pc |-> "idle", op |-> "build", subject |-> AnyPackage,
         mem |-> Empty, left |-> {}, visited |-> {}, saving |-> NoFile,
         why |-> "resolved", plugins |-> {},
         before |-> [manifest |-> Declared, lock |-> NoFile], result |-> "none"]

Becomes(s, me) == proc' = [proc EXCEPT ![s] = me]

\* Process s wrote a file: what the others are doing is no longer alone.
Wrote(s) == disturbed' = [q \in Procs |-> q # s \/ disturbed[q]]

\* How a command ends. An `add` that fails first puts manifest and lock back.
Done(me)    == [Idle EXCEPT !.op = me.op, !.result = "ok", !.visited = me.visited]
GivenUp(me) == [Idle EXCEPT !.op = me.op, !.result = "failed", !.before = me.before]
Failed(me)  == IF me.op = "add" THEN [me EXCEPT !.pc = "revert"] ELSE GivenUp(me)

Saving(me, l, reason) == [me EXCEPT !.pc = "save", !.saving = l, !.why = reason]
-------------------------------------------------------------------------------
(* Commands begin.                                                              *)

Begin(s, command, p) ==
  /\ proc[s].pc = "idle" /\ begun[s] < MaxOps[s]
  /\ begun' = [begun EXCEPT ![s] = @ + 1]
  /\ Becomes(s, [Idle EXCEPT !.pc = "load", !.op = command, !.subject = p,
                             !.before = IF command = "add"
                                        THEN [manifest |-> manifest, lock |-> lock] ELSE @])
  /\ UNCHANGED <<lock, content, tree, upstream>>

\* project_source_map alone (build, check, test, the editor), or the resolution
\* that PluginHost::load starts with (run).
Build(s) ==
  /\ \/ Begin(s, "build", AnyPackage)
     \/ s \in Cli /\ Begin(s, "run", AnyPackage)
  /\ disturbed' = [disturbed EXCEPT ![s] = FALSE]
  /\ UNCHANGED manifest

\* `add` and `remove` write the manifest first.
Add(s, d) ==
  /\ s \in Cli /\ Begin(s, "add", d.pkg)
  /\ manifest' = [manifest EXCEPT ![d.pkg] = d.at]
  /\ disturbed' = [q \in Procs |-> q # s]

Remove(s, p) ==
  /\ s \in Cli /\ manifest[p] # Absent /\ Begin(s, "remove", p)
  /\ manifest' = [manifest EXCEPT ![p] = Absent]
  /\ disturbed' = [q \in Procs |-> q # s]
-------------------------------------------------------------------------------
(* Resolver::resolve.                                                           *)

\* (mutant: packages the manifest does not name are taken along)
RootDepsAll(m) == {[pkg |-> p, at |-> m[p]] : p \in Packages}

\* The dependencies the manifest names.
RootDeps(m) == {[pkg |-> p, at |-> m[p]] : p \in {q \in Packages : m[q] # Absent}}

At(level, deps) == {[level |-> level, dep |-> d] : d \in deps}

Load(s) ==
  /\ proc[s].pc = "load"
  /\ Becomes(s, IF Parses(lock)
                THEN [proc[s] EXCEPT !.pc = "walk", !.mem = Loaded(lock),
                                     !.left = At(1, RootDeps(manifest))]
                ELSE Failed(proc[s]))
  /\ UNCHANGED <<files, upstream, begun, disturbed>>

\* (mutant: the locked commit is not looked at)
WantedNewest(l, d) == IF d.at = Latest THEN upstream[d.pkg] ELSE d.at

\* What sync_and_checkout is asked for: the locked commit if there is one,
\* whatever the requirement says by now. `latest` stands for the commit the
\* reference of that name resolves to (git.rs takes a local branch of the name
\* first, then the remote one), here upstream's newest.
Wanted(l, d) ==
  IF l.deps[d.pkg] # Absent THEN l.deps[d.pkg]
  ELSE IF d.at = Latest THEN upstream[d.pkg] ELSE d.at

\* The commit is locked if the package is not yet.
Locked(l, p, c) == [l EXCEPT !.deps[p] = IF @ = Absent THEN c ELSE @]

\* (mutant: a package is entered every time it is met)
FreshAlways(me, p) == TRUE

\* Whether the walk goes into a package it meets.
Fresh(me, p) == p \notin me.visited

\* What is left at the innermost level goes first.
Innermost(me) == {e \in me.left : \A f \in me.left : f.level <= e.level}
Past(me, e)   == [me EXCEPT !.left = @ \ {e}]
Below(me, e)  == IF \E f \in me.left \ {e} : f.level = e.level THEN e.level + 1 ELSE e.level

\* (mutant: the manifest of a locked package is not read)
NeedsOfUnlocked(s, d, c) ==
  IF proc[s].mem.deps[d.pkg] # Absent THEN {} ELSE Needs[d.pkg, c]

\* The manifest of a path dependency is looked for below the working directory.
NeedsOf(s, d, c) ==
  IF d.pkg \in Local /\ s \notin AtRoot THEN {} ELSE Needs[d.pkg, c]

Into(s, e, c) ==
  [proc[s] EXCEPT !.visited = @ \cup {e.dep.pkg},
                  !.left = (@ \ {e}) \cup At(Below(proc[s], e), NeedsOf(s, e.dep, c))]

\* sync_and_checkout: the commit has to be there, in the clone or upstream.
Checkout(p, c) == c <= upstream[p] /\ tree' = [tree EXCEPT ![p] = c]

\* One turn of the loop of resolve_deps. The order is that of a HashMap; git and
\* the manifest it checks out may fail at any time, before the checkout or after.
Visit(s) ==
  LET me == proc[s] IN
  /\ me.pc = "walk"
  /\ \E e \in Innermost(me) :
     LET d == e.dep IN
       \/ /\ ~Fresh(me, d.pkg)
          /\ Becomes(s, Past(me, e))
          /\ UNCHANGED <<tree, disturbed>>
       \/ /\ Fresh(me, d.pkg) /\ d.pkg \in Local
          /\ Becomes(s, Into(s, e, upstream[d.pkg]))
          /\ UNCHANGED <<tree, disturbed>>
       \/ /\ Fresh(me, d.pkg) /\ d.pkg \notin Local
          /\ LET c == Wanted(me.mem, d)
             IN /\ Checkout(d.pkg, c)
                /\ \/ Becomes(s, [Into(s, e, c) EXCEPT !.mem = Locked(@, d.pkg, c)])
                   \/ Becomes(s, Failed(me))
          /\ Wrote(s)
       \/ /\ Fresh(me, d.pkg)
          /\ Becomes(s, Failed(me))
          /\ UNCHANGED <<tree, disturbed>>
  /\ UNCHANGED <<manifest, lock, content, upstream, begun>>

Walked(s) ==
  /\ proc[s].pc = "walk" /\ proc[s].left = {}
  /\ Becomes(s, Saving(proc[s], proc[s].mem, "resolved"))
  /\ UNCHANGED <<files, upstream, begun, disturbed>>

\* fs::write empties the file and then fills it.
Truncate(s) ==
  /\ proc[s].pc = "save" /\ proc[s].saving # NoFile
  /\ lock' = Torn
  /\ Becomes(s, [proc[s] EXCEPT !.pc = "write"])
  /\ Wrote(s)
  /\ UNCHANGED <<manifest, content, tree, upstream, begun>>

\* What a command does when the lock is saved.
Saved(me) ==
  CASE me.why = "reverted" -> GivenUp(me)
    [] me.why = "pinned"   -> [me EXCEPT !.pc = "trust"]
    [] me.why = "resolved" ->
         CASE me.op = "build"  -> Done(me)
           [] me.op = "run"    -> [me EXCEPT !.pc = "trust", !.plugins = me.visited \cap Plugins]
           [] me.op = "add"    -> [me EXCEPT !.pc = "consent"]
           [] me.op = "remove" -> [me EXCEPT !.pc = "cleanup"]

\* A file that was not there before an `add` is removed instead.
WriteOut(s) ==
  /\ \/ proc[s].pc = "write"
     \/ proc[s].pc = "save" /\ proc[s].saving = NoFile
  /\ lock' = proc[s].saving /\ content' = proc[s].saving
  /\ Becomes(s, Saved(proc[s]))
  /\ Wrote(s)
  /\ UNCHANGED <<manifest, tree, upstream, begun>>
-------------------------------------------------------------------------------
(* The rest of the commands.                                                    *)

\* `add`: the permissions of a plugin are put to the user.
Consent(s) ==
  /\ proc[s].pc = "consent"
  /\ \/ Becomes(s, Done(proc[s]))
     \/ proc[s].subject \in Plugins /\ Becomes(s, Failed(proc[s]))
  /\ UNCHANGED <<files, upstream, begun, disturbed>>

\* (mutant: the lock keeps what the add resolved)
KeptLock(me) == me.mem

\* The lock file an `add` that fails leaves.
OldLock(me) == me.before.lock

Revert(s) ==
  /\ proc[s].pc = "revert"
  /\ manifest' = proc[s].before.manifest
  /\ Becomes(s, Saving(proc[s], OldLock(proc[s]), "reverted"))
  /\ Wrote(s)
  /\ UNCHANGED <<lock, content, tree, upstream, begun>>

\* `remove`: the checkout goes with its last user.
Cleanup(s) ==
  LET p == proc[s].subject IN
  /\ proc[s].pc = "cleanup"
  /\ tree' = [tree EXCEPT ![p] = IF p \in proc[s].visited THEN @ ELSE Absent]
  /\ Becomes(s, Done(proc[s]))
  /\ Wrote(s)
  /\ UNCHANGED <<manifest, lock, content, upstream, begun>>

\* `run`: PluginHost::load, plugin by plugin. ensure_trusted compares the artifact
\* with the approval on file; without one it asks, and has the entry at hand.
EnsureTrusted(s) ==
  LET me == proc[s] IN
  /\ me.pc = "trust"
  /\ \E p \in me.plugins :
       LET known == Loaded(lock).approved[p] IN
       Becomes(s,
         IF ~Parses(lock) \/ known \notin {Absent, tree[p]} THEN Failed(me)
         ELSE IF known = tree[p] THEN [me EXCEPT !.plugins = @ \ {p}]
         ELSE [me EXCEPT !.pc = "ask", !.plugins = @ \ {p},
                         !.mem = [Loaded(lock) EXCEPT !.approved[p] = tree[p]]])
  /\ UNCHANGED <<files, upstream, begun, disturbed>>

Answer(s) ==
  /\ proc[s].pc = "ask"
  /\ \/ Becomes(s, Saving(proc[s], proc[s].mem, "pinned"))
     \/ Becomes(s, Failed(proc[s]))
  /\ UNCHANGED <<files, upstream, begun, disturbed>>

AllLoaded(s) ==
  /\ proc[s].pc = "trust" /\ proc[s].plugins = {}
  /\ Becomes(s, Done(proc[s]))
  /\ UNCHANGED <<files, upstream, begun, disturbed>>

\* A process is killed; what it had not written is gone.
Die(s) ==
  /\ proc[s].pc # "idle"
  /\ Becomes(s, Idle)
  /\ UNCHANGED <<files, upstream, begun, disturbed>>

\* Somebody pushes a commit.
Push(p) ==
  /\ p \notin Local /\ upstream[p] < MaxCommit[p]
  /\ upstream' = [upstream EXCEPT ![p] = @ + 1]
  /\ UNCHANGED <<files, proc, begun, disturbed>>

Init ==
  /\ manifest = Declared /\ lock = NoFile /\ content = NoFile
  /\ tree = None /\ upstream = [p \in Packages |-> 1]
  /\ proc = [s \in Procs |-> Idle] /\ begun = [s \in Procs |-> 0]
  /\ disturbed = [s \in Procs |-> FALSE]

Work(s) == \/ Load(s) \/ Visit(s) \/ Walked(s) \/ Truncate(s) \/ WriteOut(s)
           \/ Revert(s) \/ Cleanup(s) \/ EnsureTrusted(s) \/ AllLoaded(s)
User(s) == \/ Build(s) \/ (\E d \in Asked : Add(s, d)) \/ (\E p \in Packages : Remove(s, p))
           \/ Consent(s) \/ Answer(s) \/ Die(s)

Next == (\E s \in Procs : Work(s) \/ User(s)) \/ (\E p \in Packages : Push(p))

Spec == Init /\ [][Next]_vars

\* A process the system runs gets on with its work; nobody need answer a prompt.
Fairness == \A s \in Procs : WF_vars(Work(s))
FairSpec == Spec /\ Fairness
-------------------------------------------------------------------------------
(* Properties.                                                                  *)

Session ==
  [pc : {"idle", "load", "walk", "save", "write", "consent", "revert", "cleanup",
         "trust", "ask"},
   op : {"build", "run", "add", "remove"}, subject : Packages,
   mem : Lock, left : SUBSET [level : Nat, dep : Dep], visited : SUBSET Packages,
   saving : Lock \cup {NoFile, Torn}, why : {"resolved", "pinned", "reverted"},
   plugins : SUBSET Plugins,
   before : [manifest : [Packages -> {Absent, Latest} \cup Commits],
             lock : Lock \cup {NoFile, Torn}],
   result : {"none", "ok", "failed"}]

\* The types of the files and of the processes. The file as a whole is never torn
\* unless an `add` puts a torn one back.
TypeOK ==
  /\ manifest \in [Packages -> {Absent, Latest} \cup Commits]
  /\ lock \in Lock \cup {NoFile, Torn} /\ content \in Lock \cup {NoFile, Torn}
  /\ tree \in Entries /\ upstream \in [Packages -> Commits]
  /\ proc \in [Procs -> Session]
  /\ begun \in [Procs -> Nat] /\ \A s \in Procs : begun[s] <= MaxOps[s]
  /\ disturbed \in [Procs -> BOOLEAN]

\* No saved lock drops an entry: a package once locked, a plugin once approved,
\* stays so at that commit, whatever the manifest asks for and upstream has; also
\* after a process died in the middle of a save. (Only an `add` that failed goes
\* back, and a process that loaded the lock before another saved it.)
Keeps(old, new) ==
  \A p \in Packages : /\ old.deps[p] \in {Absent, new.deps[p]}
                      /\ old.approved[p] \in {Absent, new.approved[p]}
EntriesKept ==
  [][\A s \in Procs :
       content' # content /\ proc'[s] # proc[s] /\ ~disturbed[s] /\ proc[s].why # "reverted"
       => Keeps(Loaded(content), Loaded(content'))]_vars

Alone(s, how) == proc[s].pc = "idle" /\ proc[s].result = how /\ ~disturbed[s]

\* After a command that resolved, undisturbed, what is checked out is what is locked.
BuildsWhatIsLocked ==
  \A s \in Procs : Alone(s, "ok") =>
    \A p \in proc[s].visited \ Local : tree[p] # Absent /\ tree[p] = Loaded(lock).deps[p]

\* It resolved exactly the packages the manifest needs, through the manifests of
\* the commits checked out, in whatever order and however they need each other.
\* (Of a process outside the root only path dependencies of their own are lost.)
Names(deps) == {d.pkg : d \in deps}
NeededBy(p) == Names(Needs[p, IF p \in Local THEN upstream[p] ELSE tree[p]])
Closed(S)   == Names(RootDeps(manifest)) \subseteq S /\ \A p \in S : NeededBy(p) \subseteq S
ResolvesClosure ==
  \A s \in AtRoot : Alone(s, "ok") =>
    /\ Closed(proc[s].visited)
    /\ \A S \in SUBSET proc[s].visited : Closed(S) => S = proc[s].visited

\* An `add` that failed leaves manifest and lock file as they were.
FailedAddUndone ==
  \A s \in Procs : Alone(s, "failed") /\ proc[s].op = "add" =>
    manifest = proc[s].before.manifest /\ lock = proc[s].before.lock

\* Every command ends or waits for its user, also where packages need each other.
CommandsEnd ==
  \A s \in Procs : (proc[s].pc = "load") ~> (proc[s].pc \in {"idle", "consent", "ask"})
===============================================================================
