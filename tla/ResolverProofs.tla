---------------------------- MODULE ResolverProofs ----------------------------
(* Proofs about ProjectResolver: for any number of processes, packages, commits *)
(* and requirements, and whatever git, upstream and the users do.               *)
EXTENDS ProjectResolver, FiniteSetTheorems, TLAPS

FileType == Lock \cup {NoFile, Torn}

\* What stands for no file, or for half a file, is no lock: they have no approvals.
LEMMA NoLocks == NoFile \notin Lock /\ Torn \notin Lock
<1>1. <<>> \notin Entries
  BY ResolverAssumption DEF Entries
<1> QED
  BY <1>1 DEF NoFile, Torn, Lock

\* A file that parses, or is not there, is read as a lock.
LEMMA LoadedType == ASSUME NEW l \in FileType PROVE Loaded(l) \in Lock
<1>1. Empty \in Lock
  BY DEF Empty, Lock, Entries, None
<1> QED
  BY <1>1 DEF Loaded, FileType

\* The process that does nothing is a process.
LEMMA IdleType == Idle \in Session
<1>1. AnyPackage \in Packages
  BY ResolverAssumption DEF AnyPackage
<1>2. Empty \in Lock /\ Declared \in [Packages -> {Absent, Latest} \cup Commits]
  BY ResolverAssumption DEF Empty, Lock, Entries, None
<1> QED
  BY <1>1, <1>2 DEF Idle, Session

\* However a command ends, or fails, or comes to save a lock, it is a process.
LEMMA EndType ==
  ASSUME NEW me \in Session
  PROVE  Done(me) \in Session /\ GivenUp(me) \in Session /\ Failed(me) \in Session
<1>1. Idle \in Session
  BY IdleType
<1>2. Done(me) \in Session
  BY <1>1, ZenonT(40) DEF Session, Idle, Done
<1>3. GivenUp(me) \in Session
  BY <1>1, ZenonT(40) DEF Session, Idle, GivenUp
<1>4. [me EXCEPT !.pc = "revert"] \in Session
  BY ZenonT(40) DEF Session
<1> QED
  BY <1>2, <1>3, <1>4 DEF Failed

\* A process about to save is a process.
LEMMA SavingType ==
  ASSUME NEW me \in Session, NEW l \in FileType,
         NEW reason \in {"resolved", "pinned", "reverted"}
  PROVE  Saving(me, l, reason) \in Session
BY DEF Session, Saving, FileType

\* So is what a command becomes when its save is done.
LEMMA SavedType == ASSUME NEW me \in Session PROVE Saved(me) \in Session
<1>1. CASE me.why = "reverted"
  BY <1>1, EndType DEF Saved
<1>2. CASE me.why = "pinned"
  BY <1>2 DEF Saved, Session
<1>3. CASE me.why = "resolved"
  <2>1. CASE me.op = "build"
    BY <1>3, <2>1, EndType DEF Saved
  <2>2. CASE me.op = "run"
    BY <1>3, <2>2 DEF Saved, Session
  <2>3. CASE me.op = "add"
    BY <1>3, <2>3 DEF Saved, Session
  <2>4. CASE me.op = "remove"
    BY <1>3, <2>4 DEF Saved, Session
  <2> QED
    BY <2>1, <2>2, <2>3, <2>4 DEF Session
<1> QED
  BY <1>1, <1>2, <1>3 DEF Session

\* What is known of the processes after one of them moved.
LEMMA Become ==
  ASSUME TypeOK, NEW s \in Procs, NEW me \in Session, Becomes(s, me)
  PROVE  /\ proc' \in [Procs -> Session] /\ proc'[s] = me
         /\ \A q \in Procs \ {s} : proc'[q] = proc[q]
BY DEF TypeOK, Becomes
-------------------------------------------------------------------------------
(* Types.                                                                       *)

\* The project as it is found is well typed.
LEMMA TypeInit == Init => TypeOK
<1> SUFFICES ASSUME Init PROVE TypeOK
  OBVIOUS
<1>1. None \in Entries
  BY DEF None, Entries
<1>2. \A p \in Packages : 1 \in Commits
  BY ResolverAssumption DEF Commits
<1> QED
  BY <1>1, <1>2, IdleType, ResolverAssumption DEF Init, TypeOK

\* What a command does with the lock and the manifest at its start.
LEMMA TypeBegin ==
  ASSUME TypeOK, NEW s \in Procs, NEW command \in {"build", "run", "add", "remove"},
         NEW p \in Packages, Begin(s, command, p)
  PROVE  /\ proc' \in [Procs -> Session]
         /\ begun' \in [Procs -> Nat] /\ \A q \in Procs : begun'[q] <= MaxOps[q]
         /\ UNCHANGED <<lock, content, tree, upstream>>
<1> DEFINE me == [Idle EXCEPT !.pc = "load", !.op = command, !.subject = p,
                              !.before = IF command = "add"
                                         THEN [manifest |-> manifest, lock |-> lock] ELSE @]
<1>1. me \in Session
  BY IdleType, ZenonT(40) DEF Session, Idle, TypeOK
<1>2. proc' \in [Procs -> Session]
  BY <1>1, Become DEF Begin
<1>3. MaxOps \in [Procs -> Nat]
  BY ResolverAssumption
<1>4. begun \in [Procs -> Nat] /\ \A q \in Procs : begun[q] <= MaxOps[q]
  BY DEF TypeOK
<1>5. begun[s] < MaxOps[s] /\ begun' = [begun EXCEPT ![s] = @ + 1]
  BY DEF Begin
<1>6. begun' \in [Procs -> Nat] /\ \A q \in Procs : begun'[q] <= MaxOps[q]
  BY <1>3, <1>4, <1>5
<1>7. UNCHANGED <<lock, content, tree, upstream>>
  BY DEF Begin
<1> QED
  BY <1>2, <1>6, <1>7

\* A command that begins writes a manifest of the manifest's type.
LEMMA TypeCommands ==
  ASSUME TypeOK, NEW s \in Procs,
         \/ Build(s)
         \/ \E d \in Asked : Add(s, d)
         \/ \E p \in Packages : Remove(s, p)
  PROVE  TypeOK'
<1>1. CASE Build(s)
  <2>1. AnyPackage \in Packages
    BY ResolverAssumption DEF AnyPackage
  <2> QED
    BY <1>1, <2>1, TypeBegin DEF Build, TypeOK
<1>2. ASSUME NEW d \in Asked, Add(s, d) PROVE TypeOK'
  <2>1. d \in Dep
    BY ResolverAssumption
  <2>2. d.pkg \in Packages /\ d.at \in {Absent, Latest} \cup Commits
    BY <2>1 DEF Dep
  <2> QED
    BY <1>2, <2>2, TypeBegin DEF Add, TypeOK
<1>3. ASSUME NEW p \in Packages, Remove(s, p) PROVE TypeOK'
  BY <1>3, TypeBegin DEF Remove, TypeOK
<1> QED
  BY <1>1, <1>2, <1>3

\* The dependencies of a manifest are dependencies.
LEMMA RootType ==
  ASSUME NEW m \in [Packages -> {Absent, Latest} \cup Commits]
  PROVE  RootDeps(m) \subseteq Dep
BY DEF RootDeps, Dep

\* Dependencies put at a level of the recursion.
LEMMA AtType ==
  ASSUME NEW level \in Nat, NEW deps \in SUBSET Dep
  PROVE  At(level, deps) \in SUBSET [level : Nat, dep : Dep]
BY DEF At

\* PiperineLock::load yields a lock, or ends the command.
LEMMA TypeLoad == ASSUME TypeOK, NEW s \in Procs, Load(s) PROVE TypeOK'
<1> DEFINE me == [proc[s] EXCEPT !.pc = "walk", !.mem = Loaded(lock),
                                 !.left = At(1, RootDeps(manifest))]
<1>1. proc[s] \in Session
  BY DEF TypeOK
<1>2. At(1, RootDeps(manifest)) \in SUBSET [level : Nat, dep : Dep]
  BY RootType, AtType DEF TypeOK
<1>3. Loaded(lock) \in Lock
  BY LoadedType DEF TypeOK, FileType
<1>4. me \in Session
  BY <1>1, <1>2, <1>3 DEF Session
<1>5. Failed(proc[s]) \in Session
  BY <1>1, EndType
<1>6. proc' \in [Procs -> Session]
  BY <1>4, <1>5, Become DEF Load
<1> QED
  BY <1>6 DEF Load, TypeOK, files

\* A dependency is asked for at a commit, and that is what the lock gets.
LEMMA WantedType ==
  ASSUME TypeOK, NEW l \in Lock, NEW d \in Dep
  PROVE  /\ Wanted(l, d) \in Commits
         /\ \A c \in Commits : Locked(l, d.pkg, c) \in Lock
<1>1. d.pkg \in Packages /\ d.at \in {Latest} \cup Commits
  BY DEF Dep
<1>2. l.deps \in Entries /\ l.approved \in Entries
  BY DEF Lock
<1>3. Wanted(l, d) \in Commits
  BY <1>1, <1>2 DEF Wanted, Entries, TypeOK
<1>4. ASSUME NEW c \in Commits PROVE Locked(l, d.pkg, c) \in Lock
  BY <1>1, <1>2 DEF Locked, Lock, Entries
<1> QED
  BY <1>3, <1>4

\* Entering a package keeps the process one.
LEMMA IntoType ==
  ASSUME TypeOK, NEW s \in Procs, NEW e \in proc[s].left, NEW c \in Commits
  PROVE  /\ e.dep \in Dep /\ e.dep.pkg \in Packages
         /\ Into(s, e, c) \in Session
         /\ Past(proc[s], e) \in Session
<1>1. proc[s] \in Session
  BY DEF TypeOK
<1>2. e \in [level : Nat, dep : Dep]
  BY <1>1 DEF Session
<1>3. e.dep \in Dep /\ e.level \in Nat /\ e.dep.pkg \in Packages
  <2>1. e.dep \in Dep /\ e.level \in Nat
    BY <1>2
  <2> QED
    BY <2>1 DEF Dep
<1>4. Needs[e.dep.pkg, c] \subseteq Dep
  <2>1. Needs \in [Packages \X Commits -> SUBSET Dep]
    BY ResolverAssumption
  <2>2. <<e.dep.pkg, c>> \in Packages \X Commits
    BY <1>3
  <2> QED
    BY <2>1, <2>2
<1>5. NeedsOf(s, e.dep, c) \in SUBSET Dep
  BY <1>4 DEF NeedsOf
<1>6. Below(proc[s], e) \in Nat
  BY <1>3 DEF Below
<1>7. At(Below(proc[s], e), NeedsOf(s, e.dep, c)) \in SUBSET [level : Nat, dep : Dep]
  BY <1>5, <1>6, AtType
<1>8. Into(s, e, c) \in Session
  BY <1>1, <1>3, <1>7 DEF Into, Session
<1> QED
  BY <1>1, <1>3, <1>8 DEF Past, Session

\* A turn of resolve_deps checks out and locks commits.
LEMMA TypeVisit == ASSUME TypeOK, NEW s \in Procs, Visit(s) PROVE TypeOK'
<1> DEFINE me == proc[s]
<1>1. me \in Session /\ upstream \in [Packages -> Commits]
  BY DEF TypeOK
<1>2. PICK e \in Innermost(me) :
        \/ /\ Becomes(s, Past(me, e))
           /\ UNCHANGED <<tree, disturbed>>
        \/ /\ e.dep.pkg \in Local
           /\ Becomes(s, Into(s, e, upstream[e.dep.pkg]))
           /\ UNCHANGED <<tree, disturbed>>
        \/ /\ LET c == Wanted(me.mem, e.dep)
              IN /\ Checkout(e.dep.pkg, c)
                 /\ \/ Becomes(s, [Into(s, e, c) EXCEPT !.mem = Locked(@, e.dep.pkg, c)])
                    \/ Becomes(s, Failed(me))
           /\ Wrote(s)
        \/ /\ Becomes(s, Failed(me))
           /\ UNCHANGED <<tree, disturbed>>
  BY DEF Visit
<1> DEFINE p == e.dep.pkg
           c == Wanted(me.mem, e.dep)
<1>3. e \in me.left /\ me.mem \in Lock
  BY <1>1 DEF Innermost, Session
<1>4. e.dep \in Dep /\ p \in Packages
  BY <1>3, IntoType, ResolverAssumption DEF TypeOK, Commits
<1>5. c \in Commits /\ Locked(me.mem, p, c) \in Lock
  BY <1>3, <1>4, WantedType
<1>6. upstream[p] \in Commits
  BY <1>1, <1>4
<1>7. Into(s, e, c) \in Session /\ Into(s, e, upstream[p]) \in Session /\ Past(me, e) \in Session
  BY <1>3, <1>5, <1>6, IntoType
<1>8. Into(s, e, c).mem = me.mem
  BY <1>1 DEF Into, Session
<1>9. [Into(s, e, c) EXCEPT !.mem = Locked(@, p, c)] \in Session
  BY <1>5, <1>7, <1>8 DEF Session
<1>10. Failed(me) \in Session
  BY <1>1, EndType
<1>11. proc' \in [Procs -> Session]
  BY <1>2, <1>7, <1>9, <1>10, Become
<1>12. tree' \in Entries
  BY <1>2, <1>5 DEF Checkout, TypeOK, Entries
<1>13. disturbed' \in [Procs -> BOOLEAN]
  BY <1>2 DEF Wrote, TypeOK
<1>14. UNCHANGED <<manifest, lock, content, upstream, begun>>
  BY DEF Visit
<1> QED
  BY <1>11, <1>12, <1>13, <1>14 DEF TypeOK

\* The lock file is a lock, absent or torn throughout a save.
LEMMA TypeSave ==
  ASSUME TypeOK, NEW s \in Procs, Walked(s) \/ Truncate(s) \/ WriteOut(s)
  PROVE  TypeOK'
<1>1. proc[s] \in Session
  BY DEF TypeOK
<1>2. proc[s].mem \in FileType /\ proc[s].saving \in FileType
  BY <1>1 DEF Session, FileType
<1>3. CASE Walked(s)
  <2>1. proc' \in [Procs -> Session]
    BY <1>1, <1>2, <1>3, SavingType, Become DEF Walked
  <2> QED
    BY <2>1, <1>3 DEF Walked, TypeOK, files
<1>4. CASE Truncate(s)
  <2>1. [proc[s] EXCEPT !.pc = "write"] \in Session
    BY <1>1 DEF Session
  <2>2. proc' \in [Procs -> Session]
    BY <2>1, <1>4, Become DEF Truncate
  <2> QED
    BY <2>2, <1>4 DEF Truncate, Wrote, TypeOK
<1>5. CASE WriteOut(s)
  <2>1. proc' \in [Procs -> Session]
    BY <1>1, <1>5, SavedType, Become DEF WriteOut
  <2> QED
    BY <2>1, <1>2, <1>5 DEF WriteOut, Wrote, TypeOK, FileType
<1> QED
  BY <1>3, <1>4, <1>5

\* What an add puts back, and what remove cleans up.
LEMMA TypeRevert ==
  ASSUME TypeOK, NEW s \in Procs, Revert(s) \/ Cleanup(s)
  PROVE  TypeOK'
<1>1. proc[s] \in Session
  BY DEF TypeOK
<1>2. CASE Revert(s)
  <2>1. OldLock(proc[s]) \in FileType
    BY <1>1 DEF OldLock, Session, FileType
  <2>2. proc' \in [Procs -> Session]
    BY <1>1, <1>2, <2>1, SavingType, Become DEF Revert
  <2>3. manifest' \in [Packages -> {Absent, Latest} \cup Commits]
    BY <1>1, <1>2 DEF Revert, Session
  <2> QED
    BY <2>2, <2>3, <1>2 DEF Revert, Wrote, TypeOK
<1>3. CASE Cleanup(s)
  <2>1. proc' \in [Procs -> Session]
    BY <1>1, <1>3, EndType, Become DEF Cleanup
  <2>2. tree' \in Entries
    BY <1>1, <1>3 DEF Cleanup, TypeOK, Entries
  <2> QED
    BY <2>1, <2>2, <1>3 DEF Cleanup, Wrote, TypeOK
<1> QED
  BY <1>2, <1>3

\* A command that trusts a plugin has the approval at hand.
LEMMA ApprovedType ==
  ASSUME NEW l \in Lock, NEW p \in Packages, NEW c \in {Absent} \cup Commits
  PROVE  [l EXCEPT !.approved[p] = c] \in Lock
BY DEF Lock, Entries

\* Prompts, approvals and deaths.
LEMMA TypeTrust ==
  ASSUME TypeOK, NEW s \in Procs,
         Consent(s) \/ EnsureTrusted(s) \/ Answer(s) \/ AllLoaded(s) \/ Die(s)
  PROVE  TypeOK'
<1>1. proc[s] \in Session /\ Failed(proc[s]) \in Session /\ Done(proc[s]) \in Session
  BY EndType DEF TypeOK
<1>2. CASE Consent(s)
  <2>1. proc' \in [Procs -> Session]
    BY <1>1, <1>2, Become DEF Consent
  <2> QED
    BY <2>1, <1>2 DEF Consent, TypeOK, files
<1>3. CASE EnsureTrusted(s)
  <2> DEFINE me == proc[s]
  <2>1. PICK p \in me.plugins :
          LET known == Loaded(lock).approved[p] IN
          Becomes(s,
            IF ~Parses(lock) \/ known \notin {Absent, tree[p]} THEN Failed(me)
            ELSE IF known = tree[p] THEN [me EXCEPT !.plugins = @ \ {p}]
            ELSE [me EXCEPT !.pc = "ask", !.plugins = @ \ {p},
                            !.mem = [Loaded(lock) EXCEPT !.approved[p] = tree[p]]])
    BY <1>3 DEF EnsureTrusted
  <2>2. p \in Packages
    BY <1>1, ResolverAssumption DEF Session
  <2>3. [Loaded(lock) EXCEPT !.approved[p] = tree[p]] \in Lock
    BY <2>2, LoadedType, ApprovedType DEF TypeOK, FileType, Entries
  <2>4. [me EXCEPT !.plugins = @ \ {p}] \in Session
    BY <1>1 DEF Session
  <2>5. [me EXCEPT !.pc = "ask", !.plugins = @ \ {p},
                   !.mem = [Loaded(lock) EXCEPT !.approved[p] = tree[p]]] \in Session
    BY <1>1, <2>3 DEF Session
  <2>6. proc' \in [Procs -> Session]
    BY <1>1, <2>1, <2>4, <2>5, Become
  <2> QED
    BY <2>6, <1>3 DEF EnsureTrusted, TypeOK, files
<1>4. CASE Answer(s)
  <2>1. proc[s].mem \in FileType
    BY <1>1 DEF Session, FileType
  <2>2. proc' \in [Procs -> Session]
    BY <1>1, <2>1, <1>4, SavingType, Become DEF Answer
  <2> QED
    BY <2>2, <1>4 DEF Answer, TypeOK, files
<1>5. CASE AllLoaded(s)
  <2>1. proc' \in [Procs -> Session]
    BY <1>1, <1>5, Become DEF AllLoaded
  <2> QED
    BY <2>1, <1>5 DEF AllLoaded, TypeOK, files
<1>6. CASE Die(s)
  <2>1. proc' \in [Procs -> Session]
    BY <1>6, IdleType, Become DEF Die
  <2> QED
    BY <2>1, <1>6 DEF Die, TypeOK, files
<1> QED
  BY <1>2, <1>3, <1>4, <1>5, <1>6

\* A push moves an upstream.
LEMMA TypePush == ASSUME TypeOK, NEW p \in Packages, Push(p) PROVE TypeOK'
<1>1. upstream[p] \in Commits /\ upstream[p] < MaxCommit[p] /\ MaxCommit[p] \in Nat
  BY ResolverAssumption DEF Push, TypeOK
<1>2. upstream[p] + 1 \in Commits
  BY <1>1, ResolverAssumption DEF Commits
<1>3. upstream' \in [Packages -> Commits]
  BY <1>2 DEF Push, TypeOK
<1> QED
  BY <1>3 DEF Push, TypeOK, files

\* Every step keeps the types.
LEMMA TypeNext == TypeOK /\ [Next]_vars => TypeOK'
<1> SUFFICES ASSUME TypeOK, [Next]_vars PROVE TypeOK'
  OBVIOUS
<1>1. CASE UNCHANGED vars
  BY <1>1 DEF vars, TypeOK
<1>2. ASSUME NEW s \in Procs, Work(s) PROVE TypeOK'
  BY <1>2, TypeLoad, TypeVisit, TypeSave, TypeRevert, TypeTrust DEF Work
<1>3. ASSUME NEW s \in Procs, User(s) PROVE TypeOK'
  BY <1>3, TypeCommands, TypeTrust DEF User
<1>4. ASSUME NEW p \in Packages, Push(p) PROVE TypeOK'
  BY <1>4, TypePush
<1> QED
  BY <1>1, <1>2, <1>3, <1>4 DEF Next

\* Manifest, lock file, checkouts and processes keep their types, for every number
\* of packages and processes that run at once.
THEOREM TypeCorrect == Spec => []TypeOK
BY TypeInit, TypeNext, PTL DEF Spec
-------------------------------------------------------------------------------
(* The invariant. A process that nobody disturbed since its command began keeps *)
(* the promises of its command on the way, each about the lock it has in hand:  *)
(* the resolver's, the one it is saving, or the file.                           *)

Keeping(me)  == me.pc \in {"save", "write"} /\ me.why # "reverted"
OnTheWay(me) == \/ me.pc \in {"walk", "ask", "consent", "trust", "cleanup"}
                \/ Keeping(me)
                \/ me.pc = "idle" /\ me.result = "ok"
InHand(me)   == IF me.pc \in {"walk", "ask"} THEN me.mem
                ELSE IF me.pc \in {"save", "write"} THEN me.saving ELSE Loaded(lock)

\* What it has visited is checked out as that lock says.
Agrees(me) ==
  OnTheWay(me) => \A p \in me.visited \ Local :
                    tree[p] # Absent /\ tree[p] = InHand(me).deps[p]

\* That lock has every entry of the file.
HasEntries(me) ==
  me.pc \in {"walk", "ask"} \/ Keeping(me) => Keeps(Loaded(content), InHand(me))

\* An `add` that gives up has put the manifest back, and is putting the lock back.
PutsBack(me) ==
  me.op = "add" =>
    /\ me.pc \in {"save", "write"} /\ me.why = "reverted" =>
         manifest = me.before.manifest /\ me.saving = me.before.lock
    /\ me.pc = "idle" /\ me.result = "failed" =>
         manifest = me.before.manifest /\ lock = me.before.lock

\* What is needed has been visited or is ahead, and nothing else is.
Ahead(me) == IF me.pc = "walk" THEN {e.dep.pkg : e \in me.left} ELSE {}
Roots     == Names(RootDeps(manifest))
Needed(me) ==
  OnTheWay(me) =>
    /\ Roots \subseteq me.visited \cup Ahead(me)
    /\ \A p \in me.visited : NeededBy(p) \subseteq me.visited \cup Ahead(me)
    /\ \A S \in SUBSET Packages :
         Roots \subseteq S /\ (\A p \in me.visited \cap S : NeededBy(p) \subseteq S)
         => me.visited \cup Ahead(me) \subseteq S

Sound(s) == /\ Agrees(proc[s]) /\ HasEntries(proc[s]) /\ PutsBack(proc[s])
            /\ s \in AtRoot => Needed(proc[s])

\* The file is whole or torn; a walk starts with nothing visited; what is saved
\* for other reasons than an `add` that failed is a lock.
Whole == /\ lock \in {content, Torn}
         /\ \A s \in Procs : /\ proc[s].pc = "load" => proc[s].visited = {}
                             /\ Keeping(proc[s]) => proc[s].saving \in Lock

IInv == TypeOK /\ Whole /\ \A s \in Procs : ~disturbed[s] => Sound(s)
-------------------------------------------------------------------------------
(* A process whose command begins, has failed or was killed has promised nothing *)
(* yet or no longer.                                                             *)

Spent(me) == \/ me.pc \in {"load", "revert"}
             \/ me.pc = "idle" /\ me.result = "none"
             \/ me.pc = "idle" /\ me.result = "failed" /\ me.op # "add"

\* A process with nothing under way has nothing to be sound about.
LEMMA SpentIsSound == ASSUME NEW s \in Procs, Spent(proc'[s]) PROVE Sound(s)'
BY DEF Spent, Sound, Agrees, HasEntries, PutsBack, Needed, OnTheWay, Keeping

\* A command that fails has done with walking, locking and loading.
LEMMA FailedIsSpent ==
  ASSUME NEW me \in Session
  PROVE  Spent(Failed(me)) /\ Failed(me).pc # "load" /\ ~Keeping(Failed(me))
<1>1. CASE me.op = "add"
  BY <1>1 DEF Failed, Session, Spent, Keeping
<1>2. CASE me.op # "add"
  BY <1>2 DEF Failed, GivenUp, Idle, Session, Spent, Keeping
<1> QED
  BY <1>1, <1>2

\* A step of one process leaves another undisturbed only if it writes nothing.
LEMMA Elsewhere ==
  ASSUME TypeOK, NEW q \in Procs, Work(q) \/ User(q), NEW s \in Procs \ {q}
  PROVE  /\ proc'[s] = proc[s]
         /\ ~disturbed'[s] => /\ ~disturbed[s]
                              /\ UNCHANGED <<manifest, lock, content, tree, upstream>>
<1>1. proc'[s] = proc[s]
  <2>1. \E me : Becomes(q, me)
    BY DEF Work, User, Load, Visit, Walked, Truncate, WriteOut, Revert, Cleanup,
           EnsureTrusted, AllLoaded, Build, Add, Remove, Consent, Answer, Die, Begin
  <2> QED
    BY <2>1 DEF Becomes, TypeOK
<1>2. ASSUME ~disturbed'[s]
      PROVE  ~disturbed[s] /\ UNCHANGED <<manifest, lock, content, tree, upstream>>
  <2>1. ~Wrote(q)
    BY <1>2 DEF Wrote
  <2>2. CASE Build(q)
    BY <1>2, <2>2 DEF Build, Begin, TypeOK
  <2>3. ASSUME NEW d \in Asked, Add(q, d) PROVE FALSE
    BY <1>2, <2>3 DEF Add
  <2>4. ASSUME NEW p \in Packages, Remove(q, p) PROVE FALSE
    BY <1>2, <2>4 DEF Remove
  <2>5. CASE Visit(q)
    BY <1>2, <2>1, <2>5 DEF Visit
  <2>6. CASE Load(q) \/ Walked(q) \/ EnsureTrusted(q) \/ AllLoaded(q) \/ Consent(q)
             \/ Answer(q) \/ Die(q)
    BY <1>2, <2>6 DEF Load, Walked, EnsureTrusted, AllLoaded, Consent, Answer, Die, files
  <2>7. CASE Truncate(q) \/ WriteOut(q) \/ Revert(q) \/ Cleanup(q)
    BY <2>1, <2>7 DEF Truncate, WriteOut, Revert, Cleanup
  <2> QED
    BY <2>2, <2>3, <2>4, <2>5, <2>6, <2>7 DEF Work, User
<1> QED
  BY <1>1, <1>2

\* So another process keeps its promises.
LEMMA OthersSound ==
  ASSUME IInv, NEW q \in Procs, Work(q) \/ User(q), NEW s \in Procs \ {q}
  PROVE  (~disturbed[s] => Sound(s))'
<1> SUFFICES ASSUME ~disturbed'[s] PROVE Sound(s)'
  OBVIOUS
<1>1. /\ proc'[s] = proc[s] /\ ~disturbed[s]
      /\ UNCHANGED <<manifest, lock, content, tree, upstream>>
  BY Elsewhere DEF IInv
<1>2. Sound(s)
  BY <1>1 DEF IInv
<1> QED
  BY <1>1, <1>2 DEF Sound, Agrees, HasEntries, PutsBack, Needed, Roots, NeededBy, InHand
-------------------------------------------------------------------------------
(* The steps of the process itself. Each lemma is about one action of a process  *)
(* that is not disturbed.                                                        *)

\* So has one that begins or dies.
LEMMA OwnSpent ==
  ASSUME IInv, NEW s \in Procs,
         \/ Build(s)
         \/ \E d \in Asked : Add(s, d)
         \/ \E p \in Packages : Remove(s, p)
         \/ Die(s)
  PROVE  Spent(proc'[s]) /\ proc'[s].visited = {} /\ ~Keeping(proc'[s])
<1>1. proc \in [Procs -> Session]
  BY DEF IInv, TypeOK
<1>2. CASE Die(s)
  <2>1. proc'[s] = Idle
    BY <1>1, <1>2 DEF Die, Becomes
  <2> QED
    BY <2>1 DEF Idle, Spent, Keeping
<1>3. ASSUME NEW command, NEW p, Begin(s, command, p)
      PROVE  proc'[s].pc = "load" /\ proc'[s].visited = {}
  BY <1>1, <1>3 DEF Begin, Becomes, Idle
<1> QED
  BY <1>2, <1>3 DEF Build, Add, Remove, Spent, Keeping

\* The packages at a level are those named.
LEMMA NamesAt ==
  ASSUME NEW level, NEW deps PROVE {e.dep.pkg : e \in At(level, deps)} = Names(deps)
<1>1. ASSUME NEW d \in deps PROVE \E e \in At(level, deps) : e.dep = d
  <2>1. [level |-> level, dep |-> d] \in At(level, deps)
    BY DEF At
  <2> QED
    BY <2>1
<1>2. ASSUME NEW e \in At(level, deps) PROVE e.dep \in deps
  BY DEF At
<1> QED
  BY <1>1, <1>2 DEF Names

\* Loading the lock starts a walk that has visited nothing.
LEMMA OwnLoad == ASSUME IInv, NEW s \in Procs, ~disturbed[s], Load(s) PROVE Sound(s)'
<1> DEFINE me == proc[s]
<1>1. me \in Session /\ proc \in [Procs -> Session] /\ me.pc = "load"
  BY DEF IInv, TypeOK, Load
<1>2. CASE ~Parses(lock)
  <2>1. proc'[s] = Failed(me)
    BY <1>1, <1>2 DEF Load, Becomes
  <2> QED
    BY <1>1, <2>1, FailedIsSpent, SpentIsSound
<1>3. CASE Parses(lock)
  <2>1. proc'[s] = [me EXCEPT !.pc = "walk", !.mem = Loaded(lock),
                              !.left = At(1, RootDeps(manifest))]
    BY <1>1, <1>3 DEF Load, Becomes
  <2>2. /\ proc'[s].pc = "walk" /\ proc'[s].mem = Loaded(lock)
        /\ proc'[s].left = At(1, RootDeps(manifest)) /\ proc'[s].visited = {}
    BY <1>1, <2>1 DEF Session, IInv, Whole
  <2>3. UNCHANGED <<manifest, lock, content, tree, upstream>>
    BY DEF Load, files
  <2>4. lock = content
    BY <1>3 DEF IInv, Whole, Parses
  <2>5. Agrees(proc[s])'
    BY <2>2 DEF Agrees
  <2>6. HasEntries(proc[s])'
    <3>1. Keeps(Loaded(content), Loaded(lock))
      BY <2>4 DEF Keeps
    <3> QED
      BY <2>2, <2>3, <3>1 DEF HasEntries, InHand
  <2>7. PutsBack(proc[s])'
    BY <2>2 DEF PutsBack
  <2>8. Needed(proc[s])'
    <3>1. Ahead(proc'[s]) = Roots'
      <4>1. Ahead(proc'[s]) = Names(RootDeps(manifest))
        BY <2>2, NamesAt DEF Ahead
      <4>2. manifest' = manifest
        BY <2>3
      <4> QED
        BY <4>1, <4>2 DEF Roots, RootDeps
    <3> QED
      BY <2>2, <3>1 DEF Needed
  <2> QED
    BY <2>5, <2>6, <2>7, <2>8 DEF Sound
<1> QED
  BY <1>2, <1>3

\* A package met again is passed.
LEMMA OwnPast ==
  ASSUME IInv, NEW s \in Procs, ~disturbed[s], proc[s].pc = "walk",
         NEW e \in proc[s].left, e.dep.pkg \in proc[s].visited,
         Becomes(s, Past(proc[s], e)),
         UNCHANGED <<manifest, lock, content, tree, upstream>>
  PROVE  Sound(s)'
<1> DEFINE me == proc[s]
<1>1. me \in Session /\ proc \in [Procs -> Session] /\ Sound(s)
  BY DEF IInv, TypeOK
<1>2. /\ proc'[s].pc = "walk" /\ proc'[s].mem = me.mem /\ proc'[s].visited = me.visited
      /\ proc'[s].left = me.left \ {e}
  BY <1>1 DEF Becomes, Past, Session
<1>3. me.visited \cup Ahead(me) = proc'[s].visited \cup Ahead(proc'[s])
  BY <1>2 DEF Ahead
<1>4. Agrees(proc[s])' /\ HasEntries(proc[s])' /\ PutsBack(proc[s])'
  BY <1>1, <1>2 DEF Sound, Agrees, HasEntries, PutsBack, InHand, OnTheWay
<1>5. ASSUME s \in AtRoot PROVE Needed(proc[s])'
  <2>1. Needed(me) /\ OnTheWay(me)
    BY <1>1, <1>5 DEF Sound, OnTheWay
  <2> QED
    BY <1>2, <1>3, <2>1 DEF Needed, Roots, NeededBy
<1> QED
  BY <1>4, <1>5 DEF Sound

\* A package met for the first time: its dependencies are ahead, and unless it is
\* a local one it is checked out and locked at one commit.
LEMMA OwnInto ==
  ASSUME IInv, NEW s \in Procs, ~disturbed[s], proc[s].pc = "walk",
         NEW e \in proc[s].left, e.dep.pkg \notin proc[s].visited, e.dep \in Dep,
         NEW c \in Commits, NEW l \in Lock, NEW me,
         Becomes(s, me), me = [Into(s, e, c) EXCEPT !.mem = l],
         \/ /\ e.dep.pkg \in Local /\ c = upstream[e.dep.pkg] /\ l = proc[s].mem
            /\ tree' = tree
         \/ /\ e.dep.pkg \notin Local /\ c = Wanted(proc[s].mem, e.dep)
            /\ l = Locked(proc[s].mem, e.dep.pkg, c)
            /\ tree' = [tree EXCEPT ![e.dep.pkg] = c],
         UNCHANGED <<manifest, lock, content, upstream>>
  PROVE  Sound(s)'
<1> DEFINE old == proc[s]
           p == e.dep.pkg
<1>1. old \in Session /\ proc \in [Procs -> Session] /\ Sound(s) /\ tree \in Entries
  BY DEF IInv, TypeOK
<1>2. p \in Packages
  BY DEF Dep
<1>3. /\ proc'[s].pc = "walk" /\ proc'[s].mem = l /\ proc'[s].visited = old.visited \cup {p}
      /\ proc'[s].left = (old.left \ {e}) \cup At(Below(old, e), NeedsOf(s, e.dep, c))
  BY <1>1 DEF Becomes, Into, Session
<1>4. \A q \in Packages \ {p} : tree'[q] = tree[q] /\ l.deps[q] = old.mem.deps[q]
  BY <1>1 DEF Entries, Locked, Lock, Session
<1>5. p \notin Local => tree'[p] = c /\ l.deps[p] = c
  BY <1>1, <1>2 DEF Entries, Locked, Wanted, Lock, Session
<1>6. l.approved = old.mem.approved /\ old.mem.deps[p] \in {Absent, l.deps[p]}
  BY <1>1, <1>2 DEF Locked, Lock, Session, Entries
<1>7. c # Absent
  BY ResolverAssumption DEF Commits, Absent
<1>8. Agrees(proc[s])'
  <2>1. Agrees(old) /\ OnTheWay(old) /\ old.visited \subseteq Packages
    BY <1>1 DEF Sound, OnTheWay, Session
  <2> QED
    BY <1>3, <1>4, <1>5, <1>7, <2>1 DEF Agrees, InHand
<1>9. HasEntries(proc[s])'
  <2>1. Keeps(Loaded(content), old.mem)
    BY <1>1 DEF Sound, HasEntries, InHand
  <2>2. Keeps(Loaded(content), l)
    BY <1>2, <1>4, <1>6, <2>1 DEF Keeps
  <2> QED
    BY <1>3, <2>2 DEF HasEntries, InHand
<1>10. PutsBack(proc[s])'
  BY <1>3 DEF PutsBack
<1>11. ASSUME s \in AtRoot PROVE Needed(proc[s])'
  <2>1. Needed(old) /\ OnTheWay(old)
    BY <1>1, <1>11 DEF Sound, OnTheWay
  <2>2. Roots' = Roots
    <3>1. manifest' = manifest
      OBVIOUS
    <3> QED
      BY <3>1 DEF Roots, RootDeps
  <2>3. NeedsOf(s, e.dep, c) = Needs[p, c]
    BY <1>11 DEF NeedsOf
  <2>4. NeededBy(p)' = Names(Needs[p, c])
    BY <1>5 DEF NeededBy
  <2>5. \A q \in old.visited : NeededBy(q)' = NeededBy(q)
    BY <1>1, <1>4 DEF NeededBy, Session
  <2>6. p \in Ahead(old)
    BY DEF Ahead
  <2>7. proc'[s].visited \cup Ahead(proc'[s])
          = old.visited \cup Ahead(old) \cup NeededBy(p)'
    <3> DEFINE new == At(Below(old, e), NeedsOf(s, e.dep, c))
    <3>1. {f.dep.pkg : f \in new} = NeededBy(p)'
      BY <2>3, <2>4, NamesAt
    <3>2. Ahead(proc'[s]) = {f.dep.pkg : f \in old.left \ {e}} \cup {f.dep.pkg : f \in new}
      BY <1>3 DEF Ahead
    <3>3. proc'[s].visited \cup {f.dep.pkg : f \in old.left \ {e}}
            = old.visited \cup Ahead(old)
      BY <1>3 DEF Ahead
    <3> QED
      BY <3>1, <3>2, <3>3
  <2>8. \A q \in proc'[s].visited :
          NeededBy(q)' \subseteq proc'[s].visited \cup Ahead(proc'[s])
    BY <1>3, <2>1, <2>5, <2>7 DEF Needed
  <2>9. ASSUME NEW S \in SUBSET Packages, Roots \subseteq S,
               \A q \in proc'[s].visited \cap S : NeededBy(q)' \subseteq S
        PROVE  proc'[s].visited \cup Ahead(proc'[s]) \subseteq S
    <3>1. \A q \in old.visited \cap S : NeededBy(q) \subseteq S
      BY <1>3, <2>5, <2>9
    <3>2. old.visited \cup Ahead(old) \subseteq S
      BY <2>1, <2>9, <3>1 DEF Needed
    <3>3. NeededBy(p)' \subseteq S
      BY <1>3, <2>6, <2>9, <3>2
    <3> QED
      BY <2>7, <3>2, <3>3
  <2>10. Roots' \subseteq proc'[s].visited \cup Ahead(proc'[s])
    BY <2>1, <2>2, <2>7 DEF Needed
  <2> QED
    BY <2>2, <2>8, <2>9, <2>10 DEF Needed
<1> QED
  BY <1>8, <1>9, <1>10, <1>11 DEF Sound

\* A turn of the walk: what it enters it locks and checks out, and what that needs
\* is left to do.
LEMMA OwnVisit == ASSUME IInv, NEW s \in Procs, ~disturbed[s], Visit(s) PROVE Sound(s)'
<1> DEFINE me == proc[s]
<1>1. /\ TypeOK /\ me \in Session /\ proc \in [Procs -> Session] /\ me.pc = "walk"
      /\ upstream \in [Packages -> Commits]
  BY DEF IInv, TypeOK, Visit
<1>2. UNCHANGED <<manifest, lock, content, upstream>>
  BY DEF Visit
<1>3. PICK e \in Innermost(me) :
        \/ /\ ~Fresh(me, e.dep.pkg)
           /\ Becomes(s, Past(me, e))
           /\ UNCHANGED <<tree, disturbed>>
        \/ /\ Fresh(me, e.dep.pkg) /\ e.dep.pkg \in Local
           /\ Becomes(s, Into(s, e, upstream[e.dep.pkg]))
           /\ UNCHANGED <<tree, disturbed>>
        \/ /\ Fresh(me, e.dep.pkg) /\ e.dep.pkg \notin Local
           /\ LET c == Wanted(me.mem, e.dep)
              IN /\ Checkout(e.dep.pkg, c)
                 /\ \/ Becomes(s, [Into(s, e, c) EXCEPT !.mem = Locked(@, e.dep.pkg, c)])
                    \/ Becomes(s, Failed(me))
        \/ /\ Fresh(me, e.dep.pkg)
           /\ Becomes(s, Failed(me))
           /\ UNCHANGED <<tree, disturbed>>
  BY DEF Visit
<1> DEFINE p == e.dep.pkg
           c == Wanted(me.mem, e.dep)
<1>4. e \in me.left /\ me.mem \in Lock /\ e.dep \in Dep /\ p \in Packages
  <2>1. e \in me.left /\ me.mem \in Lock
    BY <1>1 DEF Innermost, Session
  <2>2. \E d \in Commits : TRUE
    BY ResolverAssumption DEF Commits
  <2> QED
    BY <1>1, <2>1, <2>2, IntoType
<1>5. c \in Commits /\ Locked(me.mem, p, c) \in Lock /\ upstream[p] \in Commits
  BY <1>1, <1>4, WantedType
<1>6. CASE Becomes(s, Failed(me))
  <2>1. proc'[s] = Failed(me)
    BY <1>1, <1>6 DEF Becomes
  <2> QED
    BY <1>1, <2>1, FailedIsSpent, SpentIsSound
<1>7. CASE /\ ~Fresh(me, p)
           /\ Becomes(s, Past(me, e))
           /\ UNCHANGED <<tree, disturbed>>
  BY <1>1, <1>2, <1>4, <1>7, OwnPast DEF Fresh
<1>8. CASE /\ Fresh(me, p) /\ p \in Local
           /\ Becomes(s, Into(s, e, upstream[p]))
           /\ UNCHANGED <<tree, disturbed>>
  <2>1. Into(s, e, upstream[p]) = [Into(s, e, upstream[p]) EXCEPT !.mem = me.mem]
    BY <1>1 DEF Into, Session
  <2> QED
    BY <1>1, <1>2, <1>4, <1>5, <1>8, <2>1, OwnInto DEF Fresh
<1>9. CASE /\ Fresh(me, p) /\ p \notin Local /\ Checkout(p, c)
           /\ Becomes(s, [Into(s, e, c) EXCEPT !.mem = Locked(@, p, c)])
  <2>1. [Into(s, e, c) EXCEPT !.mem = Locked(@, p, c)]
          = [Into(s, e, c) EXCEPT !.mem = Locked(me.mem, p, c)]
    BY <1>1 DEF Into, Session
  <2>2. tree' = [tree EXCEPT ![p] = c]
    BY <1>9 DEF Checkout
  <2> QED
    BY <1>1, <1>2, <1>4, <1>5, <1>9, <2>1, <2>2, OwnInto DEF Fresh
<1> QED
  BY <1>3, <1>6, <1>7, <1>8, <1>9

\* A step that leaves the files, what was visited and the lock in hand alone, and
\* goes from a place on the way to another behind the walk.
LEMMA OwnOn ==
  ASSUME IInv, NEW s \in Procs, ~disturbed[s], OnTheWay(proc[s]), OnTheWay(proc'[s]),
         proc'[s].pc # "walk", proc[s].pc = "walk" => proc[s].left = {},
         proc'[s].visited = proc[s].visited,
         UNCHANGED <<manifest, tree, upstream>>,
         InHand(proc[s])'.deps = InHand(proc[s]).deps,
         \/ proc'[s].pc \notin {"ask", "save", "write"}
         \/ Keeps(Loaded(content), InHand(proc[s])')  /\ UNCHANGED content
  PROVE  Sound(s)'
<1> DEFINE old == proc[s]
           new == proc'[s]
<1>1. Sound(s)
  BY DEF IInv
<1>2. Agrees(proc[s])'
  BY <1>1 DEF Sound, Agrees
<1>3. HasEntries(proc[s])'
  BY DEF HasEntries, Keeping
<1>4. PutsBack(proc[s])'
  BY DEF OnTheWay, PutsBack, Keeping
<1>5. ASSUME s \in AtRoot PROVE Needed(proc[s])'
  <2>1. Needed(old)
    BY <1>1, <1>5 DEF Sound
  <2>2. Ahead(old) = {} /\ Ahead(new) = {}
    BY DEF Ahead
  <2> QED
    BY <2>1, <2>2 DEF Needed, Roots, NeededBy
<1> QED
  BY <1>2, <1>3, <1>4, <1>5 DEF Sound

\* When nothing is left, what was visited is closed.
LEMMA OwnWalked == ASSUME IInv, NEW s \in Procs, ~disturbed[s], Walked(s) PROVE Sound(s)'
<1> DEFINE me == proc[s]
<1>1. me \in Session /\ proc \in [Procs -> Session] /\ me.pc = "walk" /\ me.left = {}
  BY DEF IInv, TypeOK, Walked
<1>2. /\ proc'[s].pc = "save" /\ proc'[s].why = "resolved" /\ proc'[s].saving = me.mem
      /\ proc'[s].visited = me.visited
  BY <1>1 DEF Walked, Becomes, Saving, Session
<1>3. UNCHANGED <<manifest, lock, content, tree, upstream>>
  BY DEF Walked, files
<1>4. InHand(proc[s])' = me.mem /\ InHand(me) = me.mem
  BY <1>1, <1>2 DEF InHand
<1>5. Keeps(Loaded(content), me.mem)
  BY <1>1, <1>4 DEF IInv, Sound, HasEntries
<1>6. OnTheWay(me) /\ OnTheWay(proc'[s])
  BY <1>1, <1>2 DEF OnTheWay, Keeping
<1> QED
  BY <1>1, <1>2, <1>3, <1>4, <1>5, <1>6, OwnOn

\* Emptying the file changes no checkout.
LEMMA OwnTruncate ==
  ASSUME IInv, NEW s \in Procs, ~disturbed[s], Truncate(s) PROVE Sound(s)'
<1> DEFINE me == proc[s]
<1>1. me \in Session /\ proc \in [Procs -> Session] /\ me.pc = "save" /\ Sound(s)
  BY DEF IInv, TypeOK, Truncate
<1>2. /\ proc'[s].pc = "write" /\ proc'[s].why = me.why /\ proc'[s].saving = me.saving
      /\ proc'[s].visited = me.visited /\ proc'[s].op = me.op /\ proc'[s].before = me.before
  BY <1>1 DEF Truncate, Becomes, Session
<1>3. UNCHANGED <<manifest, content, tree, upstream>>
  BY DEF Truncate
<1>4. InHand(proc[s])' = me.saving /\ InHand(me) = me.saving
  BY <1>1, <1>2 DEF InHand
<1>5. CASE me.why = "reverted"
  BY <1>1, <1>2, <1>3, <1>5
     DEF Sound, Agrees, HasEntries, PutsBack, Needed, OnTheWay, Keeping
<1>6. CASE me.why # "reverted"
  <2>1. OnTheWay(me) /\ OnTheWay(proc'[s])
    BY <1>1, <1>2, <1>6 DEF OnTheWay, Keeping
  <2>2. Keeps(Loaded(content), me.saving)
    BY <1>1, <1>4, <1>6 DEF Sound, HasEntries, Keeping
  <2> QED
    BY <1>1, <1>2, <1>3, <1>4, <2>1, <2>2, OwnOn
<1> QED
  BY <1>5, <1>6

\* Filling it makes the lock file the lock in memory.
LEMMA OwnWriteOut ==
  ASSUME IInv, NEW s \in Procs, ~disturbed[s], WriteOut(s) PROVE Sound(s)'
<1> DEFINE me == proc[s]
<1>1. me \in Session /\ proc \in [Procs -> Session] /\ me.pc \in {"save", "write"} /\ Sound(s)
  BY DEF IInv, TypeOK, WriteOut
<1>2. proc'[s] = Saved(me) /\ lock' = me.saving /\ UNCHANGED <<manifest, tree, upstream>>
  BY <1>1 DEF WriteOut, Becomes
<1>3. CASE me.why = "reverted"
  <2>1. /\ proc'[s].pc = "idle" /\ proc'[s].result = "failed" /\ proc'[s].op = me.op
        /\ proc'[s].before = me.before
    BY <1>1, <1>2, <1>3, ZenonT(40) DEF Saved, GivenUp, Idle, Session
  <2>2. PutsBack(proc[s])'
    BY <1>1, <1>2, <1>3, <2>1 DEF Sound, PutsBack
  <2> QED
    BY <2>1, <2>2 DEF Sound, Agrees, HasEntries, Needed, OnTheWay, Keeping
<1>4. CASE me.why # "reverted"
  <2>1. /\ proc'[s].pc \in {"trust", "consent", "cleanup", "idle"}
        /\ proc'[s].pc = "idle" => proc'[s].result = "ok"
        /\ proc'[s].visited = me.visited
    BY <1>1, <1>2, <1>4 DEF Saved, Done, Idle, Session
  <2>2. me.saving \in Lock
    BY <1>1, <1>4 DEF IInv, Whole, Keeping
  <2>3. Loaded(lock)' = me.saving
    BY <1>2, <2>2, NoLocks DEF Loaded
  <2>4. InHand(proc[s])' = me.saving /\ InHand(me) = me.saving
    BY <1>1, <2>1, <2>3 DEF InHand
  <2>5. OnTheWay(me) /\ OnTheWay(proc'[s])
    BY <1>1, <1>4, <2>1 DEF OnTheWay, Keeping
  <2> QED
    BY <1>1, <1>2, <2>1, <2>4, <2>5, OwnOn
<1> QED
  BY <1>3, <1>4

\* A step of the process that writes nothing.
Quiet == UNCHANGED <<manifest, lock, content, tree, upstream>>

\* An add puts the manifest back first.
LEMMA OwnRevert == ASSUME IInv, NEW s \in Procs, ~disturbed[s], Revert(s) PROVE Sound(s)'
<1> DEFINE me == proc[s]
<1>1. me \in Session /\ proc \in [Procs -> Session]
  BY DEF IInv, TypeOK
<1>2. /\ proc'[s].pc = "save" /\ proc'[s].why = "reverted"
      /\ proc'[s].saving = me.before.lock /\ proc'[s].before = me.before
  BY <1>1 DEF Revert, Becomes, Saving, OldLock, Session
<1>3. manifest' = me.before.manifest
  BY DEF Revert
<1> QED
  BY <1>2, <1>3 DEF Sound, Agrees, HasEntries, PutsBack, Needed, OnTheWay, Keeping

\* remove deletes a checkout that was not visited.
LEMMA OwnCleanup == ASSUME IInv, NEW s \in Procs, ~disturbed[s], Cleanup(s) PROVE Sound(s)'
<1> DEFINE me == proc[s]
<1>1. me \in Session /\ proc \in [Procs -> Session] /\ me.pc = "cleanup" /\ Sound(s)
  BY DEF IInv, TypeOK, Cleanup
<1>2. /\ proc'[s].pc = "idle" /\ proc'[s].result = "ok" /\ proc'[s].visited = me.visited
  BY <1>1 DEF Cleanup, Becomes, Done, Idle, Session
<1>3. UNCHANGED <<manifest, lock, content, upstream>>
  BY DEF Cleanup
<1>4. \A p \in me.visited : tree'[p] = tree[p]
  BY <1>1 DEF Cleanup, IInv, TypeOK, Entries, Session
<1>5. OnTheWay(me) /\ OnTheWay(proc'[s])
  BY <1>1, <1>2 DEF OnTheWay
<1>6. Agrees(proc[s])'
  BY <1>1, <1>2, <1>3, <1>4, <1>5 DEF Sound, Agrees, InHand
<1>7. HasEntries(proc[s])' /\ PutsBack(proc[s])'
  BY <1>2 DEF HasEntries, PutsBack, Keeping
<1>8. ASSUME s \in AtRoot PROVE Needed(proc[s])'
  <2>1. Needed(me)
    BY <1>1, <1>8 DEF Sound
  <2>2. Ahead(me) = {} /\ Ahead(proc'[s]) = {}
    BY <1>1, <1>2 DEF Ahead
  <2>3. \A p \in me.visited : NeededBy(p)' = NeededBy(p)
    BY <1>3, <1>4 DEF NeededBy
  <2>4. Roots' = Roots
    BY <1>3 DEF Roots, RootDeps
  <2> QED
    BY <1>2, <1>5, <2>1, <2>2, <2>3, <2>4 DEF Needed
<1> QED
  BY <1>6, <1>7, <1>8 DEF Sound

\* A command that ends without another write.
LEMMA OwnConsent ==
  ASSUME IInv, NEW s \in Procs, ~disturbed[s], Consent(s) \/ AllLoaded(s) PROVE Sound(s)'
<1> DEFINE me == proc[s]
<1>1. me \in Session /\ proc \in [Procs -> Session] /\ me.pc \in {"consent", "trust"}
  BY DEF IInv, TypeOK, Consent, AllLoaded
<1>2. Quiet /\ (proc'[s] = Done(me) \/ proc'[s] = Failed(me))
  BY <1>1 DEF Consent, AllLoaded, Becomes, files, Quiet
<1>3. CASE proc'[s] = Failed(me)
  BY <1>1, <1>3, FailedIsSpent, SpentIsSound
<1>4. CASE proc'[s] = Done(me)
  <2>1. proc'[s].pc = "idle" /\ proc'[s].result = "ok" /\ proc'[s].visited = me.visited
    BY <1>1, <1>4 DEF Done, Idle, Session
  <2>2. OnTheWay(me) /\ OnTheWay(proc'[s])
    BY <1>1, <2>1 DEF OnTheWay
  <2>3. InHand(proc[s])' = InHand(me)
    BY <1>1, <1>2, <2>1 DEF InHand, Quiet
  <2> QED
    BY <1>1, <1>2, <2>1, <2>2, <2>3, OwnOn DEF Quiet
<1> QED
  BY <1>2, <1>3, <1>4

\* ensure_trusted reads the lock file and writes nothing.
LEMMA OwnTrusted ==
  ASSUME IInv, NEW s \in Procs, ~disturbed[s], EnsureTrusted(s) PROVE Sound(s)'
<1> DEFINE me == proc[s]
<1>1. /\ me \in Session /\ proc \in [Procs -> Session] /\ me.pc = "trust" /\ Quiet
      /\ lock \in FileType
  BY DEF IInv, TypeOK, EnsureTrusted, Quiet, files, FileType
<1>2. PICK p \in me.plugins :
        LET known == Loaded(lock).approved[p] IN
        Becomes(s,
          IF ~Parses(lock) \/ known \notin {Absent, tree[p]} THEN Failed(me)
          ELSE IF known = tree[p] THEN [me EXCEPT !.plugins = @ \ {p}]
          ELSE [me EXCEPT !.pc = "ask", !.plugins = @ \ {p},
                          !.mem = [Loaded(lock) EXCEPT !.approved[p] = tree[p]]])
  BY DEF EnsureTrusted
<1> DEFINE known == Loaded(lock).approved[p]
           l     == [Loaded(lock) EXCEPT !.approved[p] = tree[p]]
<1>3. CASE ~Parses(lock) \/ known \notin {Absent, tree[p]}
  <2>1. proc'[s] = Failed(me)
    BY <1>1, <1>2, <1>3 DEF Becomes
  <2> QED
    BY <1>1, <2>1, FailedIsSpent, SpentIsSound
<1>4. CASE Parses(lock) /\ known \in {Absent, tree[p]} /\ known = tree[p]
  <2>1. proc'[s] = [me EXCEPT !.plugins = @ \ {p}]
    BY <1>1, <1>2, <1>4 DEF Becomes
  <2>2. proc'[s].pc = "trust" /\ proc'[s].visited = me.visited
    BY <1>1, <2>1 DEF Session
  <2>3. OnTheWay(me) /\ OnTheWay(proc'[s])
    BY <1>1, <2>2 DEF OnTheWay
  <2>4. InHand(proc[s])' = InHand(me)
    BY <1>1, <2>2 DEF InHand, Quiet
  <2> QED
    BY <1>1, <2>2, <2>3, <2>4, OwnOn DEF Quiet
<1>5. CASE Parses(lock) /\ known = Absent /\ known # tree[p]
  <2>1. proc'[s] = [me EXCEPT !.pc = "ask", !.plugins = @ \ {p}, !.mem = l]
    BY <1>1, <1>2, <1>5 DEF Becomes
  <2>2. proc'[s].pc = "ask" /\ proc'[s].visited = me.visited /\ proc'[s].mem = l
    BY <1>1, <2>1 DEF Session
  <2>3. OnTheWay(me) /\ OnTheWay(proc'[s])
    BY <1>1, <2>2 DEF OnTheWay
  <2>4. Loaded(lock) \in Lock
    BY <1>1, LoadedType
  <2>5. l.deps = Loaded(lock).deps
        /\ \A q \in Packages : Loaded(lock).approved[q] \in {Absent, l.approved[q]}
    BY <1>5, <2>4 DEF Lock, Entries
  <2>6. InHand(proc[s])' = l /\ InHand(me) = Loaded(lock)
    BY <1>1, <2>2 DEF InHand
  <2>7. lock = content
    BY <1>5 DEF IInv, Whole, Parses
  <2>8. Keeps(Loaded(content), l)
    BY <2>5, <2>7 DEF Keeps
  <2> QED
    BY <1>1, <2>2, <2>3, <2>5, <2>6, <2>8, OwnOn DEF Quiet
<1> QED
  BY <1>3, <1>4, <1>5

\* An answer adds an approval to the entry at hand.
LEMMA OwnAnswer == ASSUME IInv, NEW s \in Procs, ~disturbed[s], Answer(s) PROVE Sound(s)'
<1> DEFINE me == proc[s]
<1>1. me \in Session /\ proc \in [Procs -> Session] /\ me.pc = "ask" /\ Quiet /\ Sound(s)
  BY DEF IInv, TypeOK, Answer, Quiet, files
<1>2. CASE Becomes(s, Failed(me))
  <2>1. proc'[s] = Failed(me)
    BY <1>1, <1>2 DEF Becomes
  <2> QED
    BY <1>1, <2>1, FailedIsSpent, SpentIsSound
<1>3. CASE Becomes(s, Saving(me, me.mem, "pinned"))
  <2>1. /\ proc'[s].pc = "save" /\ proc'[s].why = "pinned" /\ proc'[s].saving = me.mem
        /\ proc'[s].visited = me.visited
    BY <1>1, <1>3 DEF Becomes, Saving, Session
  <2>2. OnTheWay(me) /\ OnTheWay(proc'[s])
    BY <1>1, <2>1 DEF OnTheWay, Keeping
  <2>3. InHand(proc[s])' = me.mem /\ InHand(me) = me.mem
    BY <1>1, <2>1 DEF InHand
  <2>4. Keeps(Loaded(content), me.mem)
    BY <1>1, <2>3 DEF Sound, HasEntries
  <2> QED
    BY <1>1, <2>1, <2>2, <2>3, <2>4, OwnOn DEF Quiet
<1> QED
  BY <1>2, <1>3 DEF Answer

\* A process that is not disturbed keeps what it knows by its own steps.
LEMMA OwnSound ==
  ASSUME IInv, NEW s \in Procs, ~disturbed'[s], Work(s) \/ User(s)
  PROVE  Sound(s)'
<1>1. CASE \/ Build(s)
           \/ \E d \in Asked : Add(s, d)
           \/ \E p \in Packages : Remove(s, p)
           \/ Die(s)
  BY <1>1, OwnSpent, SpentIsSound
<1>2. CASE Work(s) \/ Consent(s) \/ Answer(s)
  <2>1. ~disturbed[s]
    <3>1. UNCHANGED disturbed \/ Wrote(s)
      <4>1. CASE Visit(s)
        BY <4>1 DEF Visit
      <4> QED
        BY <1>2, <4>1 DEF Work, Load, Walked, Truncate, WriteOut, Revert, Cleanup,
                          EnsureTrusted, AllLoaded, Consent, Answer
    <3>2. CASE Wrote(s)
      BY <3>2, Zenon DEF Wrote
    <3> QED
      BY <3>1, <3>2
  <2> QED
    BY <1>2, <2>1, OwnLoad, OwnVisit, OwnWalked, OwnTruncate, OwnWriteOut, OwnRevert,
       OwnCleanup, OwnTrusted, OwnConsent, OwnAnswer DEF Work
<1> QED
  BY <1>1, <1>2 DEF User

\* The file stays whole or torn, and what is on its way into it a lock.
LEMMA WholeNext ==
  ASSUME IInv, NEW s \in Procs, Work(s) \/ User(s)
  PROVE  Whole'
<1> DEFINE me == proc[s]
<1>1. /\ me \in Session /\ proc \in [Procs -> Session]
      /\ me.pc = "load" => me.visited = {}
      /\ Keeping(me) => me.saving \in Lock
  BY DEF IInv, TypeOK, Whole
<1>2. \A q \in Procs \ {s} : proc'[q] = proc[q]
  BY Elsewhere DEF IInv
<1>3. lock' \in {content', Torn}
  <2>1. CASE Truncate(s) \/ WriteOut(s)
    BY <2>1 DEF Truncate, WriteOut
  <2>2. CASE Build(s) \/ (\E d \in Asked : Add(s, d)) \/ (\E p \in Packages : Remove(s, p))
    BY <2>2 DEF Build, Add, Remove, Begin, IInv, Whole
  <2>3. CASE \/ Load(s) \/ Visit(s) \/ Walked(s) \/ Revert(s) \/ Cleanup(s)
             \/ EnsureTrusted(s) \/ AllLoaded(s) \/ Consent(s) \/ Answer(s) \/ Die(s)
    <3>1. UNCHANGED <<lock, content>>
      <4>1. CASE Visit(s)
        BY <4>1 DEF Visit
      <4> QED
        BY <2>3, <4>1 DEF Load, Walked, Revert, Cleanup, EnsureTrusted, AllLoaded,
                          Consent, Answer, Die, files
    <3> QED
      BY <3>1 DEF IInv, Whole
  <2> QED
    BY <2>1, <2>2, <2>3 DEF Work, User
<1>4. /\ proc'[s].pc = "load" => proc'[s].visited = {}
      /\ Keeping(proc'[s]) => proc'[s].saving \in Lock
  <2>1. CASE \/ Build(s) \/ (\E d \in Asked : Add(s, d))
             \/ (\E p \in Packages : Remove(s, p)) \/ Die(s)
    BY <2>1, OwnSpent
  <2>2. CASE Load(s) \/ Consent(s) \/ AllLoaded(s)
    <3>1. \/ proc'[s] = Failed(me)
          \/ proc'[s].pc \in {"walk", "idle"}
      <4>1. Done(me).pc = "idle"
        BY DEF Done, Idle
      <4>2. CASE Load(s)
        BY <1>1, <4>2 DEF Load, Becomes, Session
      <4>3. CASE Consent(s) \/ AllLoaded(s)
        BY <1>1, <4>1, <4>3 DEF Consent, AllLoaded, Becomes
      <4> QED
        BY <2>2, <4>2, <4>3
    <3> QED
      BY <1>1, <3>1, FailedIsSpent DEF Keeping
  <2>3. CASE Visit(s)
    <3>1. \/ proc'[s] = Failed(me)
          \/ proc'[s].pc = "walk"
      <4>1. me.pc = "walk"
        BY <2>3 DEF Visit
      <4>2. ASSUME NEW e, Becomes(s, Past(me, e)) PROVE proc'[s].pc = "walk"
        BY <1>1, <4>1, <4>2 DEF Becomes, Past, Session
      <4>3. ASSUME NEW e, NEW c, Becomes(s, Into(s, e, c)) PROVE proc'[s].pc = "walk"
        BY <1>1, <4>1, <4>3 DEF Becomes, Into, Session
      <4>4. ASSUME NEW e, NEW c, NEW l, Becomes(s, [Into(s, e, c) EXCEPT !.mem = l])
            PROVE  proc'[s].pc = "walk"
        BY <1>1, <4>1, <4>4 DEF Becomes, Into, Session
      <4>5. Becomes(s, Failed(me)) => proc'[s] = Failed(me)
        BY <1>1 DEF Becomes
      <4>6. PICK e \in Innermost(me) :
              \/ Becomes(s, Past(me, e))
              \/ Becomes(s, Into(s, e, upstream[e.dep.pkg]))
              \/ Becomes(s, Failed(me))
              \/ Becomes(s, [Into(s, e, Wanted(me.mem, e.dep)) EXCEPT
                                !.mem = Locked(@, e.dep.pkg, Wanted(me.mem, e.dep))])
        BY <2>3 DEF Visit
      <4> QED
        BY <4>2, <4>3, <4>4, <4>5, <4>6
    <3> QED
      BY <1>1, <3>1, FailedIsSpent DEF Keeping
  <2>4. CASE Walked(s)
    BY <1>1, <2>4 DEF Walked, Becomes, Saving, Session
  <2>5. CASE Truncate(s)
    BY <1>1, <2>5 DEF Truncate, Becomes, Keeping, Session
  <2>6. CASE WriteOut(s)
    <3>1. proc'[s].pc \in {"idle", "trust", "consent", "cleanup"}
      BY <1>1, <2>6 DEF WriteOut, Becomes, Saved, Done, GivenUp, Idle, Session
    <3> QED
      BY <3>1 DEF Keeping
  <2>7. CASE Revert(s) \/ Cleanup(s)
    <3>1. CASE Revert(s)
      BY <1>1, <3>1 DEF Revert, Becomes, Saving, Keeping, Session
    <3>2. CASE Cleanup(s)
      <4>1. proc'[s].pc = "idle"
        BY <1>1, <3>2 DEF Cleanup, Becomes, Done, Idle
      <4> QED
        BY <4>1 DEF Keeping
    <3> QED
      BY <2>7, <3>1, <3>2
  <2>8. CASE EnsureTrusted(s)
    <3>1. \/ proc'[s] = Failed(me)
          \/ proc'[s].pc \in {"ask", "trust"}
      BY <1>1, <2>8 DEF EnsureTrusted, Becomes, Session
    <3> QED
      BY <1>1, <3>1, FailedIsSpent DEF Keeping
  <2>9. CASE Answer(s)
    <3>1. \/ proc'[s] = Failed(me)
          \/ proc'[s] = Saving(me, me.mem, "pinned")
      BY <1>1, <2>9 DEF Answer, Becomes
    <3>2. me.mem \in Lock
      BY <1>1 DEF Session
    <3> QED
      BY <1>1, <3>1, <3>2, FailedIsSpent DEF Saving, Session
  <2> QED
    BY <2>1, <2>2, <2>3, <2>4, <2>5, <2>6, <2>7, <2>8, <2>9 DEF Work, User
<1>5. ASSUME NEW q \in Procs
      PROVE  /\ proc'[q].pc = "load" => proc'[q].visited = {}
             /\ Keeping(proc'[q]) => proc'[q].saving \in Lock
  <2>1. CASE q = s
    BY <1>4, <2>1
  <2>2. CASE q # s
    BY <1>2, <2>2 DEF IInv, Whole
  <2> QED
    BY <2>1, <2>2
<1> QED
  BY <1>3, <1>5 DEF Whole, Keeping

\* Nobody's promise is about the newest commits of packages that have an upstream.
LEMMA PushSound == ASSUME IInv, NEW p \in Packages, Push(p) PROVE IInv'
<1>1. TypeOK'
  BY TypePush DEF IInv
<1>2. UNCHANGED <<manifest, lock, content, tree, proc, disturbed>>
  BY DEF Push, files
<1>3. Whole'
  BY <1>2 DEF IInv, Whole
<1>4. \A q \in Packages : NeededBy(q)' = NeededBy(q)
  BY <1>2 DEF Push, NeededBy, IInv, TypeOK
<1>5. ASSUME NEW s \in Procs, ~disturbed'[s] PROVE Sound(s)'
  <2>1. Sound(s) /\ proc[s].visited \subseteq Packages
    BY <1>2, <1>5 DEF IInv, TypeOK, Session
  <2>2. Agrees(proc[s])' /\ HasEntries(proc[s])' /\ PutsBack(proc[s])'
    BY <1>2, <2>1 DEF Sound, Agrees, HasEntries, PutsBack, InHand
  <2>3. Roots' = Roots
    BY <1>2 DEF Roots, RootDeps
  <2>4. ASSUME s \in AtRoot PROVE Needed(proc[s])'
    BY <1>2, <1>4, <2>1, <2>3, <2>4 DEF Sound, Needed
  <2> QED
    BY <2>2, <2>4 DEF Sound
<1> QED
  BY <1>1, <1>3, <1>5 DEF IInv

\* The inductive invariant holds in every state: the lock file is whole or torn, and
\* an undisturbed command's visited set, lock and checkouts agree.
THEOREM Invariance == Spec => []IInv
<1>1. Init => IInv
  <2> SUFFICES ASSUME Init PROVE IInv
    OBVIOUS
  <2>1. \A s \in Procs : proc[s] = Idle
    BY DEF Init
  <2>2. Whole
    BY <2>1 DEF Init, Whole, Idle, Keeping
  <2>3. \A s \in Procs : Sound(s)
    <3>1. Idle.pc = "idle" /\ Idle.result = "none"
      BY DEF Idle
    <3> QED
      BY <2>1, <3>1 DEF Sound, Agrees, HasEntries, PutsBack, Needed, OnTheWay, Keeping
  <2> QED
    BY <2>2, <2>3, TypeInit DEF IInv
<1>2. IInv /\ [Next]_vars => IInv'
  <2> SUFFICES ASSUME IInv, [Next]_vars PROVE IInv'
    OBVIOUS
  <2>1. CASE UNCHANGED vars
    BY <2>1, ZenonT(40) DEF vars, IInv, TypeOK, Whole, Sound, Agrees, HasEntries, PutsBack,
                          Needed, Roots, NeededBy, InHand
  <2>2. ASSUME NEW p \in Packages, Push(p) PROVE IInv'
    BY <2>2, PushSound
  <2>3. ASSUME NEW q \in Procs, Work(q) \/ User(q) PROVE IInv'
    <3>1. TypeOK'
      BY TypeNext DEF IInv
    <3>2. Whole'
      BY <2>3, WholeNext
    <3>3. \A s \in Procs : (~disturbed[s] => Sound(s))'
      BY <2>3, OwnSound, OthersSound
    <3> QED
      BY <3>1, <3>2, <3>3 DEF IInv
  <2> QED
    BY <2>1, <2>2, <2>3 DEF Next
<1> QED
  BY <1>1, <1>2, PTL DEF Spec
-------------------------------------------------------------------------------
(* What a command that was left alone has done.                                 *)

\* sync_and_checkout and the lock: after an undisturbed command that resolved, what
\* is checked out is what the lock file names.
THEOREM UndisturbedBuildsWhatIsLocked == Spec => []BuildsWhatIsLocked
<1>1. IInv => BuildsWhatIsLocked
  BY DEF IInv, Sound, Agrees, BuildsWhatIsLocked, Alone, OnTheWay, InHand
<1> QED
  BY <1>1, Invariance, PTL

\* resolve_deps: it resolved exactly what the manifest needs, whatever the order of
\* the walk and however packages need each other.
THEOREM UndisturbedResolvesClosure == Spec => []ResolvesClosure
<1>1. IInv => ResolvesClosure
  <2> SUFFICES ASSUME IInv, NEW s \in AtRoot, Alone(s, "ok")
               PROVE  /\ Closed(proc[s].visited)
                      /\ \A S \in SUBSET proc[s].visited : Closed(S) => S = proc[s].visited
    BY DEF ResolvesClosure
  <2>1. s \in Procs
    BY ResolverAssumption
  <2>2. Needed(proc[s]) /\ OnTheWay(proc[s]) /\ Ahead(proc[s]) = {}
        /\ proc[s].visited \subseteq Packages
    BY <2>1 DEF IInv, Sound, Alone, OnTheWay, Ahead, TypeOK, Session
  <2>3. Closed(proc[s].visited)
    BY <2>2 DEF Needed, Closed, Roots
  <2>4. ASSUME NEW S \in SUBSET proc[s].visited, Closed(S) PROVE S = proc[s].visited
    BY <2>2, <2>4 DEF Needed, Closed, Roots
  <2> QED
    BY <2>3, <2>4
<1> QED
  BY <1>1, Invariance, PTL

\* The revert of `add`: one that failed leaves manifest and lock file as they were.
THEOREM UndisturbedAddIsUndone == Spec => []FailedAddUndone
<1>1. IInv => FailedAddUndone
  BY DEF IInv, Sound, PutsBack, FailedAddUndone, Alone
<1> QED
  BY <1>1, Invariance, PTL

\* PiperineLock::save: no save drops or moves an entry that was locked or approved,
\* after a death in the middle of a save either.
THEOREM SavesKeepEntries == Spec => EntriesKept
<1>1. IInv /\ [Next]_vars =>
        [\A s \in Procs :
           content' # content /\ proc'[s] # proc[s] /\ ~disturbed[s] /\ proc[s].why # "reverted"
           => Keeps(Loaded(content), Loaded(content'))]_vars
  <2> SUFFICES ASSUME IInv, Next, NEW s \in Procs, content' # content,
                      proc'[s] # proc[s], ~disturbed[s], proc[s].why # "reverted"
               PROVE  Keeps(Loaded(content), Loaded(content'))
    BY DEF vars
  <2>1. PICK q \in Procs : WriteOut(q)
    <3>1. ASSUME NEW p \in Packages, Push(p) PROVE FALSE
      BY <3>1 DEF Push, files
    <3>2. ASSUME NEW q \in Procs, Visit(q) PROVE FALSE
      BY <3>2 DEF Visit
    <3> QED
      BY <3>1, <3>2
         DEF Next, Work, User, Load, Walked, Truncate, Revert, Cleanup, EnsureTrusted,
             AllLoaded, Build, Add, Remove, Begin, Consent, Answer, Die, files
  <2>2. q = s
    BY <2>1, Elsewhere DEF Work, IInv
  <2>3. Keeping(proc[s]) /\ content' = proc[s].saving
    BY <2>1, <2>2 DEF WriteOut, Keeping
  <2>4. proc[s].saving \in Lock /\ Keeps(Loaded(content), proc[s].saving)
    BY <2>3 DEF IInv, Whole, Sound, HasEntries, InHand, Keeping
  <2>5. Loaded(content') = proc[s].saving
    BY <2>3, <2>4, NoLocks DEF Loaded
  <2> QED
    BY <2>4, <2>5
<1> QED
  BY <1>1, Invariance, PTL DEF Spec, EntriesKept
-------------------------------------------------------------------------------
(* Commands get on: what CommandsEnd needs besides a system that runs them.     *)

\* A command resolves, then does the rest; an `add` may have to go back.
Part(me) ==
  IF me.pc = "idle" THEN 3
  ELSE IF me.pc = "revert" \/ (me.pc \in {"save", "write"} /\ me.why = "reverted") THEN 2
  ELSE IF me.pc \in {"load", "walk"} \/ (me.pc \in {"save", "write"} /\ me.why = "resolved")
  THEN 0
  ELSE 1

\* The order of what it does in a part, plugin by plugin where it loads plugins.
Turn(me) ==
  IF me.pc = "walk" THEN 1
  ELSE IF me.pc = "save" THEN 2
  ELSE IF me.pc = "write" THEN 3
  ELSE IF me.pc = "trust" THEN 4
  ELSE 0

Shrinks(S, T) == T \subseteq S /\ T # S

\* Process `you` is nearer the end of its command than `me`: in a later part; with
\* fewer plugins to load; at a later turn; with more packages visited; with fewer
\* dependencies left.
Nearer(me, you) ==
  \/ Part(me) < Part(you)
  \/ /\ Part(me) = Part(you)
     /\ \/ Shrinks(me.plugins, you.plugins)
        \/ me.plugins = you.plugins /\ Turn(me) < Turn(you)
        \/ /\ me.plugins = you.plugins /\ Turn(me) = Turn(you)
           /\ \/ Shrinks(you.visited, me.visited)
              \/ me.visited = you.visited /\ Shrinks(me.left, you.left)

\* So is a process with a command after each of its steps.
CommandsGetOn ==
  \A s \in Procs :
    proc[s].pc # "idle" /\ (Work(s) \/ proc'[s] # proc[s]) => Nearer(proc[s], proc'[s])

\* Commands are put together from finite sets only.
LeftIsFinite == \A s \in Procs : IsFiniteSet(proc[s].left)

\* The image of a finite set is finite.
LEMMA ImageFinite ==
  ASSUME NEW S, IsFiniteSet(S), NEW T, NEW f \in [S -> T],
         \A t \in T : \E x \in S : f[x] = t
  PROVE  IsFiniteSet(T)
<1>1. f \in Surjection(S, T)
  BY DEF Surjection
<1> QED
  BY <1>1, FS_Surjection

\* Finitely many packages have finitely many commits, and so dependencies.
LEMMA DepFinite ==
  ASSUME IsFiniteSet(Packages)
  PROVE  IsFiniteSet(Dep)
<1> DEFINE R == {1..MaxCommit[p] : p \in Packages}
           P == Packages \X ({Latest} \cup Commits)
<1>1. IsFiniteSet(R)
  <2> DEFINE f == [p \in Packages |-> 1..MaxCommit[p]]
  <2>1. f \in [Packages -> R]
    OBVIOUS
  <2>2. \A t \in R : \E p \in Packages : f[p] = t
    OBVIOUS
  <2> HIDE DEF R, f
  <2> QED
    BY <2>1, <2>2, ImageFinite
<1>2. \A T \in R : IsFiniteSet(T)
  <2> SUFFICES ASSUME NEW p \in Packages PROVE IsFiniteSet(1..MaxCommit[p])
    OBVIOUS
  <2>1. MaxCommit[p] \in Int
    BY ResolverAssumption
  <2> QED
    BY <2>1, FS_Interval
<1>3. IsFiniteSet({Latest} \cup Commits)
  <2>1. IsFiniteSet(Commits)
    <3>1. IsFiniteSet(UNION R)
      <4> HIDE DEF R
      <4> QED
        BY <1>1, <1>2, FS_UNION
    <3> QED
      BY <3>1 DEF Commits
  <2>2. IsFiniteSet(Commits \cup {Latest})
    BY <2>1, FS_AddElement
  <2>3. Commits \cup {Latest} = {Latest} \cup Commits
    OBVIOUS
  <2> QED
    BY <2>2, <2>3
<1>4. IsFiniteSet(P)
  BY <1>3, FS_Product
<1> DEFINE f == [x \in P |-> [pkg |-> x[1], at |-> x[2]]]
<1>5. f \in [P -> Dep]
  BY DEF Dep
<1>6. \A d \in Dep : \E x \in P : f[x] = d
  <2> SUFFICES ASSUME NEW d \in Dep PROVE \E x \in P : f[x] = d
    OBVIOUS
  <2>1. d = [pkg |-> d.pkg, at |-> d.at] /\ <<d.pkg, d.at>> \in P
    BY DEF Dep
  <2>2. f[<<d.pkg, d.at>>] = d
    BY <2>1
  <2> QED
    BY <2>1, <2>2
<1> HIDE DEF P, f
<1> QED
  BY <1>4, <1>5, <1>6, ImageFinite

\* So a manifest names finitely many.
LEMMA AtFinite ==
  ASSUME IsFiniteSet(Packages), NEW level, NEW deps \in SUBSET Dep
  PROVE  IsFiniteSet(At(level, deps))
<1>1. IsFiniteSet(deps)
  BY DepFinite, FS_Subset
<1>2. [d \in deps |-> [level |-> level, dep |-> d]] \in [deps -> At(level, deps)]
  BY DEF At
<1>3. \A t \in At(level, deps) :
         \E d \in deps : [x \in deps |-> [level |-> level, dep |-> x]][d] = t
  BY DEF At
<1> QED
  BY <1>1, <1>2, <1>3, ImageFinite

\* What a command has become when it is done, or has failed.
LEMMA EndsNearer ==
  ASSUME NEW me \in Session, me.pc \in {"load", "walk", "consent", "trust", "ask", "cleanup"}
  PROVE  /\ Done(me).pc = "idle" /\ Done(me).left = {} /\ Nearer(me, Done(me))
         /\ Failed(me).left \in {me.left, {}} /\ Nearer(me, Failed(me))
<1>1. Part(me) \in {0, 1}
  BY DEF Part
<1>2. Done(me).pc = "idle" /\ Done(me).left = {}
  BY DEF Done, Idle
<1>3. Failed(me).pc \in {"idle", "revert"} /\ Failed(me).left \in {me.left, {}}
  BY DEF Failed, GivenUp, Idle, Session
<1>4. Part(Done(me)) = 3 /\ Part(Failed(me)) \in {2, 3}
  BY <1>2, <1>3 DEF Part
<1> QED
  BY <1>1, <1>2, <1>3, <1>4 DEF Nearer

\* Loading the lock file: the walk starts with what the manifest names.
LEMMA LoadNearer ==
  ASSUME IsFiniteSet(Packages), TypeOK, LeftIsFinite, NEW s \in Procs, Load(s)
  PROVE  IsFiniteSet(proc'[s].left) /\ Nearer(proc[s], proc'[s])
<1> DEFINE me == proc[s]
           on == [me EXCEPT !.pc = "walk", !.mem = Loaded(lock),
                            !.left = At(1, RootDeps(manifest))]
<1>1. me \in Session /\ me.pc = "load"
  BY DEF TypeOK, Load
<1>2. proc'[s] = on \/ proc'[s] = Failed(me)
  BY DEF Load, Becomes, TypeOK
<1>3. CASE proc'[s] = on
  <2>1. IsFiniteSet(At(1, RootDeps(manifest)))
    BY RootType, AtFinite DEF TypeOK
  <2>2. /\ on.pc = "walk" /\ on.plugins = me.plugins
        /\ on.left = At(1, RootDeps(manifest))
    BY <1>1 DEF Session
  <2>3. Nearer(me, on)
    BY <1>1, <2>2 DEF Nearer, Part, Turn
  <2> QED
    BY <1>3, <2>1, <2>2, <2>3
<1>4. CASE proc'[s] = Failed(me)
  BY <1>1, <1>4, EndsNearer, FS_EmptySet DEF LeftIsFinite
<1> QED
  BY <1>2, <1>3, <1>4

\* A turn of the walk passes a package by, or visits one more.
LEMMA VisitNearer ==
  ASSUME IsFiniteSet(Packages), TypeOK, LeftIsFinite, NEW s \in Procs, Visit(s)
  PROVE  IsFiniteSet(proc'[s].left) /\ Nearer(proc[s], proc'[s])
<1> DEFINE me == proc[s]
<1>1. me \in Session /\ me.pc = "walk" /\ IsFiniteSet(me.left)
  BY DEF TypeOK, Visit, LeftIsFinite
<1>2. PICK e \in Innermost(me) :
        \/ Becomes(s, Past(me, e))
        \/ /\ e.dep.pkg \notin me.visited
           /\ \E c \in Commits, l \in Lock :
                \/ Becomes(s, Into(s, e, c))
                \/ Becomes(s, [Into(s, e, c) EXCEPT !.mem = l])
        \/ Becomes(s, Failed(me))
  <2>1. PICK e \in Innermost(me) :
          \/ Becomes(s, Past(me, e))
          \/ /\ Fresh(me, e.dep.pkg) /\ Becomes(s, Into(s, e, upstream[e.dep.pkg]))
          \/ /\ Fresh(me, e.dep.pkg)
             /\ Becomes(s, [Into(s, e, Wanted(me.mem, e.dep)) EXCEPT
                              !.mem = Locked(@, e.dep.pkg, Wanted(me.mem, e.dep))])
          \/ Becomes(s, Failed(me))
    BY DEF Visit
  <2>2. e \in me.left /\ me.mem \in Lock
    BY <1>1 DEF Innermost, Session
  <2>3. e.dep \in Dep /\ e.dep.pkg \in Packages
    BY <2>2, IntoType, ResolverAssumption DEF TypeOK, Commits
  <2>4. upstream[e.dep.pkg] \in Commits
    BY <2>3 DEF TypeOK
  <2>5. PICK c \in Commits : c = Wanted(me.mem, e.dep)
    BY <2>2, <2>3, WantedType
  <2>6. Locked(me.mem, e.dep.pkg, c) \in Lock
    BY <2>2, <2>3, WantedType
  <2>7. Into(s, e, c).mem = me.mem
    BY <1>1 DEF Into, Session
  <2>8. CASE /\ Fresh(me, e.dep.pkg)
             /\ Becomes(s, [Into(s, e, c) EXCEPT !.mem = Locked(@, e.dep.pkg, c)])
    BY <2>6, <2>7, <2>8 DEF Fresh
  <2>9. CASE Fresh(me, e.dep.pkg) /\ Becomes(s, Into(s, e, upstream[e.dep.pkg]))
    BY <2>4, <2>6, <2>9 DEF Fresh
  <2> QED
    BY <2>1, <2>5, <2>8, <2>9
<1>3. e \in me.left
  BY DEF Innermost
<1>4. CASE Becomes(s, Past(me, e))
  <2>1. proc'[s] = Past(me, e)
    BY <1>4 DEF Becomes, TypeOK
  <2>2. /\ Past(me, e).pc = "walk" /\ Past(me, e).why = me.why
        /\ Past(me, e).plugins = me.plugins /\ Past(me, e).visited = me.visited
        /\ Past(me, e).left = me.left \ {e}
    BY <1>1 DEF Past, Session
  <2>3. IsFiniteSet(me.left \ {e})
    BY <1>1, FS_Subset
  <2>4. Nearer(me, Past(me, e))
    BY <1>1, <1>3, <2>2 DEF Nearer, Part, Turn, Shrinks
  <2> QED
    BY <2>1, <2>2, <2>3, <2>4
<1>5. ASSUME e.dep.pkg \notin me.visited, NEW c \in Commits, NEW l \in Lock,
             \/ Becomes(s, Into(s, e, c))
             \/ Becomes(s, [Into(s, e, c) EXCEPT !.mem = l])
      PROVE  IsFiniteSet(proc'[s].left) /\ Nearer(me, proc'[s])
  <2> DEFINE new == At(Below(me, e), NeedsOf(s, e.dep, c))
  <2>1. Into(s, e, c) \in Session
    BY <1>3, IntoType
  <2>2. /\ proc'[s].pc = "walk" /\ proc'[s].plugins = me.plugins
        /\ proc'[s].visited = me.visited \cup {e.dep.pkg}
        /\ proc'[s].left = (me.left \ {e}) \cup new
    <3>1. proc'[s] = Into(s, e, c) \/ proc'[s] = [Into(s, e, c) EXCEPT !.mem = l]
      BY <1>5 DEF Becomes, TypeOK
    <3>2. /\ Into(s, e, c).pc = "walk" /\ Into(s, e, c).plugins = me.plugins
          /\ Into(s, e, c).visited = me.visited \cup {e.dep.pkg}
          /\ Into(s, e, c).left = (me.left \ {e}) \cup new
      BY <1>1 DEF Into, Session
    <3> HIDE DEF new
    <3> QED
      BY <2>1, <3>1, <3>2 DEF Session
  <2>3. IsFiniteSet(new)
    <3>1. e.dep \in Dep /\ e.dep.pkg \in Packages
      BY <1>3, <1>5, IntoType
    <3>2. NeedsOf(s, e.dep, c) \in SUBSET Dep
      BY <3>1, ResolverAssumption DEF NeedsOf
    <3> QED
      BY <3>2, AtFinite
  <2>4. IsFiniteSet((me.left \ {e}) \cup new)
    <3> HIDE DEF new
    <3>1. IsFiniteSet(me.left \ {e})
      BY <1>1, FS_Subset
    <3> QED
      BY <2>3, <3>1, FS_Union
  <2>5. Nearer(me, proc'[s])
    BY <1>1, <1>5, <2>2 DEF Nearer, Part, Turn, Shrinks
  <2> QED
    BY <2>2, <2>4, <2>5
<1>6. CASE Becomes(s, Failed(me))
  <2>1. proc'[s] = Failed(me)
    BY <1>6 DEF Becomes, TypeOK
  <2> QED
    BY <1>1, <2>1, EndsNearer, FS_EmptySet
<1> QED
  BY <1>2, <1>4, <1>5, <1>6

\* Saving the lock: the walk's, the one an `add` goes back to, or an approval.
LEMMA SaveNearer ==
  ASSUME TypeOK, LeftIsFinite, NEW s \in Procs,
         Walked(s) \/ Truncate(s) \/ WriteOut(s) \/ Revert(s) \/ Answer(s)
  PROVE  IsFiniteSet(proc'[s].left) /\ Nearer(proc[s], proc'[s])
<1> DEFINE me == proc[s]
<1>1. me \in Session /\ IsFiniteSet(me.left)
  BY DEF TypeOK, LeftIsFinite
<1>2. ASSUME NEW l, NEW reason, Becomes(s, Saving(me, l, reason))
      PROVE  /\ proc'[s].pc = "save" /\ proc'[s].why = reason
             /\ proc'[s].plugins = me.plugins /\ proc'[s].left = me.left
  BY <1>1, <1>2 DEF Becomes, Saving, Session, TypeOK
<1>3. CASE Walked(s)
  <2>1. /\ proc'[s].pc = "save" /\ proc'[s].why = "resolved"
        /\ proc'[s].plugins = me.plugins /\ proc'[s].left = me.left
    BY <1>2, <1>3 DEF Walked
  <2>2. me.pc = "walk"
    BY <1>3 DEF Walked
  <2> QED
    BY <1>1, <2>1, <2>2 DEF Nearer, Part, Turn
<1>4. CASE Revert(s)
  <2>1. /\ proc'[s].pc = "save" /\ proc'[s].why = "reverted"
        /\ proc'[s].plugins = me.plugins /\ proc'[s].left = me.left
    BY <1>2, <1>4 DEF Revert
  <2>2. me.pc = "revert"
    BY <1>4 DEF Revert
  <2> QED
    BY <1>1, <2>1, <2>2 DEF Nearer, Part, Turn
<1>5. CASE Answer(s)
  <2>1. me.pc = "ask"
    BY <1>5 DEF Answer
  <2>2. CASE Becomes(s, Saving(me, me.mem, "pinned"))
    <3>1. /\ proc'[s].pc = "save" /\ proc'[s].why = "pinned"
          /\ proc'[s].plugins = me.plugins /\ proc'[s].left = me.left
      BY <1>2, <2>2
    <3> QED
      BY <1>1, <2>1, <3>1 DEF Nearer, Part, Turn
  <2>3. CASE Becomes(s, Failed(me))
    <3>1. proc'[s] = Failed(me)
      BY <2>3 DEF Becomes, TypeOK
    <3> QED
      BY <1>1, <2>1, <3>1, EndsNearer, FS_EmptySet
  <2> QED
    BY <1>5, <2>2, <2>3 DEF Answer
<1>6. CASE Truncate(s)
  <2>1. me.pc = "save" /\ proc'[s] = [me EXCEPT !.pc = "write"]
    BY <1>6 DEF Truncate, Becomes, TypeOK
  <2>2. /\ proc'[s].pc = "write" /\ proc'[s].why = me.why
        /\ proc'[s].plugins = me.plugins /\ proc'[s].left = me.left
    BY <1>1, <2>1 DEF Session
  <2> QED
    BY <1>1, <2>1, <2>2 DEF Nearer, Part, Turn
<1>7. CASE WriteOut(s)
  <2>1. me.pc \in {"save", "write"} /\ proc'[s] = Saved(me)
    BY <1>7 DEF WriteOut, Becomes, TypeOK
  <2>2. CASE me.why = "reverted"
    <3>1. proc'[s].pc = "idle" /\ proc'[s].left = {}
      BY <2>1, <2>2 DEF Saved, GivenUp, Idle
    <3> QED
      BY <2>1, <2>2, <3>1, FS_EmptySet DEF Nearer, Part
  <2>3. CASE me.why = "pinned"
    <3>1. proc'[s].pc = "trust" /\ proc'[s].plugins = me.plugins /\ proc'[s].left = me.left
      BY <1>1, <2>1, <2>3 DEF Saved, Session
    <3> QED
      BY <1>1, <2>1, <2>3, <3>1 DEF Nearer, Part, Turn
  <2>4. CASE me.why = "resolved"
    <3>1. /\ proc'[s].pc \in {"idle", "trust", "consent", "cleanup"}
          /\ proc'[s].left \in {{}, me.left}
      BY <1>1, <2>1, <2>4 DEF Saved, Done, Idle, Session
    <3> QED
      BY <1>1, <2>1, <2>4, <3>1, FS_EmptySet DEF Nearer, Part
  <2> QED
    BY <1>1, <2>2, <2>3, <2>4 DEF Session
<1> QED
  BY <1>3, <1>4, <1>5, <1>6, <1>7

\* The last part of a command, and its death: every plugin is loaded once.
LEMMA RestNearer ==
  ASSUME TypeOK, LeftIsFinite, NEW s \in Procs,
         Consent(s) \/ Cleanup(s) \/ EnsureTrusted(s) \/ AllLoaded(s) \/ Die(s)
  PROVE  IsFiniteSet(proc'[s].left) /\ Nearer(proc[s], proc'[s])
<1> DEFINE me == proc[s]
<1>1. me \in Session /\ IsFiniteSet(me.left)
  BY DEF TypeOK, LeftIsFinite
<1>2. CASE Consent(s) \/ Cleanup(s) \/ AllLoaded(s)
  <2>1. me.pc \in {"consent", "cleanup", "trust"} /\ proc'[s] \in {Done(me), Failed(me)}
    BY <1>2 DEF Consent, Cleanup, AllLoaded, Becomes, TypeOK
  <2> QED
    BY <1>1, <2>1, EndsNearer, FS_EmptySet
<1>3. CASE Die(s)
  <2>1. proc'[s] = Idle /\ me.pc # "idle"
    BY <1>3 DEF Die, Becomes, TypeOK
  <2>2. Idle.pc = "idle" /\ Idle.left = {}
    BY DEF Idle
  <2>3. Part(me) \in {0, 1, 2} /\ Part(Idle) = 3
    BY <2>1, <2>2 DEF Part
  <2> QED
    BY <2>1, <2>2, <2>3, FS_EmptySet DEF Nearer
<1>4. CASE EnsureTrusted(s)
  <2>1. PICK p \in me.plugins, l \in Lock :
          \/ proc'[s] = Failed(me)
          \/ proc'[s] = [me EXCEPT !.plugins = @ \ {p}]
          \/ proc'[s] = [me EXCEPT !.pc = "ask", !.plugins = @ \ {p}, !.mem = l]
    <3>1. PICK p \in me.plugins :
            LET known == Loaded(lock).approved[p] IN
            Becomes(s,
              IF ~Parses(lock) \/ known \notin {Absent, tree[p]} THEN Failed(me)
              ELSE IF known = tree[p] THEN [me EXCEPT !.plugins = @ \ {p}]
              ELSE [me EXCEPT !.pc = "ask", !.plugins = @ \ {p},
                              !.mem = [Loaded(lock) EXCEPT !.approved[p] = tree[p]]])
      BY <1>4 DEF EnsureTrusted
    <3>2. p \in Packages
      BY <1>1, ResolverAssumption DEF Session
    <3>3. [Loaded(lock) EXCEPT !.approved[p] = tree[p]] \in Lock
      BY <3>2, LoadedType, ApprovedType DEF TypeOK, FileType, Entries
    <3>4. \/ proc'[s] = Failed(me)
          \/ proc'[s] = [me EXCEPT !.plugins = @ \ {p}]
          \/ proc'[s] = [me EXCEPT !.pc = "ask", !.plugins = @ \ {p},
                              !.mem = [Loaded(lock) EXCEPT !.approved[p] = tree[p]]]
      BY <3>1 DEF Becomes, TypeOK
    <3> QED
      BY <3>3, <3>4
  <2>2. me.pc = "trust"
    BY <1>4 DEF EnsureTrusted
  <2>3. CASE proc'[s] = Failed(me)
    BY <1>1, <2>2, <2>3, EndsNearer, FS_EmptySet
  <2>4. CASE \/ proc'[s] = [me EXCEPT !.plugins = @ \ {p}]
             \/ proc'[s] = [me EXCEPT !.pc = "ask", !.plugins = @ \ {p}, !.mem = l]
    <3>1. /\ proc'[s].pc \in {"trust", "ask"} /\ proc'[s].left = me.left
          /\ proc'[s].plugins = me.plugins \ {p}
      BY <1>1, <2>2, <2>4 DEF Session
    <3> QED
      BY <1>1, <2>1, <2>2, <3>1 DEF Nearer, Part, Shrinks
  <2> QED
    BY <2>1, <2>3, <2>4
<1> QED
  BY <1>2, <1>3, <1>4

\* A process that begins has nothing left to visit yet.
LEMMA BeginsEmpty ==
  ASSUME TypeOK, NEW s \in Procs,
         \/ Build(s)
         \/ \E d \in Asked : Add(s, d)
         \/ \E p \in Packages : Remove(s, p)
  PROVE  proc[s].pc = "idle" /\ proc'[s].left = {}
<1>1. PICK command, p : Begin(s, command, p)
  BY DEF Build, Add, Remove
<1> QED
  BY <1>1 DEF Begin, Becomes, Idle, TypeOK

\* What every step does to the processes.
LEMMA StepNearer ==
  ASSUME IsFiniteSet(Packages), TypeOK, LeftIsFinite, [Next]_vars
  PROVE  LeftIsFinite' /\ [CommandsGetOn]_vars
<1>1. ASSUME NEW s \in Procs, Work(s) \/ User(s), proc[s].pc # "idle"
      PROVE  IsFiniteSet(proc'[s].left) /\ Nearer(proc[s], proc'[s])
  BY <1>1, LoadNearer, VisitNearer, SaveNearer, RestNearer, BeginsEmpty DEF Work, User
<1>2. ASSUME NEW s \in Procs, Work(s) \/ User(s), proc[s].pc = "idle"
      PROVE  IsFiniteSet(proc'[s].left)
  <2>1. \/ Build(s)
        \/ \E d \in Asked : Add(s, d)
        \/ \E p \in Packages : Remove(s, p)
    BY <1>2 DEF Work, User, Load, Visit, Walked, Truncate, WriteOut, Revert, Cleanup,
                EnsureTrusted, AllLoaded, Consent, Answer, Die
  <2> QED
    BY <2>1, BeginsEmpty, FS_EmptySet
<1>3. ASSUME NEW s \in Procs, ~(Work(s) \/ User(s)) PROVE proc'[s] = proc[s]
  <2>1. CASE UNCHANGED vars \/ \E p \in Packages : Push(p)
    BY <2>1 DEF vars, Push
  <2>2. CASE \E q \in Procs : Work(q) \/ User(q)
    <3>1. PICK q \in Procs : Work(q) \/ User(q)
      BY <2>2
    <3>2. s \in Procs \ {q}
      BY <1>3, <3>1
    <3> QED
      BY <3>1, <3>2, Elsewhere
  <2> QED
    BY <2>1, <2>2 DEF Next
<1>4. LeftIsFinite'
  <2> SUFFICES ASSUME NEW s \in Procs PROVE IsFiniteSet(proc'[s].left)
    BY DEF LeftIsFinite
  <2>1. CASE Work(s) \/ User(s)
    BY <1>1, <1>2, <2>1
  <2>2. CASE ~(Work(s) \/ User(s))
    BY <1>3, <2>2 DEF LeftIsFinite
  <2> QED
    BY <2>1, <2>2
<1>5. CommandsGetOn
  BY <1>1, <1>3 DEF CommandsGetOn
<1> QED
  BY <1>4, <1>5

\* No command goes on for ever, also where packages need each other: every step of
\* a process with a command brings it nearer the end, in an order in which there is
\* only so far to go: four parts, finitely many plugins to load, packages to visit
\* and dependencies left at any time. (Project and packages are finite.)
THEOREM CommandsRunOut ==
  ASSUME IsFiniteSet(Packages)
  PROVE  Spec => []LeftIsFinite /\ [][CommandsGetOn]_vars
<1>1. Init => LeftIsFinite
  <2>1. Idle.left = {}
    BY DEF Idle
  <2> QED
    BY <2>1, FS_EmptySet DEF Init, LeftIsFinite
<1>2. TypeOK /\ LeftIsFinite /\ [Next]_vars => LeftIsFinite' /\ [CommandsGetOn]_vars
  BY StepNearer
<1> QED
  BY <1>1, <1>2, TypeCorrect, PTL DEF Spec
===============================================================================
