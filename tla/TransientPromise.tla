-------------------------- MODULE TransientPromise --------------------------
(***************************************************************************)
(* What a transient run promises its host, with no attempts, checkpoints or *)
(* rejections in sight: a clock that advances from instant to instant and   *)
(* never past something declared; at each instant the digital events and    *)
(* the parameter writes due there take effect, once, in order.  Of the      *)
(* devices it speaks of a flip-flop that reads no analog quantity: one that *)
(* does may latch an edge twice at the dt floor.                            *)
(* TransientDriver implements it.                                           *)
(***************************************************************************)
EXTENDS Discontinuities

VARIABLES
  status,          \* "starting", "running" or "stopped"
  clock,           \* the newest accepted instant
  waiting, fired,  \* digital events to come, and those that happened
  edges,           \* edges latched by the flip-flop that reads no analog
  todo, values     \* writes to come, and the parameters

promiseVars == <<status, clock, waiting, fired, edges, todo, values>>

PromiseInit ==
  /\ status = "starting" /\ clock = Start
  /\ waiting = Boot /\ fired = {} /\ edges = 0
  /\ todo \in SUBSET SetIds /\ values \in [Param -> Value]

TakeWrites(t) ==
  /\ todo' = todo \ DueSets(todo, t)
  /\ values' = Write(values, Written(DueSets(todo, t)))

Begin ==
  /\ status = "starting" /\ status' = "running"
  /\ TakeWrites(Start)
  /\ UNCHANGED <<clock, waiting, fired, edges>>

\* The clock moves: everything declared before the new instant has happened.
Advance ==
  /\ status = "running" /\ UNCHANGED status
  /\ clock' \in Nat /\ clock' > clock
  /\ \A e \in waiting : DTime[e] >= clock'
  /\ \A i \in todo : SetTime[i] >= clock'
  /\ \E hooks \in SUBSET HookEvents(clock') :
       LET d == RunDigital(Seed([pending |-> waiting, applied |-> fired], hooks), clock')
       IN  waiting' = d.pending /\ fired' = d.applied
  /\ edges' = Cardinality(Rising(fired'))
  /\ TakeWrites(clock')

\* A run that fails promises nothing about the circuit it leaves behind.
Halt ==
  /\ status # "stopped" /\ status' = "stopped"

PromiseNext ==
  \/ Begin
  \/ Advance
  \/ Halt

PromiseSpec == PromiseInit /\ [][PromiseNext]_promiseVars

=============================================================================
