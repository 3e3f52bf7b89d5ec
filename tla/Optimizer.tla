----------------------------- MODULE Optimizer -----------------------------
(***************************************************************************)
(* The loops of the optimizer (core/src/optim/mod.rs and op_optim.rs).     *)
(* Three of them are nested: the patches of a pass are applied until it    *)
(* has none, the pass is started again on the compacted model until it     *)
(* finds nothing, all the passes are until none of them does.  A pass that *)
(* looks at one operator after the other resumes where it was.             *)
(*                                                                         *)
(* What the passes do is abstract: a graph is a value, and a pass offers   *)
(* patches at the positions of its evaluation order.  Module ModelPatch is *)
(* about the patches, module PushSplitDown about one pass.                 *)
(***************************************************************************)
EXTENDS Naturals, Sequences

CONSTANTS
  Model,       \* the graphs
  Watchdog,    \* the labels that keep a patch from being applied twice
  NoWatchdog,  \* dont_apply_twice is None
  NoPatch,     \* what a position where there is nothing to do offers
  NoLimit,     \* steps is None
  Requests     \* the optimizations that may be asked for

Patch == [to : Model, watchdog : Watchdog \cup {NoWatchdog}]

(***************************************************************************)
(* One optimization: the model it gets; what each pass offers on each      *)
(* graph, position after position; the passes that are OpOptims, the       *)
(* others look at the whole graph and offer one patch without a watchdog;  *)
(* what compact() makes of each graph; how many patches may be applied.    *)
(***************************************************************************)
Request ==
  [model : Model, offers : Seq([Model -> Seq(Patch \cup {NoPatch})]), ops : SUBSET Nat,
   compact : [Model -> Model], steps : Nat \cup {NoLimit}]

(* Compacting a compacted graph changes nothing: CompactIsNormal of ModelPatch. *)
WellFormed(r) ==
  /\ r.offers # <<>>
  /\ \A m \in Model : r.compact[r.compact[m]] = r.compact[m]
  /\ \A p \in (1..Len(r.offers)) \ r.ops : \A m \in Model :
       \A ix \in 1..Len(r.offers[p][m]) :
         r.offers[p][m][ix] # NoPatch => r.offers[p][m][ix].watchdog = NoWatchdog

ASSUME RequestsAssumption == \A r \in Requests : r \in Request /\ WellFormed(r)
ASSUME NamesAssumption == NoPatch \notin Patch /\ NoWatchdog \notin Watchdog /\ NoLimit \notin Nat

VARIABLES
  request,     \* the optimization, constant
  model,       \* the graph so far
  pass,        \* the pass that runs
  cursor,      \* how many positions it is past, when it is an OpOptim
  counter,     \* patches applied
  innerStart,  \* the counter when run_one_pass_inner was entered
  roundStart,  \* the counter when run_all_passes was entered
  seen,        \* the watchdogs of the patches applied
  status       \* "running", or how optimize returned: "ok", "error"

vars == <<request, model, pass, cursor, counter, innerStart, roundStart, seen, status>>

Passes == 1..Len(request.offers)

Offers(p) == request.offers[p][model]

Positions(p) == 1..Len(Offers(p))

(* The positions the pass has not gone past and would patch. *)
Remaining == {ix \in Positions(pass) : ix > cursor /\ Offers(pass)[ix] # NoPatch}

Found(ix) == ix \in Remaining /\ \A j \in Remaining : ix <= j

Seen(patch) == patch.watchdog \in seen

(* Mutant of Limited: one patch too many. *)
LimitedLate == request.steps # NoLimit /\ counter > request.steps

Limited == request.steps # NoLimit /\ counter >= request.steps

-----------------------------------------------------------------------------

Init ==
  /\ request \in Requests
  /\ model = request.compact[request.model]
  /\ pass = 1
  /\ cursor = 0
  /\ counter = 0
  /\ innerStart = 0
  /\ roundStart = 0
  /\ seen = {}
  /\ status = "running"

(* Mutant of Watched: the patches without a watchdog share one. *)
WatchedAll(patch) == {patch.watchdog}

Watched(patch) == {patch.watchdog} \ {NoWatchdog}

(* Mutant of Resume: the position is looked at again after a watchdog too. *)
ResumeHere(ix) == IF pass \notin request.ops THEN 0 ELSE ix - 1

(* An OpOptim resumes at the position it has just patched, or after it when
   the patch has a watchdog. *)
Resume(ix) ==
  IF pass \notin request.ops THEN 0
  ELSE IF Offers(pass)[ix].watchdog = NoWatchdog THEN ix - 1 ELSE ix

ApplyPatch ==
  /\ status = "running"
  /\ ~Limited
  /\ \E ix \in Positions(pass) :
       /\ Found(ix)
       /\ ~Seen(Offers(pass)[ix])
       /\ model' = Offers(pass)[ix].to
       /\ seen' = seen \cup Watched(Offers(pass)[ix])
       /\ cursor' = Resume(ix)
  /\ counter' = counter + 1
  /\ UNCHANGED <<request, pass, innerStart, roundStart, status>>

SkipSeen ==
  /\ status = "running"
  /\ ~Limited
  /\ \E ix \in Positions(pass) :
       /\ Found(ix)
       /\ Seen(Offers(pass)[ix])
       /\ cursor' = Resume(ix)
  /\ UNCHANGED <<request, model, pass, counter, innerStart, roundStart, seen, status>>

(* A pass, or the application of its patch, returns an error. *)
Fail ==
  /\ status = "running"
  /\ status' = "error"
  /\ UNCHANGED <<request, model, pass, cursor, counter, innerStart, roundStart, seen>>

(* run_one_pass_inner returns: there is no patch, or no step left for it. *)
InnerReturns ==
  /\ status = "running"
  /\ Remaining = {} \/ Limited

(* Both the loops over a pass and over all of them compact the model. *)
Enter(p) ==
  /\ model' = request.compact[model]
  /\ pass' = p
  /\ cursor' = 0
  /\ innerStart' = counter
  /\ UNCHANGED <<request, counter, seen, status>>

RepeatPass ==
  /\ InnerReturns
  /\ counter # innerStart
  /\ Enter(pass)
  /\ UNCHANGED roundStart

NextPass ==
  /\ InnerReturns
  /\ counter = innerStart
  /\ pass < Len(request.offers)
  /\ Enter(pass + 1)
  /\ UNCHANGED roundStart

Repeat ==
  /\ InnerReturns
  /\ counter = innerStart
  /\ pass = Len(request.offers)
  /\ counter # roundStart
  /\ Enter(1)
  /\ roundStart' = counter

(* Mutant of Return: one round is enough. *)
ReturnAfterOneRound ==
  /\ InnerReturns
  /\ counter = innerStart
  /\ pass = Len(request.offers)
  /\ model' = request.compact[model]
  /\ status' = "ok"
  /\ UNCHANGED <<request, pass, cursor, counter, innerStart, roundStart, seen>>

Return ==
  /\ InnerReturns
  /\ counter = innerStart
  /\ pass = Len(request.offers)
  /\ counter = roundStart
  /\ model' = request.compact[model]
  /\ status' = "ok"
  /\ UNCHANGED <<request, pass, cursor, counter, innerStart, roundStart, seen>>

Step ==
  \/ ApplyPatch
  \/ SkipSeen
  \/ RepeatPass
  \/ NextPass
  \/ Repeat
  \/ Return

Next == Step \/ Fail

Spec == Init /\ [][Next]_vars

(* One thread runs the loops: it goes on, and nothing makes it fail. *)
FairSpec == Spec /\ WF_vars(Step)

-----------------------------------------------------------------------------

Applicable(patch) == patch # NoPatch /\ ~Seen(patch)

(* Pass p has nothing left to do. *)
Exhausted(p) == \A ix \in Positions(p) : ~Applicable(Offers(p)[ix])

TypeOK ==
  /\ request \in Request /\ WellFormed(request)
  /\ model \in Model
  /\ pass \in Passes
  /\ cursor \in Nat
  /\ counter \in Nat /\ innerStart \in Nat /\ roundStart \in Nat
  /\ seen \in SUBSET Watchdog
  /\ status \in {"running", "ok", "error"}

(* The result is a fixpoint of all the passes, although each one has run on
   what the others had made when its turn came, OpOptims do not look back
   while they run, and a patch seen before is stepped over: every position of
   every pass has no patch to offer or one that was already applied, unless
   the steps were exhausted.  And it is compacted. *)
FixpointReached ==
  status = "ok" =>
    /\ request.compact[model] = model
    /\ ~Limited => \A p \in Passes : Exhausted(p)

(* The optimizer does not apply more patches than it is allowed to, all passes
   and rounds together. *)
StepsRespected == request.steps # NoLimit => counter <= request.steps

(* The optimizer ends when the patches without a watchdog make the graph
   simpler, whatever the ones with a watchdog do ("optimizer will ignore this
   patch in node to node loop if it was already encountered"). *)
Terminates == <>(status # "running")

=============================================================================
