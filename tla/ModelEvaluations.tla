-------------------------- MODULE ModelEvaluations --------------------------
(***************************************************************************)
(* Asynchronous evaluations through the model hierarchy: recast models     *)
(* ("clients") over simulation models, and simulation models over one      *)
(* shared interface.  One evaluation of a model is one or several raw      *)
(* evaluations of the interface when Dakota estimates derivatives          *)
(* (Model::estimate_derivatives); Model::synchronize merges them again.    *)
(* Every level keeps a map from the ids of the level below to its own ids, *)
(* and puts responses it does not know into a cache of the level below,    *)
(* because they may belong to another user of it.                          *)
(*                                                                         *)
(* Evaluations are data of one response function; the value of a raw       *)
(* evaluation, and of a finite difference step, is its identity: the       *)
(* model, its evaluation and the slot of the difference formula it is for. *)
(***************************************************************************)
EXTENDS Integers, FiniteSets, Sequences, IdQueue

CONSTANTS
  Models,         \* simulation models that share the interface
  Clients,        \* recast models
  ModelOf,        \* the model each client is built on
  MaxEvals,       \* bound: evaluations started by the clients
  MaxRaw,         \* bound: raw evaluations of the interface
  MaxArrivals,    \* bound: evaluations one synchronize_nowait() finds done
  Configurations  \* the responses specifications that are considered

ASSUME ModelOfAssumption == ModelOf \in [Clients -> Models]
ASSUME BoundsAssumption == 
  MaxEvals \in Nat /\ MaxRaw \in Nat /\ MaxArrivals \in Nat

(* A responses specification, the number of variables, the ones with equal *)
(* bounds, and the active sets the clients ask for.  asynch is             *)
(* asynchEvalFlag, overload derived_master_overload().                     *)
ASSUME ConfigurationsAssumption ==
  \A c \in Configurations :
    /\ c.gradientType \in {"analytic", "numerical"}
    /\ c.hessianType \in {"analytic", "numerical", "quasi"}
    /\ c.intervalType \in {"forward", "central"}
    /\ c.centralHess \in BOOLEAN /\ c.asynch \in BOOLEAN
    /\ c.overload \in BOOLEAN
    /\ c.vars \in Nat \ {0} /\ c.fixed \subseteq 1 .. c.vars
    /\ c.requests \subseteq (SUBSET {1, 2, 4}) \ {{}}

VARIABLES
  config,   \* the specification in use, chosen initially
  raw,      \* the raw evaluations by interface evaluation id
  pending,  \* ids the interface has not returned yet
  cached,   \* Interface::cachedResponseMap (the ids)
  model,    \* what each Model and SimulationModel keeps
  client,   \* what each RecastModel keeps
  answer,   \* the responses the last step returned, by client and client id
  left,     \* what the last synchronize() left its caller waiting for
  aborted

vars == <<config, raw, pending, cached, model, client, answer, left,
          aborted>>

------------------------------------------------------------------------------
(* std::map: erase, operator[] and insert, and the empty map.              *)
Without(f, S) == [x \in DOMAIN f \ S |-> f[x]]
With(f, k, v) == [x \in DOMAIN f \cup {k} |-> IF x = k THEN v ELSE f[x]]
Inserted(f, g) ==
  [x \in DOMAIN f \cup DOMAIN g |-> IF x \in DOMAIN f THEN f[x] ELSE g[x]]
None == <<>>

Tag(m, k, slot) == [model |-> m, eval |-> k, slot |-> slot]
Undefined == [model |-> "none", eval |-> 0, slot |-> <<"none", 0, 0>>]
X0 == <<"x0", 0, 0>>
Zero(j) == <<"zero", j, 0>>
Slots(kind, j, n) == [i \in 1 .. n |-> <<kind, j, i>>]

------------------------------------------------------------------------------
(* Model::manage_asv: how a request (1 values, 2 gradients, 4 Hessians) is *)
(* split into the initial map, gradient differences, Hessian differences   *)
(* (0 none, 1 of values, 2 of gradients) and quasi-Newton updates.  short  *)
(* says that some step had to be shortened to stay within the bounds.      *)
ManageAsv(c, request, short) ==
  LET numerical == c.gradientType = "numerical"
      grad == 2 \in request /\ numerical
      hess == IF 4 \in request /\ c.hessianType = "numerical"
                THEN IF numerical THEN 1 ELSE 2
                ELSE 0
      map == (request \cap {1})
             \cup (IF 2 \in request /\ ~numerical THEN {2} ELSE {})
             \cup (IF grad /\ (c.intervalType = "forward" \/ short)
                     THEN {1} ELSE {})
             \cup (IF 4 \in request /\ c.hessianType = "analytic"
                     THEN {4} ELSE {})
             \cup (IF hess = 0 THEN {} ELSE {hess})
      quasi == c.hessianType = "quasi" /\ request \cap {2, 4} # {}
  IN  [map |-> map, grad |-> grad, hess |-> hess, request |-> request,
       est |-> grad \/ hess # 0 \/ quasi,
       augmented |-> \E bit \in {1, 2} : bit \in map \ request]

(* The evaluations and the steps of the differences for one variable.      *)
GradCount(c) == IF c.intervalType = "central" THEN 2 ELSE 1
HessEvals(c, asv, j) ==
  CASE asv.hess = 0 -> 0
    [] asv.hess = 1 /\ c.centralHess -> 2 + 4 * (c.vars - j)
    [] asv.hess = 1 /\ ~c.centralHess -> 2 + (j - 1)
    [] asv.hess = 2 -> 1
HessDeltas(c, asv) ==
  CASE asv.hess = 0 -> 0
    [] asv.hess = 1 /\ ~c.centralHess -> 2
    [] OTHER -> 1

(* The loop body of estimate_derivatives for variable j: a gradient        *)
(* difference in a fixed variable is not evaluated and the rest of the     *)
(* body is skipped.                                                        *)
EvalsAt(c, asv, j) ==
  IF asv.grad /\ j \in c.fixed
    THEN <<>>
    ELSE Slots("g", j, IF asv.grad THEN GradCount(c) ELSE 0)
         \o Slots("h", j, HessEvals(c, asv, j))
DeltasAt(c, asv, j) ==
  IF asv.grad /\ j \in c.fixed
    THEN <<Zero(j)>>
    ELSE Slots("g", j, IF asv.grad THEN GradCount(c) ELSE 0)
         \o Slots("h", j, HessDeltas(c, asv))

Tagged(m, k, slots) == [i \in DOMAIN slots |-> Tag(m, k, slots[i])]

(* What the loop makes from variable j on.                                 *)
EvalsFrom(c, asv) ==
  LET from[j \in 1 .. c.vars + 1] ==
        IF j > c.vars THEN <<>> ELSE EvalsAt(c, asv, j) \o from[j + 1]
  IN  from
DeltasFrom(c, asv) ==
  LET from[j \in 1 .. c.vars + 1] ==
        IF j > c.vars THEN <<>> ELSE DeltasAt(c, asv, j) \o from[j + 1]
  IN  from

(* The raw evaluations one evaluation of a model is made of.               *)
Evaluations(c, asv, initial) ==
  (IF initial THEN <<X0>> ELSE <<>>) \o EvalsFrom(c, asv)[1]
Plain == <<<<"map", 0, 0>>>>

(* The lists l that carry an estimation to synchronize_derivatives,        *)
(* extended by evaluation k of model m, and the list of its active set.    *)
Listed(l, m, k, c, asv, initial, hit) ==
  [sets |-> l.sets,
   initialMaps |-> Append(l.initialMaps, initial),
   dbCaptures |-> Append(l.dbCaptures, hit),
   dbResponses |-> IF hit THEN Append(l.dbResponses, Tag(m, k, X0))
                          ELSE l.dbResponses,
   deltas |-> l.deltas \o Tagged(m, k, DeltasFrom(c, asv)[1])]

------------------------------------------------------------------------------
(* synchronize_derivatives: the walk over the variables that takes steps   *)
(* from the front of deltaList and responses in the order of their ids.    *)
(* used pairs what a formula wants with what it gets.                      *)
Rest(s, n) == SubSeq(s, n + 1, Len(s))
Paired(wanted, s) ==
  {<<wanted[i], IF i \in DOMAIN s THEN s[i] ELSE Undefined>> :
     i \in DOMAIN wanted}

MergeAt(c, asv, w, j) ==
  LET fixed == asv.grad /\ w.deltas # <<>> /\ Head(w.deltas).slot[1] = "zero"
      grads == Slots("g", j, IF asv.grad /\ ~fixed THEN GradCount(c) ELSE 0)
      steps == (IF fixed THEN <<Zero(j)>> ELSE grads)
               \o Slots("h", j, HessDeltas(c, asv))
      resps == grads \o Slots("h", j, HessEvals(c, asv, j))
  IN  [deltas |-> Rest(w.deltas, Len(steps)),
       resps |-> Rest(w.resps, Len(resps)),
       used |-> w.used \cup Paired(steps, w.deltas)
                       \cup Paired(resps, w.resps)]

MergeWalk(c, asv, start) ==
  LET walk[j \in 0 .. c.vars] ==
        IF j = 0 THEN start ELSE MergeAt(c, asv, walk[j - 1], j)
  IN  walk

(* What stands at x0: the first response, a record captured from the       *)
(* database, or nothing.                                                   *)
AtX0(l, resps) ==
  CASE Head(l.initialMaps) -> Paired(<<X0>>, resps)
    [] ~Head(l.initialMaps) /\ Head(l.dbCaptures) ->
         Paired(<<X0>>, l.dbResponses)
    [] OTHER -> {}

(* Mutant: the captured record stays in dbResponseList.                    *)
CapturesLeftAll(l) == l.dbResponses

CapturesLeft(l) ==
  IF ~Head(l.initialMaps) /\ Head(l.dbCaptures)
    THEN Tail(l.dbResponses) ELSE l.dbResponses

(* The response of an evaluation and the lists after it.                   *)
SynchronizeDerivatives(l, asv, resps) ==
  LET start == [deltas |-> l.deltas,
                resps |-> IF Head(l.initialMaps) THEN Rest(resps, 1) ELSE resps,
                used |-> AtX0(l, resps)]
      end == MergeWalk(config, asv, start)[config.vars]
  IN  [response |-> [asv |-> asv, used |-> end.used],
       lists |-> [sets |-> l.sets,
                  initialMaps |-> Tail(l.initialMaps),
                  dbCaptures |-> Tail(l.dbCaptures),
                  dbResponses |-> CapturesLeft(l),
                  deltas |-> end.deltas]]

------------------------------------------------------------------------------
NoLists ==
  [sets |-> <<>>, initialMaps |-> <<>>, dbCaptures |-> <<>>,
   dbResponses |-> <<>>, deltas |-> <<>>]
Idle ==
  [evals |-> 0, simEvals |-> 0, simIds |-> None, rawIds |-> None,
   numFD |-> None, lists |-> NoLists, est |-> FALSE, cache |-> None,
   asked |-> <<>>]

Init ==
  /\ config \in Configurations
  /\ raw = <<>> /\ pending = {} /\ cached = {}
  /\ model = [m \in Models |-> Idle]
  /\ client = [c \in Clients |->
                 [evals |-> 0, ids |-> None]]
  /\ answer = {} /\ left = {}
  /\ aborted = FALSE

(* SimulationModel::derived_evaluate_nowait, once for each slot.           *)
NewIds(slots) == Len(raw) + 1 .. Len(raw) + Len(slots)
Launched(s, slots) ==
  [s EXCEPT !.simEvals = @ + Len(slots),
            !.simIds = Inserted(@, [i \in NewIds(slots) |->
                                      s.simEvals + (i - Len(raw))])]

(* Model::derived_synchronize of a simulation model: the interface returns *)
(* the evaluations got and everything in its cache; rekey_response_map     *)
(* picks the ones in simIdMap and caches the others again.                 *)
Arrived(got) == got \cup cached
Matched(s, got) == Arrived(got) \cap DOMAIN s.simIds

(* Mutant: rekey_response_map drops what it does not match.                *)
UnmatchedDropped(s, got) == {}

Unmatched(s, got) == Arrived(got) \ DOMAIN s.simIds
SimResponses(s, log, got) ==
  [r \in {s.simIds[i] : i \in Matched(s, got)} |->
     log[CHOOSE i \in Matched(s, got) : s.simIds[i] = r]]
Collected(s, got) == [s EXCEPT !.simIds = Without(@, Matched(s, got))]

(* The first n responses of a map from id on.                              *)
Slice(resps, id, n) ==
  LET ids == InOrder({r \in DOMAIN resps : r >= id})
  IN  [i \in 1 .. MinOf(n, Len(ids)) |-> resps[ids[i]]]
Unmerged(tag) == [asv |-> [est |-> FALSE], used |-> {<<Plain[1], tag>>}]

(* Model::synchronize with estDerivsFlag: rawEvalIdMap and numFDEvalsMap   *)
(* are walked in step.  The response of the model that a pair of their     *)
(* entries gives, and the lists after it.                                  *)
MergedPair(id, num, resps, l) ==
  LET merge == SynchronizeDerivatives(l, Head(l.sets), Slice(resps, id, num))
  IN  IF num >= 0
        THEN [response |-> merge.response,
              lists |-> [merge.lists EXCEPT !.sets = Tail(@)]]
        ELSE [response |-> Unmerged(resps[id]), lists |-> l]
PairsWalk(s, ids, fds, resps) ==
  LET walk[n \in 0 .. MinOf(Len(ids), Len(fds))] ==
        IF n = 0
          THEN [response |-> None, lists |-> s.lists]
          ELSE IF ids[n] \in DOMAIN resps
            THEN MergedPair(ids[n], s.numFD[fds[n]], resps, walk[n - 1].lists)
            ELSE walk[n - 1]
  IN  walk
MergedInStep(s, resps) ==
  LET ids == InOrder(DOMAIN s.rawIds)
      fds == InOrder(DOMAIN s.numFD)
      steps == MinOf(Len(ids), Len(fds))
      done == {n \in 1 .. steps : ids[n] \in DOMAIN resps}
      walk == PairsWalk(s, ids, fds, resps)
  IN  [state |-> [s EXCEPT !.rawIds = Without(@, {ids[n] : n \in done}),
                           !.numFD = Without(@, {fds[n] : n \in done}),
                           !.lists = walk[steps].lists,
                           !.est = FALSE],
       resps |-> [k \in {fds[n] : n \in done} |->
                    walk[CHOOSE n \in done : fds[n] = k].response]]

(* Model::synchronize without it, and Model::synchronize_nowait.           *)
Rekeyed(s, resps) ==
  LET known == DOMAIN resps \cap DOMAIN s.rawIds
      done == {s.rawIds[r] : r \in known}
  IN  [state |-> [s EXCEPT !.rawIds = Without(@, known),
                           !.numFD = Without(@, done)],
       resps |-> [k \in done |->
                    Unmerged(resps[CHOOSE r \in known : s.rawIds[r] = k])]]

(* Model::synchronize and synchronize_nowait up to their return: the       *)
(* responses of the model by its own ids, the cached ones added.  The      *)
(* cache is then empty.                                                    *)
Synchronized(s, got) ==
  LET resps == SimResponses(s, raw, got)
      rekeyed == IF s.est THEN MergedInStep(Collected(s, got), resps)
                          ELSE Rekeyed(Collected(s, got), resps)
  IN  [state |-> [rekeyed.state EXCEPT !.cache = None],
       resps |-> Inserted(rekeyed.resps, s.cache)]

------------------------------------------------------------------------------
(* A client starts an evaluation: RecastModel::derived_evaluate_nowait and *)
(* Model::evaluate_nowait.  hit: the data an estimation adds to the        *)
(* request was found in the database.                                      *)
Asked(s, c, asv) ==
  [s EXCEPT !.evals = @ + 1,
            !.asked = Append(@, [client |-> c, eval |-> client[c].evals + 1,
                                 asv |-> IF asv.est THEN asv
                                                    ELSE [est |-> FALSE]])]
Initial(asv, hit) == asv.map # {} /\ ~hit
SlotsOf(asv, hit) ==
  IF asv.est THEN Evaluations(config, asv, Initial(asv, hit)) ELSE Plain

Bookkept(s, m, asv, hit) ==
  LET k == s.evals
      lists == Listed(s.lists, m, k, config, asv, Initial(asv, hit), hit)
  IN  IF asv.est
        THEN [s EXCEPT !.est = TRUE,
                       !.lists = [lists EXCEPT !.sets = Append(@, asv)],
                       !.rawIds = With(@, s.simEvals + 1, k),
                       !.numFD = With(@, k, Len(SlotsOf(asv, hit)))]
        ELSE [s EXCEPT !.rawIds = With(@, s.simEvals + 1, k),
                       !.numFD = With(@, k, -1)]

TotalEvals == Cardinality({e \in Models \X (1 .. MaxEvals) :
                             e[2] <= model[e[1]].evals})
Requested(request, short, hit) ==
  LET asv == ManageAsv(config, request, short)
  IN  /\ ~aborted /\ TotalEvals < MaxEvals
      /\ short => asv.grad
      /\ hit => asv.est /\ asv.augmented
      /\ Len(raw) + Len(SlotsOf(asv, hit)) <= MaxRaw

EvaluateNowait(c) ==
  \E request \in config.requests, short, hit \in BOOLEAN :
    LET m == ModelOf[c]
        asv == ManageAsv(config, request, short)
        slots == SlotsOf(asv, hit)
        s == Asked(model[m], c, asv)
    IN  /\ Requested(request, short, hit)
        /\ raw' = raw \o Tagged(m, s.evals, slots)
        /\ pending' = pending \cup NewIds(slots)
        /\ model' = [model EXCEPT
                       ![m] = Launched(Bookkept(s, m, asv, hit), slots)]
        /\ client' = [client EXCEPT
                        ![c].evals = @ + 1,
                        ![c].ids = With(@, s.evals, client[c].evals + 1)]
        /\ answer' = {} /\ left' = {}
        /\ UNCHANGED <<config, cached, aborted>>

(* RecastModel::derived_synchronize: the responses in recastIdMap are the  *)
(* client's, the others go to Model::cachedResponseMap.                    *)
Mine(c, resps) == DOMAIN resps \cap DOMAIN client[c].ids
Answer(c, resps) ==
  {[client |-> c, eval |-> client[c].ids[k], response |-> resps[k]] :
     k \in Mine(c, resps)}
Kept(c, resps) == Without(resps, DOMAIN client[c].ids)

Collect(c, got) ==
  LET m == ModelOf[c]
      sync == Synchronized(model[m], got)
  IN  /\ pending' = pending \ got
      /\ cached' = Unmatched(model[m], got)
      /\ model' = [model EXCEPT
                     ![m] = [sync.state EXCEPT !.cache = Kept(c, sync.resps)]]
      /\ client' = [client EXCEPT ![c].ids = Without(@, Mine(c, sync.resps))]
      /\ answer' = Answer(c, sync.resps)
      /\ UNCHANGED <<config, raw, aborted>>

(* Mutant: synchronize() does not wait for evaluations that still run.     *)
SynchronizeAvailable(c) ==
  /\ ~aborted
  /\ Collect(c, {})
  /\ left' = DOMAIN client'[c].ids

Synchronize(c) ==
  /\ ~aborted
  /\ Collect(c, pending)
  /\ left' = DOMAIN client'[c].ids

SynchronizeNowait(c) ==
  /\ ~aborted /\ ~model[ModelOf[c]].est
  /\ \E got \in SUBSET pending :
       /\ Cardinality(got) <= MaxArrivals
       /\ Collect(c, got)
  /\ left' = {}

(* Derivative estimation is not supported by synchronize_nowait.           *)
SynchronizeNowaitAborts(c) ==
  /\ ~aborted /\ model[ModelOf[c]].est
  /\ aborted' = TRUE
  /\ UNCHANGED <<config, raw, pending, cached, model, client, answer, left>>

(* Model::evaluate: estimation through asynchronous evaluations, a single  *)
(* evaluation that the dedicated master must not run itself, and           *)
(* synchronous evaluation.                                                 *)
Blocking(s, m, asv, hit, slots) ==
  LET log == raw \o Tagged(m, s.evals, slots)
      launched == Launched(s, slots)
      lists == Listed(s.lists, m, s.evals, config, asv, Initial(asv, hit), hit)
      got == pending \cup NewIds(slots)
      resps == SimResponses(launched, log, got)
      merge == SynchronizeDerivatives(lists, asv, Slice(resps, 0, Len(log)))
      state == Collected(launched, got)
  IN  IF asv.est
        THEN [state |-> [state EXCEPT !.lists = merge.lists], got |-> got,
              response |-> merge.response]
        ELSE [state |-> state, got |-> got,
              response |-> Unmerged(resps[Nth(DOMAIN resps, 0)])]

(* Nothing is collected: derived_evaluate runs each evaluation in place.   *)
InPlace(s, m, asv, hit, slots) ==
  LET used == {<<slots[i], Tag(m, s.evals, slots[i])>> : i \in DOMAIN slots}
  IN  [state |-> [s EXCEPT !.simEvals = @ + Len(slots)], got |-> {},
       response |->
         IF asv.est
           THEN [asv |-> asv,
                 used |-> IF hit THEN used \cup {<<X0, Tag(m, s.evals, X0)>>}
                                 ELSE used]
           ELSE [asv |-> [est |-> FALSE], used |-> used]]

ThroughQueue(asv) == IF asv.est THEN config.asynch ELSE config.overload

Evaluate(c) ==
  \E request \in config.requests, short, hit \in BOOLEAN :
    LET m == ModelOf[c]
        asv == ManageAsv(config, request, short)
        slots == SlotsOf(asv, hit)
        s == Asked(model[m], c, asv)
        result == IF ThroughQueue(asv) THEN Blocking(s, m, asv, hit, slots)
                                       ELSE InPlace(s, m, asv, hit, slots)
    IN  /\ Requested(request, short, hit)
        /\ model[m].rawIds = None
        /\ raw' = raw \o Tagged(m, s.evals, slots)
        /\ pending' = pending \ result.got
        /\ cached' = IF ThroughQueue(asv)
                       THEN Unmatched(model[m], pending) ELSE cached
        /\ model' = [model EXCEPT ![m] = result.state]
        /\ client' = [client EXCEPT ![c].evals = @ + 1]
        /\ answer' = {[client |-> c, eval |-> client[c].evals + 1,
                       response |-> result.response]}
        /\ left' = {}
        /\ UNCHANGED <<config, aborted>>

Next ==
  \E c \in Clients :
    \/ EvaluateNowait(c)
    \/ Synchronize(c)
    \/ SynchronizeNowait(c)
    \/ SynchronizeNowaitAborts(c)
    \/ Evaluate(c)

Spec == Init /\ [][Next]_vars

------------------------------------------------------------------------------
(* A response a client receives under one of its ids was put together from *)
(* the raw evaluations, steps and database records of that very            *)
(* evaluation, each in the place of the difference formula it was made     *)
(* for, through three levels of id maps, shared caches and first-in        *)
(* first-out lists (Model::synchronize, synchronize_derivatives).          *)
Own(m, k, response) ==
  /\ response.asv = model[m].asked[k].asv
  /\ \A pair \in response.used : pair[2] = Tag(m, k, pair[1])
OwnResponse ==
  \A a \in answer :
    LET m == ModelOf[a.client]
    IN  \E k \in 1 .. model[m].evals :
          /\ model[m].asked[k].client = a.client
          /\ model[m].asked[k].eval = a.eval
          /\ Own(m, k, a.response)

(* synchronize() collects the complete set of results: when it returns,    *)
(* its caller waits for nothing, whoever collected the responses first.    *)
CompleteSet == left = {}

(* No response is lost between the levels: while a client waits for an     *)
(* evaluation, its response is in the model's cache, or the model still    *)
(* has the evaluation in its maps and the interface each of its raw        *)
(* evaluations, pending or cached for it.                                  *)
Held(m, k) ==
  \/ k \in DOMAIN model[m].cache
  \/ /\ k \in DOMAIN model[m].numFD
     /\ k \in {model[m].rawIds[r] : r \in DOMAIN model[m].rawIds}
     /\ \A i \in DOMAIN raw :
          raw[i].model = m /\ raw[i].eval = k
            => i \in (pending \cup cached) \cap DOMAIN model[m].simIds
NothingLost ==
  \A c \in Clients : \A k \in DOMAIN client[c].ids : Held(ModelOf[c], k)

(* What the theorems ask of the responses specifications.  Every           *)
(* estimation that a client can ask for makes a raw evaluation; gradients  *)
(* and Hessians are not both differenced while a variable is fixed.        *)
Evaluates(c) ==
  \A request \in c.requests : \A short, hit \in BOOLEAN :
    LET asv == ManageAsv(c, request, short)
    IN  asv.est /\ (short => asv.grad) /\ (hit => asv.augmented)
          => Evaluations(c, asv, Initial(asv, hit)) # <<>>
Separate(c, asv) == asv.grad /\ asv.hess # 0 => c.fixed = {}
Separates(c) ==
  \A request \in c.requests : \A short \in BOOLEAN :
    Separate(c, ManageAsv(c, request, short))
EstimatesEvaluate == \A c \in Configurations : Evaluates(c)
FixedSeparate == \A c \in Configurations : Separates(c)
=============================================================================
