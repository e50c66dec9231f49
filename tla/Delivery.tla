------------------------------ MODULE Delivery ------------------------------
(***************************************************************************)
(* core/core_engine.cpp, the application's side: parameter operations and  *)
(* their request ids, and the two rings whose deliveries drain_callbacks() *)
(* makes.  A callback may call the engine again, so the drain is one       *)
(* action per loop iteration and anything may happen between two of them;  *)
(* a nested drain_callbacks() returns at once and is not an action.        *)
(*                                                                         *)
(* A lifecycle event is only counted here (module Discovery has their      *)
(* contents).  The pass that will take operations off the parameter ring   *)
(* and report their results is not in the repository yet: it is the        *)
(* environment, and reports one result for each Get it takes.              *)
(*                                                                         *)
(* Init, Next and Spec carry the module's name: CoreEngineProofs extends   *)
(* this module together with Superframe, the engine's other side.          *)
(***************************************************************************)
EXTENDS Integers, Sequences, FiniteSets

CONSTANTS
    IdPool,         \* number of request ids, LIMIT_max_nodes
    ParamRing,      \* capacity of param_queue_, LIMIT_max_nodes
    ResultRing,     \* capacity of pending_param_results_, LIMIT_max_nodes
    LifecycleRing,  \* capacity of pending_lifecycle_, LIMIT_max_nodes
    MaxDeliveries   \* bound: the largest max_deliveries an application passes

ASSUME RingAssumption ==
    /\ {IdPool, ParamRing, ResultRing, LifecycleRing, MaxDeliveries} \subseteq Nat \ {0}
    /\ IdPool <= ResultRing

VARIABLES
    used,         \* request_id_used_
    params,       \* param_queue_: request ids, or SetOp for a Set
    results,      \* pending_param_results_, ids only
    life,         \* size of pending_lifecycle_
    dropped,      \* has enqueue_param_result ever been refused?
    nextIsParam,  \* next_is_param_
    drain,        \* the drain in progress
    serving,      \* environment: Gets taken off the ring and not yet answered
    owed          \* the application: ids of Gets it still expects a result for

deliveryVars == <<used, params, results, life, dropped, nextIsParam, drain, serving, owed>>

ReqId == 1..IdPool
SetOp == 0
Idle == [on |-> FALSE, remaining |-> 0, life |-> 0, param |-> 0]

DeliveryInit ==
    /\ used = {} /\ params = <<>> /\ results = <<>> /\ life = 0
    /\ dropped = FALSE /\ nextIsParam = FALSE /\ drain = Idle
    /\ serving = {} /\ owed = {}

\* A Set carries no id.  (A refused operation changes nothing.)
SetParamUnchecked ==                                                     \* mutant
    /\ params' = Append(params, SetOp)
    /\ UNCHANGED <<used, results, life, dropped, nextIsParam, drain, serving, owed>>
SetParam ==
    /\ Len(params) < ParamRing
    /\ params' = Append(params, SetOp)
    /\ UNCHANGED <<used, results, life, dropped, nextIsParam, drain, serving, owed>>

\* get_param: the ring is tested before an id is claimed; out_id is the lowest free.
GetParamClaimsFirst ==                                                   \* mutant
    \E id \in ReqId \ used :
        /\ \A x \in ReqId \ used : id <= x
        /\ used' = used \cup {id}
        /\ IF Len(params) < ParamRing
           THEN params' = Append(params, id) /\ owed' = owed \cup {id}
           ELSE UNCHANGED <<params, owed>>
        /\ UNCHANGED <<results, life, dropped, nextIsParam, drain, serving>>
GetParam ==
    \E id \in ReqId \ used :
        /\ Len(params) < ParamRing
        /\ \A x \in ReqId \ used : id <= x
        /\ used' = used \cup {id}
        /\ params' = Append(params, id)
        /\ owed' = owed \cup {id}
        /\ UNCHANGED <<results, life, dropped, nextIsParam, drain, serving>>

\* Environment: the demand pass takes the oldest operation, and answers a Get.
TakeParam ==
    /\ params # <<>>
    /\ params' = Tail(params)
    /\ serving' = IF Head(params) = SetOp THEN serving ELSE serving \cup {Head(params)}
    /\ UNCHANGED <<used, results, life, dropped, nextIsParam, drain, owed>>

\* enqueue_param_result: a full ring drops the newest, and with it the id.
ResultHasRoom == Len(results) < ResultRing
EnqueueParamResult(id) ==
    /\ id \in serving
    /\ serving' = serving \ {id}
    /\ IF ResultHasRoom
       THEN results' = Append(results, id) /\ UNCHANGED dropped
       ELSE dropped' = TRUE /\ UNCHANGED results
    /\ UNCHANGED <<used, params, life, nextIsParam, drain, owed>>

\* enqueue_lifecycle
EnqueueLifecycle ==
    /\ life < LifecycleRing
    /\ life' = life + 1
    /\ UNCHANGED <<used, params, results, dropped, nextIsParam, drain, serving, owed>>

-----------------------------------------------------------------------------
\* drain_callbacks: one budget over both rings, each bounded by what was pending at
\* entry; the rings are served in turn, across calls.
BeginDrain(max) ==
    /\ ~drain.on
    /\ drain' = [on |-> TRUE, remaining |-> max, life |-> life, param |-> Len(results)]
    /\ UNCHANGED <<used, params, results, life, dropped, nextIsParam, serving, owed>>

More == drain.on /\ drain.remaining > 0 /\ (drain.life > 0 \/ drain.param > 0)
TakeParamNextLifecycleFirst == drain.param > 0 /\ drain.life = 0         \* mutant
TakeParamNext == drain.param > 0 /\ (nextIsParam \/ drain.life = 0)

\* The id is free again before the callback runs.
DeliverParam ==
    /\ More /\ TakeParamNext
    /\ results' = Tail(results)
    /\ used' = used \ {Head(results)}
    /\ owed' = owed \ {Head(results)}
    /\ nextIsParam' = FALSE
    /\ drain' = [drain EXCEPT !.remaining = @ - 1, !.param = @ - 1]
    /\ UNCHANGED <<params, life, dropped, serving>>

DeliverLifecycleForgets ==                                               \* mutant
    /\ More /\ ~TakeParamNext
    /\ life' = life - 1
    /\ nextIsParam' = TRUE
    /\ drain' = [drain EXCEPT !.remaining = @ - 1]
    /\ UNCHANGED <<used, params, results, dropped, serving, owed>>
DeliverLifecycle ==
    /\ More /\ ~TakeParamNext
    /\ life' = life - 1
    /\ nextIsParam' = TRUE
    /\ drain' = [drain EXCEPT !.remaining = @ - 1, !.life = @ - 1]
    /\ UNCHANGED <<used, params, results, dropped, serving, owed>>

EndDrain ==
    /\ drain.on /\ ~More
    /\ drain' = Idle
    /\ UNCHANGED <<used, params, results, life, dropped, nextIsParam, serving, owed>>

DrainStep == DeliverParam \/ DeliverLifecycle \/ EndDrain

DeliveryNext ==
    \/ SetParam \/ GetParam \/ TakeParam
    \/ \E id \in ReqId : EnqueueParamResult(id)
    \/ EnqueueLifecycle
    \/ \E max \in 1..MaxDeliveries : BeginDrain(max)
    \/ DrainStep

DeliverySpec == DeliveryInit /\ [][DeliveryNext]_deliveryVars

\* The application keeps draining, at whatever bound, and every loop runs to its
\* end; the demand pass keeps serving.  Nobody has to issue anything.
FairDelivery ==
    /\ DeliverySpec
    /\ WF_deliveryVars(\E max \in 1..MaxDeliveries : BeginDrain(max))
    /\ WF_deliveryVars(DrainStep)
    /\ WF_deliveryVars(TakeParam)
    /\ \A id \in ReqId : WF_deliveryVars(EnqueueParamResult(id))

-----------------------------------------------------------------------------
DeliveryTypeOK ==
    /\ used \subseteq ReqId /\ serving \subseteq ReqId /\ owed \subseteq ReqId
    /\ params \in Seq(ReqId \cup {SetOp}) /\ Len(params) <= ParamRing
    /\ results \in Seq(ReqId) /\ Len(results) <= ResultRing
    /\ life \in 0..LifecycleRing
    /\ {dropped, nextIsParam} \subseteq BOOLEAN
    /\ drain \in [on : BOOLEAN, remaining : 0..MaxDeliveries, life : 0..LifecycleRing,
                  param : 0..ResultRing]

\* R-10: an id is in use exactly while its Get is queued, being served or waiting
\* for delivery, in one of these places only, once; and these are the ids the
\* application is waiting for.  No refusal, drop or re-entrant call leaks an id or
\* hands out one that is still outstanding.  In particular enqueue_param_result never
\* meets a full ring: a result, whose delivery alone frees its id, is never dropped.
Queued == {id \in ReqId : \E n \in DOMAIN params : params[n] = id}
Pending == {id \in ReqId : \E n \in DOMAIN results : results[n] = id}
IdsAccounted ==
    /\ used = Queued \cup serving \cup Pending /\ owed = used
    /\ Queued \cap serving = {} /\ Queued \cap Pending = {} /\ serving \cap Pending = {}
    /\ Cardinality(Pending) = Len(results)
    /\ \A m, n \in DOMAIN params : params[m] = params[n] /\ params[m] # SetOp => m = n
    /\ ~dropped /\ (serving # {} => Len(results) < ResultRing)

\* What the two "unreachable" breaks of the drain loop rest on: whatever callbacks
\* do, a ring never holds less than the drain still means to take from it.
DrainWithinRings == drain.life <= life /\ drain.param <= Len(results)

\* The id pool cannot wedge: every accepted Get is delivered, however small the
\* bound of each drain and however many lifecycle events compete with it.
EveryGetDelivered == \A id \in ReqId : id \in used ~> id \notin used
=============================================================================
