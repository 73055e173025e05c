---------------------------- MODULE RequestContext ----------------------------
(***************************************************************************)
(* One request on its way to its handler: AuditActorMiddleware opens the   *)
(* context store, the guards of the application let the request pass, and  *)
(* AuditInterceptor writes what the route's decorators say into the store  *)
(* and, in interceptor stage, waits for the actor.                         *)
(***************************************************************************)
EXTENDS Naturals

CONSTANTS
  None,       \* no actor, no store
  Principal,  \* the actor behind the request's credentials
  Other,      \* any other actor
  Setups      \* the configurations under study

(* stage: actorExtractionStage; excluded: a route of excludeRoutes; http:  *)
(* context.getType() is 'http'; bindings: how often AuditInterceptor is    *)
(* bound to the route; noAudit: the route is decorated with @NoAudit().    *)
(* The other fields are the options of the Prisma extension.               *)
Setup ==
  [stage : {"middleware", "interceptor"}, excluded : BOOLEAN, http : BOOLEAN,
   bindings : 0..2, noAudit : BOOLEAN,
   consistency : {"atomic-required", "best-effort"}, actorRequired : BOOLEAN,
   logFailures : BOOLEAN, overflow : {"reject", "summary"}]

ASSUME ActorAssumption == None \notin {Principal, Other} /\ Principal # Other
ASSUME SetupAssumption == Setups \subseteq Setup

VARIABLES
  setup,       \* the configuration, which never changes
  phase,       \* how far the request has come
  store,       \* its AuditContextStore, None before the middleware
  extraction,  \* the call of actorExtractor for this store
  entered      \* how many of the interceptor's bindings have run

contextVars == <<setup, phase, store, extraction, entered>>

Actors == {Principal, Other}
Store  == [actor : Actors \cup {None}, noAudit : BOOLEAN]
Fresh  == [actor |-> None, noAudit |-> FALSE]

ASSUME StoreAssumption == None \notin Store

ContextInit ==
  /\ setup \in Setups
  /\ phase = "arrived"
  /\ store = None
  /\ extraction = "none"
  /\ entered = 0

(* AuditActorMiddleware.use up to its await.  In interceptor stage it only *)
(* registers the extraction; an excluded route never gets a store.         *)
Use ==
  /\ phase = "arrived"
  /\ store' = IF setup.excluded THEN None ELSE Fresh
  /\ IF setup.stage = "middleware" /\ ~setup.excluded
       THEN phase' = "extracting" /\ extraction' = "running"
       ELSE phase' = "guards" /\ UNCHANGED extraction
  /\ UNCHANGED <<setup, entered>>

(* actorExtractor answers; the actor is null for an anonymous request, and *)
(* stays null when the extractor throws, which is reported.                *)
ActorExtracted ==
  /\ extraction = "running"
  /\ extraction' = "settled"
  /\ \E a \in {Principal, None} : store' = [store EXCEPT !.actor = a]
  /\ phase' = IF phase = "extracting" THEN "guards" ELSE phase
  /\ UNCHANGED <<setup, entered>>

GuardsPass ==
  /\ phase = "guards"
  /\ phase' = "interceptors"
  /\ UNCHANGED <<setup, store, extraction, entered>>

GuardsReject ==
  /\ phase = "guards"
  /\ phase' = "rejected"
  /\ UNCHANGED <<setup, store, extraction, entered>>

Deferred == setup.stage = "interceptor" /\ setup.http /\ store # None

(* AuditInterceptor.intercept, once per binding; the extraction is started *)
(* by the first and shared by the others.                                  *)
Intercept ==
  /\ phase = "interceptors" /\ entered < setup.bindings
  /\ entered' = entered + 1
  /\ store' = IF store = None THEN store ELSE [store EXCEPT !.noAudit = setup.noAudit]
  /\ extraction' = IF Deferred /\ extraction = "none" THEN "running" ELSE extraction
  /\ phase' = IF Deferred THEN "resolving" ELSE phase
  /\ UNCHANGED setup

(* from(actorReady).pipe(mergeMap(() => next.handle()))                    *)
ActorReady ==
  /\ phase = "resolving" /\ extraction = "settled"
  /\ phase' = "interceptors"
  /\ UNCHANGED <<setup, store, extraction, entered>>

Handle ==
  /\ phase = "interceptors" /\ entered = setup.bindings
  /\ phase' = "handler"
  /\ UNCHANGED <<setup, store, extraction, entered>>

ContextNext ==
  \/ Use \/ ActorExtracted \/ GuardsPass \/ GuardsReject
  \/ Intercept \/ ActorReady \/ Handle
-----------------------------------------------------------------------------
ContextTypeOK ==
  /\ setup \in Setups
  /\ phase \in {"arrived", "extracting", "guards", "rejected", "interceptors",
                "resolving", "handler"}
  /\ store \in Store \cup {None}
  /\ extraction \in {"none", "running", "settled"}
  /\ entered \in 0..2

(* The routes whose handler has its actor, by the README: extraction in    *)
(* the middleware, or behind the guards by an interceptor that is bound.   *)
ActorBound ==
  ~setup.excluded /\ (setup.stage = "middleware" \/ (setup.http /\ setup.bindings > 0))
=============================================================================
