------------------------------- MODULE Container -------------------------------
(***************************************************************************)
(* The dependency container (backend/src/Container.ts): one resolve at a   *)
(* time, as Backend.start asks for them, one action per await.             *)
(***************************************************************************)
EXTENDS Naturals, Sequences, SequencesExt

CONSTANTS
  Dependencies,   \* the registry: [bound name -> Seq of names]
  Singleton,      \* the names bound as singletons
  MayThrow,       \* names whose factory may fail
  None            \* no name

ASSUME RegistryAssumption ==
  /\ \A n \in DOMAIN Dependencies : Dependencies[n] \in Seq(STRING)
  /\ Singleton \subseteq DOMAIN Dependencies /\ None \notin DOMAIN Dependencies

(* No name a service may depend on stands for none. *)
ASSUME NamesAssumption ==
  \A n \in DOMAIN Dependencies : \A d \in 1..Len(Dependencies[n]) : Dependencies[n][d] # None

VARIABLES
  calling,    \* the name internalResolve is called with, or None
  frames,     \* Seq of [name, next]: the instantiates under way, next dependency of each
  cache,      \* the names with an instance in the cache
  created,    \* Seq of names: the instances in the order the factories returned them
  thrown      \* whether the last resolve rejected

containerVars == <<calling, frames, cache, created, thrown>>

ContainerInit ==
  /\ calling = None /\ frames = <<>> /\ cache = {} /\ created = <<>> /\ thrown = FALSE

Resolving == calling # None \/ frames # <<>>

Resolve(n) ==
  /\ ~ Resolving
  /\ calling' = n /\ thrown' = FALSE
  /\ UNCHANGED <<frames, cache, created>>

Reject ==
  /\ thrown' = TRUE /\ calling' = None /\ frames' = <<>>
  /\ UNCHANGED <<cache, created>>

(* visited are the names of the frames; only its ends are looked at. *)
Cyclic(n) == frames # <<>> /\ n \in {Head(frames).name, Last(frames).name}

Cached(n) == n \in Singleton /\ n \in cache

InternalResolve ==
  /\ calling # None
  /\ IF Cyclic(calling) \/ calling \notin DOMAIN Dependencies THEN Reject
     ELSE /\ calling' = None
          /\ frames' = IF Cached(calling) THEN frames
                       ELSE Append(frames, [name |-> calling, next |-> 1])
          /\ UNCHANGED <<cache, created, thrown>>

Waiting == calling = None /\ frames # <<>>
Top == Last(frames)

CallDependency ==
  /\ Waiting /\ Top.next <= Len(Dependencies[Top.name])
  /\ calling' = Dependencies[Top.name][Top.next]
  /\ frames' = Append(Front(frames), [Top EXCEPT !.next = @ + 1])
  /\ UNCHANGED <<cache, created, thrown>>

NotCached(n) == cache' = cache      \* a mutant: the instance is not kept
Store(n) == cache' = IF n \in Singleton THEN cache \cup {n} ELSE cache

Factory ==
  /\ Waiting /\ Top.next > Len(Dependencies[Top.name])
  /\ created' = Append(created, Top.name)
  /\ Store(Top.name)
  /\ frames' = Front(frames)
  /\ UNCHANGED <<calling, thrown>>

FactoryThrows ==
  /\ Waiting /\ Top.next > Len(Dependencies[Top.name]) /\ Top.name \in MayThrow
  /\ Reject

ContainerStep ==
  InternalResolve \/ CallDependency \/ Factory \/ FactoryThrows

--------------------------------------------------------------------------------
(* There is one instance of each singleton, and what a factory is given    *)
(* was made before: a service never runs on a second PGClient or cache.    *)
BuiltOnceInOrder ==
  \A i \in DOMAIN created :
    LET before == {created[j] : j \in 1..(i - 1)}
    IN  /\ created[i] \in Singleton => created[i] \notin before
        /\ Range(Dependencies[created[i]]) \subseteq before
================================================================================
