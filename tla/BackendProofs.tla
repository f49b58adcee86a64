------------------------------ MODULE BackendProofs ------------------------------
(***************************************************************************)
(* What the backend keeps to, for every registry, script of the chain and  *)
(* list of ranges, whatever is ingested, materialized, failed and run      *)
(* again when: each singleton is built once; the queries of the stats      *)
(* agree with each other and with the tables, and divide by nothing that   *)
(* is zero; and the database it starts on is the migrated one.             *)
(***************************************************************************)
EXTENDS Backend, FoldFacts

(* The container builds one instance of each singleton, and what an        *)
(* instance depends on before it, whatever the registry: also one with     *)
(* cycles that the check of the visited path does not see.                 *)
Bound == DOMAIN Dependencies
Frame == [name : Bound, next : Nat \ {0}]

(* F are frames, C the names created so far, c what is called. *)
Made(C, n) == \E i \in 1..Len(C) : C[i] = n

(* The first k - 1 dependencies of a frame are made. *)
MadeBelow(C, f, k) ==
  \A d \in 1..Len(Dependencies[f.name]) : d < k => Made(C, Dependencies[f.name][d])

TypesAgree(F, C, instances) ==
  /\ F \in Seq(Frame) /\ C \in Seq(Bound)
  /\ \A n \in Bound : n \in instances <=> n \in Singleton /\ Made(C, n)

(* The frames are a path in the registry: each waits for the next one, and *)
(* the last one for what is called, if anything.                           *)
WaitsFor(C, f, n) ==
  /\ f.next - 1 \in 1..Len(Dependencies[f.name])
  /\ Dependencies[f.name][f.next - 1] = n
  /\ MadeBelow(C, f, f.next - 1)

LastWaits(F, C, c) ==
  F # <<>> => IF c = None THEN MadeBelow(C, F[Len(F)], F[Len(F)].next)
              ELSE WaitsFor(C, F[Len(F)], c)

IsPath(F, C) ==
  \A i \in 1..Len(F) : i + 1 \in 1..Len(F) => WaitsFor(C, F[i], F[i + 1].name)

(* A singleton that is being made has not been made, and what has been     *)
(* made before, and is made again, waits for what has been made before.    *)
Fresh(F, C) == \A i \in 1..Len(F) : F[i].name \in Singleton => ~ Made(C, F[i].name)
Again(F, C) ==
  \A i, j \in 1..Len(F) : i < j /\ Made(C, F[i].name) => Made(C, F[j].name)

Built(C) ==
  \A i \in DOMAIN C :
    /\ C[i] \in Singleton => \A j \in DOMAIN C : C[j] = C[i] => i = j
    /\ \A k \in DOMAIN Dependencies[C[i]] : \E j \in 1..(i - 1) : C[j] = Dependencies[C[i]][k]

Consistent(F, C, c, instances) ==
  /\ TypesAgree(F, C, instances)
  /\ IsPath(F, C) /\ LastWaits(F, C, c)
  /\ Fresh(F, C) /\ Again(F, C)
  /\ Built(C)

ContainerInv == Consistent(frames, created, calling, cache)

--------------------------------------------------------------------------------
(* What has been made has its dependencies made. *)
LEMMA MadeIsClosed ==
  ASSUME NEW C \in Seq(Bound), Built(C), NEW n \in Bound, Made(C, n),
         NEW d \in 1..Len(Dependencies[n])
  PROVE  Made(C, Dependencies[n][d])
<1>1. PICK i \in 1..Len(C) : C[i] = n
  BY DEF Made
<1>2. Dependencies[n] \in Seq(STRING) /\ d \in DOMAIN Dependencies[n]
  BY RegistryAssumption, LenProperties DEF Bound
<1>3. i \in DOMAIN C /\ Len(C) \in Nat
  BY <1>1, LenProperties
<1>4. PICK j \in 1..(i - 1) : C[j] = Dependencies[n][d]
  BY <1>1, <1>2, <1>3 DEF Built
<1>5. j \in 1..Len(C)
  BY <1>3, <1>4
<1>6. QED
  BY <1>4, <1>5 DEF Made

LEMMA FrontOf ==
  ASSUME NEW F \in Seq(Frame), F # <<>>
  PROVE  LET G == SubSeq(F, 1, Len(F) - 1)
         IN  /\ G \in Seq(Frame) /\ Len(G) = Len(F) - 1
             /\ \A i \in 1..(Len(F) - 1) : G[i] = F[i]
<1>1. Len(F) \in Nat /\ Len(F) > 0
  BY LenProperties
<1>2. \A i \in 1..(Len(F) - 1) : F[i] \in Frame
  BY <1>1, ElementOfSeq
<1> DEFINE k == Len(F) - 1
<1>3. k \in Int /\ 1 \in Int /\ k >= 0
  BY <1>1
<1> HIDE DEF k
<1>4. /\ SubSeq(F, 1, k) \in Seq(Frame)
      /\ Len(SubSeq(F, 1, k)) = IF 1 <= k THEN k - 1 + 1 ELSE 0
      /\ \A i \in 1..(k - 1 + 1) : SubSeq(F, 1, k)[i] = F[1 + i - 1]
  <2>1. \A i \in 1..k : F[i] \in Frame
    BY <1>2 DEF k
  <2>2. QED
    BY <2>1, <1>3, SubSeqProperties
<1>5. Len(SubSeq(F, 1, k)) = k /\ \A i \in 1..k : SubSeq(F, 1, k)[i] = F[i]
  BY <1>3, <1>4
<1>6. QED
  BY <1>4, <1>5 DEF k

LEMMA NothingUnderWay ==
  ASSUME ContainerInv, frames' = <<>>, UNCHANGED <<cache, created>>
  PROVE  ContainerInv'
<1>1. frames' \in Seq(Frame) /\ Len(frames') = 0
  BY EmptySeq
<1>2. TypesAgree(frames', created', cache') /\ Built(created')
  BY <1>1 DEF ContainerInv, Consistent, TypesAgree
<1>3. /\ IsPath(frames', created') /\ LastWaits(frames', created', calling')
      /\ Fresh(frames', created') /\ Again(frames', created')
  BY <1>1 DEF IsPath, LastWaits, Fresh, Again
<1>4. QED
  BY <1>2, <1>3 DEF ContainerInv, Consistent

(* A name is put on top of what waits for it. *)
LEMMA PushKeeps ==
  ASSUME NEW F \in Seq(Frame), NEW C \in Seq(Bound), NEW c \in Bound, c # None,
         IsPath(F, C), LastWaits(F, C, c), Fresh(F, C), Again(F, C), Built(C),
         c \in Singleton => ~ Made(C, c),
         NEW G, G = Append(F, [name |-> c, next |-> 1])
  PROVE  /\ G \in Seq(Frame) /\ IsPath(G, C) /\ LastWaits(G, C, None)
         /\ Fresh(G, C) /\ Again(G, C)
<1> DEFINE new == [name |-> c, next |-> 1]
           n == Len(F)
<1>1. new \in Frame /\ new.name = c /\ new.next = 1 /\ G = Append(F, new)
  BY DEF Frame
<1> HIDE DEF new
<1>2. /\ G \in Seq(Frame) /\ n \in Nat /\ Len(G) = n + 1
      /\ \A i \in 1..n : G[i] = F[i]
      /\ G[n + 1] = new
  BY <1>1, AppendProperties, LenProperties
<1>3. n > 0 => WaitsFor(C, F[n], c) /\ F[n] \in Frame
  BY LenProperties, ElementOfSeq DEF LastWaits
<1>4. IsPath(G, C)
  <2> SUFFICES ASSUME NEW i \in 1..Len(G), i + 1 \in 1..Len(G)
               PROVE  WaitsFor(C, G[i], G[i + 1].name)
    BY DEF IsPath
  <2>1. CASE i = n
    BY <2>1, <1>1, <1>2, <1>3
  <2>2. CASE i # n
    <3>1. i \in 1..n /\ i + 1 \in 1..n /\ G[i] = F[i] /\ G[i + 1] = F[i + 1]
      BY <2>2, <1>2
    <3>2. QED
      BY <3>1 DEF IsPath
  <2>3. QED
    BY <2>1, <2>2
<1>5. LastWaits(G, C, None)
  <2>1. \A d \in 1..Len(Dependencies[new.name]) : ~ d < new.next
    BY <1>1
  <2>2. QED
    BY <2>1, <1>2 DEF LastWaits, MadeBelow
<1>6. Fresh(G, C)
  <2> SUFFICES ASSUME NEW i \in 1..Len(G), G[i].name \in Singleton
               PROVE  ~ Made(C, G[i].name)
    BY DEF Fresh
  <2>1. CASE i = n + 1
    BY <2>1, <1>1, <1>2
  <2>2. CASE i \in 1..n
    BY <2>2, <1>2 DEF Fresh
  <2>3. QED
    BY <2>1, <2>2, <1>2
<1>7. ASSUME NEW i \in 1..n, Made(C, F[i].name) PROVE Made(C, c)
  <2>1. n \in 1..n /\ n > 0 /\ (i < n \/ i = n)
    BY <1>2
  <2>2. Made(C, F[n].name)
    <3>1. CASE i < n
      BY <3>1, <1>7, <2>1 DEF Again
    <3>2. QED
      BY <3>1, <1>7, <2>1
  <2>3. F[n].name \in Bound
    BY <1>3, <2>1 DEF Frame
  <2>4. QED
    BY <2>1, <2>2, <2>3, <1>3, MadeIsClosed DEF WaitsFor
<1>8. Again(G, C)
  <2> SUFFICES ASSUME NEW i \in 1..Len(G), NEW j \in 1..Len(G), i < j, Made(C, G[i].name)
               PROVE  Made(C, G[j].name)
    BY DEF Again
  <2>1. i \in 1..n /\ G[i] = F[i]
    BY <1>2
  <2>2. CASE j = n + 1
    BY <2>1, <2>2, <1>1, <1>2, <1>7
  <2>3. CASE j \in 1..n
    BY <2>1, <2>3, <1>2 DEF Again
  <2>4. QED
    BY <2>2, <2>3, <1>2
<1>9. QED
  BY <1>2, <1>4, <1>5, <1>6, <1>8

LEMMA InternalResolveKeeps == ContainerInv /\ InternalResolve => ContainerInv'
<1> SUFFICES ASSUME ContainerInv, InternalResolve PROVE ContainerInv'
  OBVIOUS
<1>1. CASE Reject
  BY <1>1, NothingUnderWay DEF Reject
<1>2. CASE ~ Reject
  <2>1. /\ calling \in Bound /\ calling # None /\ calling' = None
        /\ frames' = IF Cached(calling) THEN frames
                     ELSE Append(frames, [name |-> calling, next |-> 1])
        /\ UNCHANGED <<cache, created>>
    BY <1>2 DEF InternalResolve, Bound
  <2>2. /\ TypesAgree(frames, created, cache) /\ Built(created)
        /\ IsPath(frames, created) /\ LastWaits(frames, created, calling)
        /\ Fresh(frames, created) /\ Again(frames, created)
        /\ frames \in Seq(Frame) /\ created \in Seq(Bound)
        /\ calling \in cache <=> calling \in Singleton /\ Made(created, calling)
    BY <2>1 DEF ContainerInv, Consistent, TypesAgree
  <2>3. CASE Cached(calling)
    <3>1. frames' = frames /\ Made(created, calling)
      BY <2>1, <2>2, <2>3 DEF Cached
    <3>2. ASSUME frames # <<>>
          PROVE  MadeBelow(created, frames[Len(frames)], frames[Len(frames)].next)
      <4>1. /\ WaitsFor(created, frames[Len(frames)], calling)
            /\ frames[Len(frames)] \in Frame
        BY <3>2, <2>1, <2>2, LenProperties, ElementOfSeq DEF LastWaits
      <4>2. QED
        BY <4>1, <3>1 DEF WaitsFor, MadeBelow, Frame
    <3>3. LastWaits(frames', created', calling')
      BY <3>1, <3>2, <2>1 DEF LastWaits
    <3>4. QED
      BY <3>1, <3>3, <2>1, <2>2 DEF ContainerInv, Consistent
  <2>4. CASE ~ Cached(calling)
    <3>1. calling \in Singleton => ~ Made(created, calling)
      BY <2>2, <2>4 DEF Cached
    <3>2. frames' = Append(frames, [name |-> calling, next |-> 1])
      BY <2>1, <2>4
    <3>3. /\ frames' \in Seq(Frame) /\ IsPath(frames', created)
          /\ LastWaits(frames', created, None)
          /\ Fresh(frames', created) /\ Again(frames', created)
      BY <3>1, <3>2, <2>1, <2>2, PushKeeps
    <3>4. TypesAgree(frames', created, cache)
      BY <3>3, <2>2 DEF TypesAgree
    <3>5. QED
      BY <3>3, <3>4, <2>1, <2>2 DEF ContainerInv, Consistent
  <2>5. QED
    BY <2>3, <2>4
<1>3. QED
  BY <1>1, <1>2

LEMMA CallDependencyKeeps == ContainerInv /\ CallDependency => ContainerInv'
<1> SUFFICES ASSUME ContainerInv, CallDependency PROVE ContainerInv'
  OBVIOUS
<1> DEFINE n == Len(frames)
           top == frames[n]
           new == [top EXCEPT !.next = @ + 1]
<1>1. /\ TypesAgree(frames, created, cache) /\ Built(created)
      /\ IsPath(frames, created) /\ LastWaits(frames, created, calling)
      /\ Fresh(frames, created) /\ Again(frames, created)
      /\ frames \in Seq(Frame) /\ frames # <<>>
  BY DEF ContainerInv, Consistent, TypesAgree, CallDependency, Waiting
<1>2. n \in Nat /\ n > 0 /\ top \in Frame /\ Front(frames) = SubSeq(frames, 1, n - 1)
  BY <1>1, LenProperties, ElementOfSeq DEF Front
<1>3. /\ MadeBelow(created, top, top.next)
      /\ top.next <= Len(Dependencies[top.name])
      /\ calling' = Dependencies[top.name][top.next]
      /\ frames' = Append(Front(frames), new)
      /\ UNCHANGED <<cache, created>>
  BY <1>1 DEF CallDependency, Waiting, Top, Last, LastWaits
<1>4. /\ new \in Frame /\ new.name = top.name /\ new.next = top.next + 1
      /\ top.next \in Nat \ {0} /\ top.name \in Bound
  BY <1>2 DEF Frame
<1> HIDE DEF new
<1>5. /\ Front(frames) \in Seq(Frame) /\ Len(Front(frames)) = n - 1
      /\ \A i \in 1..(n - 1) : Front(frames)[i] = frames[i]
  BY <1>1, <1>2, FrontOf
<1>6. /\ frames' \in Seq(Frame) /\ Len(frames') = n /\ frames'[n] = new
      /\ \A i \in 1..(n - 1) : frames'[i] = frames[i]
  <2> DEFINE p == Front(frames)
  <2>1. p \in Seq(Frame) /\ Len(p) = n - 1 /\ new \in Frame
    BY <1>4, <1>5
  <2> HIDE DEF p
  <2>2. /\ Append(p, new) \in Seq(Frame) /\ Len(Append(p, new)) = Len(p) + 1
        /\ \A i \in 1..Len(p) : Append(p, new)[i] = p[i]
        /\ Append(p, new)[Len(p) + 1] = new
    BY <2>1, AppendProperties
  <2>3. QED
    BY <2>1, <2>2, <1>2, <1>3, <1>5 DEF p
<1>7. \A i \in 1..n : frames'[i].name = frames[i].name
  BY <1>2, <1>4, <1>6
<1>8. Fresh(frames', created) /\ Again(frames', created)
  BY <1>1, <1>6, <1>7 DEF Fresh, Again
<1>9. /\ Dependencies[top.name] \in Seq(STRING) /\ Len(Dependencies[top.name]) \in Nat
      /\ top.next \in 1..Len(Dependencies[top.name]) /\ calling' # None
  <2>1. Dependencies[top.name] \in Seq(STRING)
    BY <1>4, RegistryAssumption DEF Bound
  <2>2. Len(Dependencies[top.name]) \in Nat
    BY <2>1, LenProperties
  <2>3. top.next \in 1..Len(Dependencies[top.name])
    BY <2>2, <1>3, <1>4
  <2>4. QED
    BY <2>1, <2>2, <2>3, <1>3, <1>4, NamesAssumption DEF Bound
<1>10. LastWaits(frames', created, calling')
  <2>1. new.next - 1 = top.next
    BY <1>4
  <2>2. WaitsFor(created, new, calling')
    BY <2>1, <1>3, <1>4, <1>9 DEF WaitsFor, MadeBelow
  <2>3. QED
    BY <2>2, <1>6, <1>9 DEF LastWaits
<1>11. IsPath(frames', created)
  <2> SUFFICES ASSUME NEW i \in 1..Len(frames'), i + 1 \in 1..Len(frames')
               PROVE  WaitsFor(created, frames'[i], frames'[i + 1].name)
    BY DEF IsPath
  <2>1. i \in 1..(n - 1) /\ i \in 1..n /\ i + 1 \in 1..n
    BY <1>2, <1>6
  <2>2. WaitsFor(created, frames[i], frames[i + 1].name)
    BY <2>1, <1>1 DEF IsPath
  <2>3. QED
    BY <2>1, <2>2, <1>6, <1>7
<1>12. TypesAgree(frames', created, cache)
  BY <1>1, <1>6 DEF TypesAgree
<1>13. QED
  BY <1>1, <1>3, <1>8, <1>10, <1>11, <1>12 DEF ContainerInv, Consistent

(* One more instance, of the last frame's name. *)
LEMMA CreatedMakes ==
  ASSUME NEW C \in Seq(Bound), NEW m \in Bound, NEW D, D = Append(C, m)
  PROVE  /\ D \in Seq(Bound) /\ Len(C) \in Nat /\ Len(D) = Len(C) + 1
         /\ \A i \in 1..Len(C) : D[i] = C[i]
         /\ D[Len(C) + 1] = m
         /\ \A k : Made(D, k) <=> Made(C, k) \/ k = m
<1>1. /\ D \in Seq(Bound) /\ Len(C) \in Nat /\ Len(D) = Len(C) + 1
      /\ \A i \in 1..Len(C) : D[i] = C[i]
      /\ D[Len(C) + 1] = m
  BY AppendProperties, LenProperties
<1>2. ASSUME NEW k, Made(D, k) PROVE Made(C, k) \/ k = m
  BY <1>1, <1>2 DEF Made
<1>3. ASSUME NEW k, Made(C, k) PROVE Made(D, k)
  <2>1. PICK i \in 1..Len(C) : C[i] = k
    BY <1>3 DEF Made
  <2>2. i \in 1..Len(D) /\ D[i] = k
    BY <1>1, <2>1
  <2>3. QED
    BY <2>2 DEF Made
<1>4. Made(D, m)
  <2>1. Len(C) + 1 \in 1..Len(D)
    BY <1>1
  <2>2. QED
    BY <1>1, <2>1 DEF Made
<1>5. QED
  BY <1>1, <1>2, <1>3, <1>4

LEMMA CreatedInOrder ==
  ASSUME NEW C \in Seq(Bound), NEW m \in Bound, NEW D, D = Append(C, m), Built(C),
         m \in Singleton => ~ Made(C, m),
         \A d \in 1..Len(Dependencies[m]) : Made(C, Dependencies[m][d])
  PROVE  Built(D)
<1>1. /\ DOMAIN C = 1..Len(C) /\ DOMAIN D = 1..Len(D)
      /\ Len(C) \in Nat /\ Len(D) = Len(C) + 1
      /\ \A i \in 1..Len(C) : D[i] = C[i]
      /\ D[Len(C) + 1] = m
  BY CreatedMakes, LenProperties
<1>2. ASSUME NEW i \in DOMAIN D, NEW j \in DOMAIN D, D[i] \in Singleton, D[j] = D[i]
      PROVE  i = j
  <2>1. CASE i \in 1..Len(C) /\ j \in 1..Len(C)
    BY <2>1, <1>1, <1>2 DEF Built
  <2>2. CASE i = Len(C) + 1 /\ j \in 1..Len(C)
    BY <2>2, <1>1, <1>2 DEF Made
  <2>3. CASE j = Len(C) + 1 /\ i \in 1..Len(C)
    BY <2>3, <1>1, <1>2 DEF Made
  <2>4. QED
    BY <2>1, <2>2, <2>3, <1>1
<1>3. ASSUME NEW i \in DOMAIN D, NEW k \in DOMAIN Dependencies[D[i]]
      PROVE  \E j \in 1..(i - 1) : D[j] = Dependencies[D[i]][k]
  <2>1. CASE i \in 1..Len(C)
    <3>1. D[i] = C[i] /\ i \in DOMAIN C
      BY <2>1, <1>1
    <3>2. PICK j \in 1..(i - 1) : C[j] = Dependencies[C[i]][k]
      BY <3>1, <1>3 DEF Built
    <3>3. j \in 1..Len(C)
      BY <2>1, <1>1
    <3>4. QED
      BY <3>1, <3>2, <3>3, <1>1
  <2>2. CASE i = Len(C) + 1
    <3>1. Dependencies[m] \in Seq(STRING)
      BY RegistryAssumption DEF Bound
    <3>2. k \in 1..Len(Dependencies[m])
      BY <2>2, <3>1, <1>1, <1>3, LenProperties
    <3>3. PICK j \in 1..Len(C) : C[j] = Dependencies[m][k]
      BY <3>2 DEF Made
    <3>4. QED
      BY <3>3, <2>2, <1>1
  <2>3. QED
    BY <2>1, <2>2, <1>1
<1>4. QED
  BY <1>2, <1>3 DEF Built

(* The last frame goes: its name is made, and what waited for it goes on.  *)
LEMMA PopKeeps ==
  ASSUME NEW F \in Seq(Frame), F # <<>>, NEW C \in Seq(Bound),
         IsPath(F, C), Fresh(F, C), Again(F, C),
         NEW m \in Bound, m = F[Len(F)].name, m \in Singleton => ~ Made(C, m),
         \A d \in 1..Len(Dependencies[m]) : Made(C, Dependencies[m][d]),
         NEW D, D = Append(C, m), NEW G, G = SubSeq(F, 1, Len(F) - 1)
  PROVE  /\ G \in Seq(Frame) /\ IsPath(G, D) /\ LastWaits(G, D, None)
         /\ Fresh(G, D) /\ Again(G, D)
<1> DEFINE n == Len(F)
<1>1. n \in Nat /\ n > 0 /\ \A i \in 1..n : F[i] \in Frame
  BY LenProperties, ElementOfSeq
<1>2. G \in Seq(Frame) /\ Len(G) = n - 1 /\ \A i \in 1..(n - 1) : G[i] = F[i]
  BY FrontOf
<1>3. \A k : Made(D, k) <=> Made(C, k) \/ k = m
  <2>1. C \in Seq(Bound) /\ m \in Bound /\ D = Append(C, m)
    OBVIOUS
  <2>2. QED
    BY ONLY <2>1, CreatedMakes
<1>4. ASSUME NEW i \in 1..n, i + 1 \in 1..n
      PROVE  WaitsFor(C, F[i], F[i + 1].name) /\ WaitsFor(D, F[i], F[i + 1].name)
  BY <1>3, <1>4 DEF IsPath, WaitsFor, MadeBelow
<1>5. IsPath(G, D)
  <2> SUFFICES ASSUME NEW i \in 1..Len(G), i + 1 \in 1..Len(G)
               PROVE  WaitsFor(D, G[i], G[i + 1].name)
    BY DEF IsPath
  <2>1. i \in 1..n /\ i + 1 \in 1..n /\ G[i] = F[i] /\ G[i + 1] = F[i + 1]
    BY <1>1, <1>2
  <2>2. QED
    BY <2>1, <1>4
<1>6. LastWaits(G, D, None)
  <2> SUFFICES ASSUME G # <<>>
               PROVE  MadeBelow(D, G[Len(G)], G[Len(G)].next)
    BY DEF LastWaits
  <2>1. Len(G) \in 1..n /\ Len(G) + 1 = n /\ G[Len(G)] = F[Len(G)]
    BY <1>1, <1>2, EmptySeq
  <2> DEFINE f == F[Len(G)]
  <2>2. WaitsFor(D, f, m) /\ f \in Frame
    BY <2>1, <1>1, <1>4
  <2>3. Made(D, m)
    BY <1>3
  <2>4. MadeBelow(D, f, f.next)
    BY <2>2, <2>3 DEF WaitsFor, MadeBelow, Frame
  <2>5. QED
    BY <2>1, <2>4
<1>7. ASSUME NEW i \in 1..(n - 1), NEW j \in 1..n, i < j, F[i].name = m
      PROVE  Made(C, F[j].name)
  <2>1. i \in 1..n /\ i + 1 \in 1..n /\ (i + 1 < j \/ i + 1 = j)
    BY <1>1, <1>7
  <2>2. Made(C, F[i + 1].name)
    BY <2>1, <1>4, <1>7 DEF WaitsFor
  <2>3. QED
    BY <2>1, <2>2 DEF Again
<1>8. Fresh(G, D)
  <2> SUFFICES ASSUME NEW i \in 1..(n - 1), F[i].name \in Singleton
               PROVE  ~ Made(D, F[i].name)
    BY <1>2 DEF Fresh
  <2>1. i \in 1..n /\ n \in 1..n /\ i < n
    BY <1>1
  <2>2. F[i].name # m
    BY <2>1, <1>7
  <2>3. QED
    BY <2>1, <2>2, <1>3 DEF Fresh
<1>9. Again(G, D)
  <2> SUFFICES ASSUME NEW i \in 1..(n - 1), NEW j \in 1..(n - 1), i < j, Made(D, F[i].name)
               PROVE  Made(D, F[j].name)
    BY <1>2 DEF Again
  <2>1. i \in 1..n /\ j \in 1..n
    BY <1>1
  <2>2. CASE Made(C, F[i].name)
    BY <2>1, <2>2, <1>3 DEF Again
  <2>3. CASE F[i].name = m
    BY <2>1, <2>3, <1>3, <1>7
  <2>4. QED
    BY <2>2, <2>3, <1>3
<1>10. QED
  BY <1>2, <1>5, <1>6, <1>8, <1>9

LEMMA FactoryKeeps == ContainerInv /\ Factory => ContainerInv'
<1> SUFFICES ASSUME ContainerInv, Factory PROVE ContainerInv'
  OBVIOUS
<1> DEFINE n == Len(frames)
           top == frames[n]
           m == top.name
<1>1. /\ TypesAgree(frames, created, cache) /\ Built(created)
      /\ IsPath(frames, created) /\ LastWaits(frames, created, calling)
      /\ Fresh(frames, created) /\ Again(frames, created)
      /\ frames \in Seq(Frame) /\ created \in Seq(Bound) /\ frames # <<>>
  BY DEF ContainerInv, Consistent, TypesAgree, Factory, Waiting
<1>2. n \in Nat /\ n > 0 /\ n \in 1..n /\ top \in Frame /\ m \in Bound /\ top.next \in Nat
  <2>1. n \in Nat /\ n > 0
    BY <1>1, LenProperties
  <2>2. n \in 1..n
    BY <2>1
  <2>3. top \in Frame
    BY <1>1, <2>2, ElementOfSeq
  <2>4. QED
    BY <2>1, <2>2, <2>3 DEF Frame
<1>3. /\ calling' = None /\ MadeBelow(created, top, top.next)
      /\ top.next > Len(Dependencies[m])
      /\ created' = Append(created, m)
      /\ cache' = IF m \in Singleton THEN cache \cup {m} ELSE cache
      /\ frames' = SubSeq(frames, 1, n - 1)
  BY <1>1 DEF Factory, Waiting, Top, Last, Store, Front, LastWaits
<1>4. Len(Dependencies[m]) \in Nat
  BY <1>2, RegistryAssumption, LenProperties DEF Bound
<1>5. \A d \in 1..Len(Dependencies[m]) : Made(created, Dependencies[m][d])
  BY <1>2, <1>3, <1>4 DEF MadeBelow
<1>6. m \in Singleton => ~ Made(created, m)
  BY <1>1, <1>2 DEF Fresh
<1>7. /\ frames' \in Seq(Frame) /\ IsPath(frames', created')
      /\ LastWaits(frames', created', None)
      /\ Fresh(frames', created') /\ Again(frames', created')
  <2> HIDE DEF m
  <2>1. m = frames[Len(frames)].name
    BY DEF m
  <2>2. QED
    BY <2>1, <1>1, <1>2, <1>3, <1>5, <1>6, PopKeeps
<1> HIDE DEF m
<1>8. Built(created')
  BY <1>1, <1>2, <1>3, <1>5, <1>6, CreatedInOrder
<1>9. /\ created' \in Seq(Bound)
      /\ \A k : Made(created', k) <=> Made(created, k) \/ k = m
  BY <1>1, <1>2, <1>3, CreatedMakes
<1>10. TypesAgree(frames', created', cache')
  BY <1>1, <1>3, <1>7, <1>9 DEF TypesAgree
<1>11. QED
  BY <1>3, <1>7, <1>8, <1>10 DEF ContainerInv, Consistent

--------------------------------------------------------------------------------
LEMMA ResolveKeeps ==
  ASSUME ContainerInv, NEW n, Resolve(n)
  PROVE  ContainerInv'
<1>1. frames = <<>> /\ UNCHANGED <<frames, cache, created>>
  BY DEF Resolve, Resolving
<1>2. QED
  BY <1>1, NothingUnderWay

LEMMA ContainerUnchanged == ContainerInv /\ UNCHANGED containerVars => ContainerInv'
BY DEF containerVars, ContainerInv

LEMMA BackendKeeps == ContainerInv /\ [Next]_vars => ContainerInv'
<1> SUFFICES ASSUME ContainerInv, [Next]_vars PROVE ContainerInv'
  OBVIOUS
<1>1. CASE UNCHANGED containerVars
  BY <1>1, ContainerUnchanged
<1>2. CASE Resolution
  <2>1. CASE FactoryThrows
    BY <2>1, NothingUnderWay DEF FactoryThrows, Reject
  <2>2. QED
    BY <2>1, <1>2, InternalResolveKeeps, CallDependencyKeeps, FactoryKeeps
    DEF Resolution, ContainerStep
<1>3. CASE StartResolve
  BY <1>3, ResolveKeeps DEF StartResolve
<1>4. CASE Resolved \/ ServiceStarts \/ StartRejects
  BY <1>1, <1>4 DEF Resolved, ServiceStarts, StartRejects
<1>5. QED
  BY <1>1, <1>2, <1>3, <1>4
  DEF Next, Preparing, Prepared, BackendStep, Boot, Later, Run, vars

LEMMA InitContainer == ContainerInit => ContainerInv
<1> SUFFICES ASSUME ContainerInit PROVE ContainerInv
  OBVIOUS
<1>1. /\ frames = <<>> /\ created = <<>> /\ cache = {}
      /\ Len(frames) = 0 /\ Len(created) = 0 /\ DOMAIN created = {}
      /\ frames \in Seq(Frame) /\ created \in Seq(Bound)
  BY EmptySeq DEF ContainerInit
<1>2. \A n : ~ Made(created, n)
  BY <1>1 DEF Made
<1>3. TypesAgree(frames, created, cache)
  BY <1>1, <1>2 DEF TypesAgree
<1>4. /\ IsPath(frames, created) /\ LastWaits(frames, created, calling)
      /\ Fresh(frames, created) /\ Again(frames, created) /\ Built(created)
  BY <1>1, <1>2 DEF IsPath, LastWaits, Fresh, Again, Built
<1>5. QED
  BY <1>3, <1>4 DEF ContainerInv, Consistent

(* There is one instance of each singleton, made after what it depends on  *)
(* (Container.resolve), however far Backend.start comes.                   *)
THEOREM OneInstanceEach == Spec => []BuiltOnceInOrder
<1>1. Init => ContainerInv
  BY InitContainer DEF Init
<1>2. ContainerInv => BuiltOnceInOrder
  <2> SUFFICES ASSUME ContainerInv, NEW i \in DOMAIN created
               PROVE  LET before == {created[j] : j \in 1..(i - 1)}
                      IN  /\ created[i] \in Singleton => created[i] \notin before
                          /\ Range(Dependencies[created[i]]) \subseteq before
    BY DEF BuiltOnceInOrder
  <2>1. created \in Seq(Bound) /\ Built(created)
    BY DEF ContainerInv, Consistent, TypesAgree
  <2>2. i \in 1..Len(created) /\ Len(created) \in Nat /\ DOMAIN created = 1..Len(created)
    BY <2>1
  <2>3. \A j \in 1..(i - 1) : j \in DOMAIN created /\ j # i
    BY <2>2
  <2>4. QED
    BY <2>1, <2>3 DEF Built, Range
<1>3. QED
  BY <1>1, <1>2, BackendKeeps, PTL DEF Spec

--------------------------------------------------------------------------------
(* The tables: what is ingested and what is materialized *)

LEMMA ScriptRows ==
  /\ \A t \in DOMAIN Script :
       /\ IsFiniteSet(BlocksOf[t]) /\ IsFiniteSet(MessagesOf[t]) /\ IsFiniteSet(UniqueOf[t])
       /\ UniqueOf[t] \subseteq MessagesOf[t]
       /\ \A b \in BlocksOf[t] : b[1] = t
       /\ \A r \in MessagesOf[t] : r[1] \in BlocksOf[t] /\ r[2] \in MessageRow
  /\ DOMAIN BlocksOf = DOMAIN Script /\ DOMAIN MessagesOf = DOMAIN Script
  /\ DOMAIN UniqueOf = DOMAIN Script
<1>1. ASSUME NEW t \in DOMAIN Script
      PROVE  /\ IsFiniteSet(BlocksOf[t]) /\ IsFiniteSet(MessagesOf[t])
             /\ IsFiniteSet(UniqueOf[t]) /\ UniqueOf[t] \subseteq MessagesOf[t]
             /\ \A b \in BlocksOf[t] : b[1] = t
             /\ \A r \in MessagesOf[t] : r[1] \in BlocksOf[t] /\ r[2] \in MessageRow
  <2> DEFINE q == Script[t].blocks
             rows(b) == {b} \X q[b[2]].sent
  <2>1. /\ q \in Seq([miner : STRING, sent : SUBSET MessageRow]) /\ DOMAIN q = 1..Len(q)
        /\ Len(q) \in Nat
    <3> DEFINE B == Seq([miner : STRING, sent : SUBSET MessageRow])
               R == [height : Nat, blocks : B]
    <3>1. Script \in Seq(R)
      BY ScriptAssumption
    <3> HIDE DEF B, R
    <3>2. DOMAIN Script = 1..Len(Script) /\ \A i \in 1..Len(Script) : Script[i] \in R
      BY <3>1
    <3>3. Script[t] \in R
      BY <3>2
    <3>4. q \in B
      BY <3>3 DEF R
    <3>5. QED
      BY <3>4, LenProperties DEF B
  <2>2. \A i \in DOMAIN q : q[i].sent \subseteq MessageRow /\ IsFiniteSet(q[i].sent)
    <3> DEFINE B == [miner : STRING, sent : SUBSET MessageRow]
               p == q
    <3>1. p \in Seq(B) /\ DOMAIN p = 1..Len(p)
      BY <2>1
    <3> HIDE DEF B, p
    <3>2. \A i \in DOMAIN p : p[i] \in B
      BY <3>1
    <3>3. QED
      BY <3>2, ScriptAssumption DEF B, p
  <2>3. BlocksOf[t] = {t} \X DOMAIN q
    BY DEF BlocksOf
  <2>4. \A b \in BlocksOf[t] : b[1] = t /\ b[2] \in DOMAIN q
    BY <2>3
  <2>5. IsFiniteSet(BlocksOf[t])
    <3>1. IsFiniteSet({t}) /\ IsFiniteSet(1..Len(q))
      <4>1. IsFiniteSet({t})
        BY FS_Singleton
      <4>2. 1 \in Int /\ Len(q) \in Int
        BY <2>1
      <4> HIDE DEF q
      <4>3. IsFiniteSet(1..Len(q))
        BY <4>2, FS_Interval
      <4>4. QED
        BY <4>1, <4>3
    <3>2. QED
      BY <2>1, <2>3, <3>1, FS_Product
  <2>6. MessagesOf[t] = UNION {rows(b) : b \in BlocksOf[t]}
    BY DEF MessagesOf
  <2>7. IsFiniteSet(MessagesOf[t])
    <3>1. \A b \in BlocksOf[t] : IsFiniteSet(rows(b))
      BY <2>2, <2>4, FS_Product, FS_Singleton
    <3>2. IsFiniteSet({rows(b) : b \in BlocksOf[t]})
      <4> DEFINE f == [b \in BlocksOf[t] |-> rows(b)]
      <4> HIDE DEF f
      <4>1. IsFiniteSet({f[b] : b \in BlocksOf[t]})
        BY <2>5, FiniteImage
      <4>2. {f[b] : b \in BlocksOf[t]} = {rows(b) : b \in BlocksOf[t]}
        BY DEF f
      <4>3. QED
        BY <4>1, <4>2
    <3> DEFINE family == {rows(b) : b \in BlocksOf[t]}
    <3>3. \A s \in family : IsFiniteSet(s)
      BY <3>1
    <3>4. IsFiniteSet(family) /\ MessagesOf[t] = UNION family
      BY <2>6, <3>2
    <3> HIDE DEF family
    <3>5. QED
      BY <3>3, <3>4, FS_UNION
  <2>8. \A r \in MessagesOf[t] : r[1] \in BlocksOf[t] /\ r[2] \in MessageRow
    BY <2>2, <2>4, <2>6
  <2>9. UniqueOf[t] \subseteq MessagesOf[t]
    BY DEF UniqueOf
  <2>10. QED
    BY <2>4, <2>5, <2>7, <2>8, <2>9, FS_Subset
<1>2. QED
  BY <1>1 DEF BlocksOf, MessagesOf, UniqueOf

AllBlocks == UNION {BlocksOf[t] : t \in DOMAIN Script}
AllMessages == UNION {MessagesOf[t] : t \in DOMAIN Script}

LEMMA AllRows ==
  /\ IsFiniteSet(AllBlocks) /\ IsFiniteSet(AllMessages)
  /\ \A r \in AllMessages : r[2] \in MessageRow
<1>1. IsFiniteSet(DOMAIN Script)
  <2>1. Len(Script) \in Int /\ 1 \in Int /\ DOMAIN Script = 1..Len(Script)
    BY ScriptAssumption, LenProperties
  <2>2. IsFiniteSet(1..Len(Script))
    BY <2>1, FS_Interval
  <2>3. QED
    BY <2>1, <2>2
<1>2. ASSUME NEW rowsOf, \A t \in DOMAIN Script : IsFiniteSet(rowsOf[t])
      PROVE  IsFiniteSet(UNION {rowsOf[t] : t \in DOMAIN Script})
  <2>1. IsFiniteSet({rowsOf[t] : t \in DOMAIN Script})
    BY <1>1, FiniteImage
  <2>2. \A S \in {rowsOf[t] : t \in DOMAIN Script} : IsFiniteSet(S)
    BY <1>2
  <2>3. QED
    BY <2>1, <2>2, FS_UNION
<1>3. QED
  BY <1>2, ScriptRows DEF AllBlocks, AllMessages

(* The rows of the tipsets so far, of any table. *)
LEMMA TableRows ==
  ASSUME IngestionInv
  PROVE  /\ Blocks \subseteq AllBlocks /\ Messages \subseteq AllMessages
         /\ UniqueMessages \subseteq Messages
         /\ \A b \in Blocks : b[1] \in 1..Tip
         /\ \A r \in Messages : r[1] \in Blocks
<1>1. DOMAIN ingestedAt = 1..Tip /\ Tip \in Nat /\ 1..Tip \subseteq DOMAIN Script
  BY ScriptAssumption, LenProperties DEF IngestionInv, Tip
<1>2. Blocks \subseteq AllBlocks /\ Messages \subseteq AllMessages
  BY <1>1 DEF Blocks, Messages, Table, AllBlocks, AllMessages
<1>3. UniqueMessages \subseteq Messages
  BY <1>1, ScriptRows DEF Messages, UniqueMessages, Table
<1>4. \A b \in Blocks : b[1] \in 1..Tip
  BY <1>1, ScriptRows DEF Blocks, Table
<1>5. \A r \in Messages : r[1] \in Blocks
  BY <1>1, ScriptRows DEF Blocks, Messages, Table
<1>6. QED
  BY <1>2, <1>3, <1>4, <1>5

(* A sum of the values of messages. *)
ValuesOf(S) == [r \in S |-> r[2].value]

LEMMA TotalValue ==
  ASSUME NEW S, NEW T \in SUBSET S
  PROVE  Total(Value, T) = SumOver(ValuesOf(S), T)
BY DEF Total, SumOver, MapThenSumSet, MapThenFoldSet, Value, ValuesOf

LEMMA TotalOfValues ==
  ASSUME NEW S \in SUBSET AllMessages
  PROVE  /\ IsFiniteSet(S) /\ Total(Value, S) \in Nat
         /\ \A T \in SUBSET S : IsFiniteSet(T) /\ Total(Value, T) <= Total(Value, S)
<1>1. IsFiniteSet(S) /\ \A r \in S : r[2].value \in Nat
  <2>1. IsFiniteSet(S)
    BY AllRows, FS_Subset
  <2>2. \A r \in S : r[2] \in MessageRow
    BY AllRows
  <2>3. QED
    BY <2>1, <2>2 DEF MessageRow
<1>2. \A r \in S : ValuesOf(S)[r] \in Nat
  BY <1>1 DEF ValuesOf
<1>3. Total(Value, S) \in Nat
  BY <1>1, <1>2, TotalValue, SumNotNegative
<1>4. ASSUME NEW T \in SUBSET S
      PROVE  IsFiniteSet(T) /\ Total(Value, T) <= Total(Value, S)
  <2>1. IsFiniteSet(T)
    BY <1>1, FS_Subset
  <2>2. Total(Value, T) = SumOver(ValuesOf(S), T) /\ Total(Value, S) = SumOver(ValuesOf(S), S)
    BY TotalValue
  <2>3. QED
    BY <1>1, <1>2, <2>1, <2>2, SumGrows
<1>5. QED
  BY <1>1, <1>3, <1>4

(* Ingestion only adds rows. *)
LEMMA TablesGrow ==
  ASSUME IngestionInv, IngestionInv', \/ UNCHANGED ingestedAt
                                      \/ ingestedAt' = Append(ingestedAt, now)
  PROVE  /\ Blocks \subseteq Blocks' /\ UniqueMessages \subseteq UniqueMessages'
         /\ Blocks' \subseteq AllBlocks /\ UniqueMessages' \subseteq AllMessages
<1>1. Len(ingestedAt) \in Nat /\ DOMAIN ingestedAt = 1..Len(ingestedAt)
      /\ ingestedAt \in Seq(0..now)
  BY LenProperties DEF IngestionInv
<1>2. DOMAIN ingestedAt \subseteq DOMAIN ingestedAt'
  <2>1. CASE ingestedAt' = Append(ingestedAt, now)
    <3>1. DOMAIN ingestedAt' = 1..Len(ingestedAt) + 1
      BY <1>1, <2>1
    <3>2. QED
      BY <1>1, <3>1
  <2>2. QED
    BY <2>1
<1>3. DOMAIN ingestedAt' \subseteq DOMAIN Script
  BY ScriptAssumption, LenProperties DEF IngestionInv, Tip
<1>4. \A t \in DOMAIN Script : UniqueOf[t] \subseteq MessagesOf[t]
  BY ScriptRows
<1>5. Blocks \subseteq Blocks' /\ UniqueMessages \subseteq UniqueMessages'
  BY <1>2 DEF Blocks, UniqueMessages, Table
<1>6. Blocks' \subseteq AllBlocks /\ UniqueMessages' \subseteq AllMessages
  BY <1>3, <1>4 DEF Blocks, UniqueMessages, Table, AllBlocks, AllMessages
<1>7. QED
  BY <1>5, <1>6

LEMMA TotalsGrow ==
  ASSUME IngestionInv, IngestionInv', \/ UNCHANGED ingestedAt
                                      \/ ingestedAt' = Append(ingestedAt, now)
  PROVE  /\ Total(Value, Pledges(UniqueMessages)) \in Nat
         /\ Total(Value, Pledges(UniqueMessages')) \in Nat
         /\ Total(Value, Pledges(UniqueMessages)) <= Total(Value, Pledges(UniqueMessages'))
         /\ Cardinality(Blocks) \in Nat /\ Cardinality(Blocks') \in Nat
         /\ Cardinality(Blocks) <= Cardinality(Blocks')
<1>1. Pledges(UniqueMessages') \in SUBSET AllMessages
  BY TablesGrow DEF Pledges
<1>2. Pledges(UniqueMessages) \subseteq Pledges(UniqueMessages')
  BY TablesGrow DEF Pledges
<1>3. Pledges(UniqueMessages) \in SUBSET AllMessages
  BY <1>1, <1>2
<1>4. Total(Value, Pledges(UniqueMessages)) \in Nat
  BY <1>3, TotalOfValues
<1>5. /\ Total(Value, Pledges(UniqueMessages')) \in Nat
      /\ \A T \in SUBSET Pledges(UniqueMessages') :
           Total(Value, T) <= Total(Value, Pledges(UniqueMessages'))
  BY <1>1, TotalOfValues
<1>6. IsFiniteSet(Blocks')
  BY TablesGrow, AllRows, FS_Subset
<1>7. QED
  BY <1>2, <1>4, <1>5, <1>6, TablesGrow, FS_Subset, FS_CardinalityType

--------------------------------------------------------------------------------
(* The invariants of what is materialized *)
MatInv == IngestionInv /\ UsageInv /\ CirculationInv

LEMMA ProductGrows ==
  ASSUME NEW a \in Nat, NEW b \in Nat, a <= b, NEW c \in Nat
  PROVE  a * c \in Nat /\ a * c <= b * c
<1>1. b - a \in Nat /\ b = a + (b - a)
  OBVIOUS
<1>2. (b - a) * c \in Nat
  BY <1>1
<1>3. a * c \in Nat /\ b * c = a * c + (b - a) * c
  OBVIOUS
<1>4. QED
  BY <1>2, <1>3

PledgedTotal == Total(Value, Pledges(UniqueMessages))

LEMMA TableTotals ==
  ASSUME IngestionInv, IngestionInv', \/ UNCHANGED ingestedAt
                                      \/ ingestedAt' = Append(ingestedAt, now)
  PROVE  /\ PledgedTotal \in Nat /\ PledgedTotal' \in Nat /\ PledgedTotal <= PledgedTotal'
         /\ Reward(Blocks) \in Nat /\ Reward(Blocks') \in Nat
         /\ Reward(Blocks) <= Reward(Blocks')
         /\ UsageRow.pledged \in Nat /\ UsageRow.pledged' \in Nat
         /\ UsageRow.pledged <= UsageRow.pledged'
<1>1. PledgedTotal \in Nat /\ PledgedTotal' \in Nat /\ PledgedTotal <= PledgedTotal'
  BY TotalsGrow DEF PledgedTotal
<1>2. /\ Reward(Blocks) \in Nat /\ Reward(Blocks') \in Nat
      /\ Reward(Blocks) <= Reward(Blocks')
  <2>1. /\ Cardinality(Blocks) \in Nat /\ Cardinality(Blocks') \in Nat
        /\ Cardinality(Blocks) <= Cardinality(Blocks')
    BY TotalsGrow
  <2> DEFINE a == Cardinality(Blocks)
             b == Cardinality(Blocks')
             r == BlockReward * Coin
  <2>2. r \in Nat
    BY TokenAssumption
  <2>3. Reward(Blocks) = r * a /\ Reward(Blocks') = r * b
    BY DEF Reward
  <2>4. a \in Nat /\ b \in Nat /\ a <= b
    BY <2>1
  <2> HIDE DEF a, b, r
  <2>5. a * r \in Nat /\ b * r \in Nat /\ a * r <= b * r
    BY <2>2, <2>4, ProductGrows
  <2>6. r * a = a * r /\ r * b = b * r
    BY <2>2, <2>4
  <2>7. QED
    BY <2>3, <2>5, <2>6
<1>3. /\ UsageRow.pledged \in Nat /\ UsageRow.pledged' \in Nat
      /\ UsageRow.pledged <= UsageRow.pledged'
  <2> DEFINE a == PledgedTotal
             b == PledgedTotal'
             s == SectorSize
  <2>1. UsageRow.pledged = a * s * s /\ UsageRow.pledged' = b * s * s
    BY DEF UsageRow, PledgedTotal
  <2>2. a \in Nat /\ b \in Nat /\ a <= b /\ s \in Nat
    BY <1>1, StorageAssumption
  <2> HIDE DEF a, b, s
  <2>3. a * s \in Nat /\ b * s \in Nat /\ a * s <= b * s
    BY <2>2, ProductGrows
  <2>4. (a * s) * s \in Nat /\ (b * s) * s \in Nat /\ (a * s) * s <= (b * s) * s
    BY <2>2, <2>3, ProductGrows
  <2>5. QED
    BY <2>1, <2>4
<1>4. QED
  BY <1>1, <1>2, <1>3

(* What the steps of the backend do to the tables. *)
Grown ==
  \/ UNCHANGED matVars
  \/ Tick \/ IngestTipset \/ MaterializeTokenStats \/ MaterializeUtilizationStats
  \/ UNCHANGED <<now, ingestedAt, circulation, usage>>

LEMMA StepsGrow == [Next]_vars => Grown
BY DEF Next, Preparing, Prepared, BackendStep, Boot, StartResolve, Resolution, Resolved,
       ServiceStarts, StartMaterializer, StartRejects, Later, Run, Poll, Insert, SaveMinerCounts,
       Fail, Unacknowledged, Lost,
       tables, vars, matVars, Grown

LEMMA IngestionGrows ==
  ASSUME IngestionInv, Grown
  PROVE  /\ IngestionInv'
         /\ now' \in Nat /\ now <= now'
         /\ \/ UNCHANGED ingestedAt
            \/ ingestedAt' = Append(ingestedAt, now)
<1>1. now \in Nat /\ ingestedAt \in Seq(0..now) /\ Tip <= Len(Script) /\ Tip \in Nat
      /\ Len(Script) \in Nat
      /\ \A i \in 1..Tip : ingestedAt[i] \in 0..now
  BY ScriptAssumption, LenProperties DEF IngestionInv, Tip
<1>2. CASE Tick
  <2>1. now' = now + 1 /\ ingestedAt' = ingestedAt
    BY <1>2 DEF Tick, tables
  <2>2. ingestedAt \in Seq(0..now + 1)
    <3>1. ingestedAt = [i \in 1..Len(ingestedAt) |-> ingestedAt[i]]
      BY <1>1
    <3>2. \A i \in 1..Len(ingestedAt) : ingestedAt[i] \in 0..now + 1
      BY <1>1 DEF Tip
    <3>3. QED
      BY <1>1, <3>1, <3>2 DEF Tip
  <2>3. QED
    BY <1>1, <2>1, <2>2 DEF IngestionInv, Tip
<1>3. CASE IngestTipset
  <2>1. /\ ingestedAt' = Append(ingestedAt, now) /\ now' = now /\ Tip < Len(Script)
    BY <1>3 DEF IngestTipset
  <2>2. /\ ingestedAt' \in Seq(0..now) /\ Tip' = Tip + 1
        /\ \A i \in 1..Tip : ingestedAt'[i] = ingestedAt[i]
        /\ ingestedAt'[Tip + 1] = now
    <3>1. now \in 0..now
      BY <1>1
    <3>2. QED
      BY <1>1, <2>1, <3>1, AppendProperties DEF Tip
  <2>3. ASSUME NEW i \in 1..Tip + 1, NEW j \in 1..Tip + 1, i < j
        PROVE  ingestedAt'[i] <= ingestedAt'[j]
    <3>1. i \in 1..Tip
      BY <1>1, <2>3
    <3>2. CASE j \in 1..Tip
      BY <2>2, <2>3, <3>1, <3>2 DEF IngestionInv
    <3>3. CASE j = Tip + 1
      BY <1>1, <2>2, <3>1, <3>3
    <3>4. QED
      BY <1>1, <3>2, <3>3
  <2>4. Tip' <= Len(Script)
    BY <1>1, <2>1, <2>2
  <2>5. IngestionInv'
    BY <1>1, <2>1, <2>2, <2>3, <2>4 DEF IngestionInv
  <2>6. QED
    BY <1>1, <2>1, <2>5
<1>4. CASE UNCHANGED <<now, ingestedAt>>
  BY <1>1, <1>4 DEF IngestionInv, Tip
<1>5. QED
  BY <1>2, <1>3, <1>4
  DEF Grown, matVars, tables, MaterializeTokenStats, MaterializeUtilizationStats

LEMMA UsageGrows ==
  ASSUME IngestionInv, UsageInv, Grown
  PROVE  UsageInv'
<1>1. /\ IngestionInv' /\ now \in Nat /\ now' \in Nat /\ now <= now'
      /\ \/ UNCHANGED ingestedAt
         \/ ingestedAt' = Append(ingestedAt, now)
  BY IngestionGrows DEF IngestionInv
<1>2. /\ UsageRow.pledged \in Nat /\ UsageRow'.pledged \in Nat
      /\ UsageRow.pledged <= UsageRow'.pledged
  BY <1>1, TableTotals
<1> DEFINE p == UsageRow.pledged
           q == UsageRow'.pledged
<1>3. /\ p \in Nat /\ q \in Nat /\ p <= q
  BY <1>2
<1>4. CASE usage' = usage
  <2> HIDE DEF p, q
  <2>1. \A u \in usage : u.pledged <= p /\ u.pledged \in Nat
    BY DEF UsageInv, p
  <2>2. \A u \in usage : u.pledged <= q /\ u.at \in 0..now'
    BY <1>1, <1>3, <2>1 DEF UsageInv
  <2>3. QED
    BY <1>4, <2>2 DEF UsageInv, q
<1>5. CASE MaterializeUtilizationStats
  <2>1. /\ usage' = usage \cup {UsageRow} /\ now' = now /\ ingestedAt' = ingestedAt
    BY <1>5 DEF MaterializeUtilizationStats
  <2>2. UsageRow' = UsageRow
    BY <2>1 DEF UsageRow, UniqueMessages, Table
  <2>3. UsageRow.committed \in Nat
    <3> DEFINE C == {r \in UniqueMessages : r[2].method = "commitSector"}
    <3>1. IsFiniteSet(C)
      BY TableRows, AllRows, FS_Subset
    <3>2. Cardinality(C) \in Nat
      BY <3>1, FS_CardinalityType
    <3>3. UsageRow.committed = Cardinality(C) * SectorSize * Unit
      BY DEF UsageRow, Gigabytes
    <3> HIDE DEF C
    <3>4. QED
      BY <3>2, <3>3, StorageAssumption
  <2>4. UsageRow.at = now
    BY DEF UsageRow
  <2>5. IsFiniteSet(usage')
    BY <2>1, FS_AddElement DEF UsageInv
  <2> DEFINE row == UsageRow
  <2>6. /\ row.committed \in Nat /\ row.pledged = p /\ row.at = now
        /\ UsageRow' = row /\ usage' = usage \cup {row} /\ row.pledged = q
    BY <2>1, <2>2, <2>3, <2>4
  <2> HIDE DEF row, p, q
  <2>7. \A u \in usage' : /\ u.committed \in Nat /\ u.pledged \in Nat /\ u.at \in 0..now'
                          /\ u.pledged <= q
    BY <1>1, <1>3, <2>1, <2>6 DEF UsageInv, p
  <2>8. \A u, v \in usage' : u.at < v.at => u.pledged <= v.pledged
    <3>1. \A u \in usage' : u.at \in 0..now /\ u.pledged <= p
      BY <2>1, <2>6, <2>7
    <3>2. ASSUME NEW u \in usage', NEW v \in usage', u.at < v.at
          PROVE  u.pledged <= v.pledged
      <4>1. CASE v = row
        BY <2>6, <3>1, <4>1
      <4>2. CASE v \in usage
        <5>1. u # row
          BY <1>1, <2>6, <3>1, <3>2
        <5>2. QED
          BY <2>6, <3>2, <4>2, <5>1 DEF UsageInv
      <4>3. QED
        BY <2>6, <4>1, <4>2
    <3>3. QED
      BY <3>2
  <2>9. QED
    BY <2>5, <2>7, <2>8 DEF UsageInv, q
<1>6. QED
  BY <1>4, <1>5 DEF Grown, matVars, tables, Tick, IngestTipset, MaterializeTokenStats

LEMMA CirculationGrows ==
  ASSUME IngestionInv, CirculationInv, Grown
  PROVE  CirculationInv'
<1>1. /\ IngestionInv' /\ now \in Nat /\ now' \in Nat /\ now <= now'
      /\ \/ UNCHANGED ingestedAt
         \/ ingestedAt' = Append(ingestedAt, now)
  BY IngestionGrows DEF IngestionInv
<1>2. /\ PledgedTotal \in Nat /\ PledgedTotal' \in Nat /\ PledgedTotal <= PledgedTotal'
      /\ Reward(Blocks) \in Nat /\ Reward(Blocks)' \in Nat
      /\ Reward(Blocks) <= Reward(Blocks)'
  BY <1>1, TableTotals
<1>3. CASE circulation' = circulation
  <2>1. ASSUME NEW c \in circulation
        PROVE  /\ c.coins \in Nat /\ c.coins <= Reward(Blocks)
               /\ c.collateral \in Nat \cup {NaN}
               /\ c.collateral # NaN => c.collateral <= PledgedTotal /\ c.collateral \in Nat
    BY DEF CirculationInv, PledgedTotal
  <2> DEFINE p == Reward(Blocks)
             q == Reward(Blocks)'
  <2>2. p \in Nat /\ q \in Nat /\ p <= q /\ \A c \in circulation : c.coins \in Nat /\ c.coins <= p
    BY <1>2, <2>1
  <2> HIDE DEF p, q
  <2>3. \A c \in circulation : c.coins <= q
    BY <2>2
  <2>4. \A c \in circulation : c.collateral # NaN => c.collateral <= PledgedTotal'
    BY <1>2, <2>1
  <2>5. QED
    BY <1>3, <2>1, <2>3, <2>4 DEF CirculationInv, PledgedTotal, q
<1>4. CASE MaterializeTokenStats
  <2> DEFINE row == [collateral |-> CollateralizedCoins, coins |-> Reward(Blocks), at |-> now]
  <2>1. circulation' = circulation \cup {row} /\ ingestedAt' = ingestedAt
    BY <1>4 DEF MaterializeTokenStats
  <2>2. PledgedTotal' = PledgedTotal /\ Reward(Blocks)' = Reward(Blocks)
    BY <2>1 DEF PledgedTotal, UniqueMessages, Blocks, Table
  <2>3. row.collateral \in {NaN, PledgedTotal} /\ row.coins = Reward(Blocks)
    BY DEF CollateralizedCoins, PledgedTotal
  <2>4. PledgedTotal # NaN
    BY <1>2, TablesAssumption
  <2>5. IsFiniteSet(circulation')
    BY <2>1, FS_AddElement DEF CirculationInv
  <2> HIDE DEF row
  <2>6. ASSUME NEW c \in circulation'
        PROVE  /\ c.coins \in Nat /\ c.coins <= Reward(Blocks)
               /\ c.collateral \in Nat \cup {NaN}
               /\ c.collateral # NaN => c.collateral <= PledgedTotal
    <3>1. CASE c \in circulation
      BY <3>1 DEF CirculationInv, PledgedTotal
    <3>2. CASE c = row
      BY <1>2, <2>3, <2>4, <3>2
    <3>3. QED
      BY <2>1, <3>1, <3>2
  <2>7. QED
    BY <2>2, <2>5, <2>6 DEF CirculationInv, PledgedTotal
<1>5. QED
  BY <1>3, <1>4 DEF Grown, matVars, tables, Tick, IngestTipset, MaterializeUtilizationStats

LEMMA MatHolds == Spec => []MatInv
<1>1. Init => MatInv
  <2> SUFFICES ASSUME Init PROVE MatInv
    OBVIOUS
  <2>1. /\ now = 0 /\ ingestedAt = <<>> /\ usage = {} /\ circulation = {}
    BY DEF Init, MatInit
  <2>2. ingestedAt \in Seq(0..now) /\ Tip = 0 /\ Len(Script) \in Nat
    BY <2>1, ScriptAssumption, LenProperties DEF Tip
  <2>3. IngestionInv
    BY <2>1, <2>2 DEF IngestionInv
  <2>4. QED
    BY <2>1, <2>3, FS_EmptySet DEF MatInv, UsageInv, CirculationInv
<1>2. MatInv /\ [Next]_vars => MatInv'
  BY StepsGrow, IngestionGrows, UsageGrows, CirculationGrows DEF MatInv
<1>3. QED
  BY <1>1, <1>2, PTL DEF Spec

--------------------------------------------------------------------------------
(* The dates of a chart *)
LEMMA RemainderLess ==
  ASSUME NEW a \in Int, NEW b \in Int, a <= b, NEW g \in Nat \ {0}
  PROVE  a - (a % g) <= b - (b % g)
OBVIOUS

LEMMA TruncIsMonotone ==
  ASSUME NEW dur \in Duration, NEW t \in Int, NEW u \in Int, t <= u
  PROVE  Trunc(dur, t) \in Int /\ Trunc(dur, u) \in Int /\ Trunc(dur, t) <= Trunc(dur, u)
<1>1. Granule[dur] \in Nat \ {0}
  BY TablesAssumption
<1> DEFINE g == Granule[dur]
<1>2. Trunc(dur, t) = t - (t % g) /\ Trunc(dur, u) = u - (u % g)
  BY DEF Trunc
<1>3. g \in Nat \ {0}
  BY <1>1
<1> HIDE DEF g
<1>4. t - (t % g) <= u - (u % g)
  BY <1>3, RemainderLess
<1>5. t - (t % g) \in Int /\ u - (u % g) \in Int
  BY <1>3
<1>6. QED
  BY <1>2, <1>4, <1>5

LEMMA SeriesIsFinite ==
  ASSUME now \in Nat, NEW dur \in Duration
  PROVE  /\ IsFiniteSet(DurationSeries(dur)) /\ DurationSeries(dur) \subseteq Int
         /\ \A S \in SUBSET DurationSeries(dur) : IsFiniteSet(S)
<1> DEFINE g == Granule[dur]
           n == Reach[dur]
           top == Trunc(dur, now)
           f == [k \in 0..n |-> top - k * g]
<1>1. g \in Nat /\ n \in Nat /\ top \in Int
  BY TablesAssumption, TruncIsMonotone
<1>2. DurationSeries(dur) \subseteq {f[k] : k \in 0..n}
  BY DEF DurationSeries
<1>3. \A k \in 0..n : f[k] \in Int
  <2> HIDE DEF g, top
  <2>1. QED
    BY <1>1
<1> HIDE DEF f, n
<1>4. IsFiniteSet(0..n)
  BY <1>1, FS_Interval
<1>5. IsFiniteSet({f[k] : k \in 0..n})
  BY <1>4, FiniteImage
<1>6. QED
  BY <1>2, <1>3, <1>5, FS_Subset

--------------------------------------------------------------------------------
(* The storage chart *)
LEMMA PledgedOnDate ==
  ASSUME UsageInv, NEW dur, NEW d
  PROVE  /\ PledgedOn(dur, d) \in Nat
         /\ \A u \in usage : Trunc(dur, u.at) = d => u.pledged <= PledgedOn(dur, d)
         /\ PledgedOn(dur, d) # 0 =>
              \E u \in usage : Trunc(dur, u.at) = d /\ u.pledged = PledgedOn(dur, d)
<1> DEFINE R == {v \in usage : Trunc(dur, v.at) = d}
           f == [u \in usage |-> u.pledged]
           S == {0} \cup {f[u] : u \in R}
<1>1. PledgedOn(dur, d) = Max(S)
  BY DEF PledgedOn
<1>2. \A x \in S : x \in Nat
  BY DEF UsageInv
<1>3. IsFiniteSet(R)
  BY FS_Subset DEF UsageInv
<1>4. \A x \in S : x # 0 => \E u \in usage : Trunc(dur, u.at) = d /\ u.pledged = x
  OBVIOUS
<1>5. \A u \in R : u.pledged \in S
  OBVIOUS
<1>6. IsFiniteSet(S)
  <2>1. IsFiniteSet({f[u] : u \in R})
    <3> HIDE DEF f, R
    <3>1. QED
      BY <1>3, FiniteImage
  <2>2. QED
    BY <2>1, FS_AddElement
<1>7. 0 \in S
  OBVIOUS
<1> HIDE DEF S
<1>8. Max(S) \in S /\ \A x \in S : Max(S) >= x
  <2>1. S # {} /\ \A x \in S : x \in Int
    BY <1>2, <1>7
  <2>2. QED
    BY <1>6, <2>1, MaxOfFinite
<1>9. \A u \in R : u.pledged <= Max(S)
  <2>1. \A u \in R : u.pledged \in Nat /\ Max(S) \in Nat
    BY <1>2, <1>5, <1>8
  <2>2. QED
    BY <1>5, <1>8, <2>1
<1>10. QED
  BY <1>1, <1>2, <1>4, <1>8, <1>9

LEMMA PledgedGrows ==
  ASSUME UsageInv, now \in Nat, NEW dur \in Duration, NEW d \in Int, NEW e \in Int, e < d,
         PledgedOn(dur, d) # 0
  PROVE  PledgedOn(dur, e) <= PledgedOn(dur, d)
<1>1. PledgedOn(dur, d) \in Nat /\ PledgedOn(dur, e) \in Nat
  BY PledgedOnDate
<1>2. PICK v \in usage : Trunc(dur, v.at) = d /\ v.pledged = PledgedOn(dur, d)
  BY PledgedOnDate
<1>3. CASE PledgedOn(dur, e) # 0
  <2>1. PICK u \in usage : Trunc(dur, u.at) = e /\ u.pledged = PledgedOn(dur, e)
    BY <1>3, PledgedOnDate
  <2>2. u.at \in Int /\ v.at \in Int
    BY DEF UsageInv
  <2>3. ~ (v.at <= u.at)
    <3>1. SUFFICES ASSUME v.at <= u.at
                   PROVE  FALSE
      OBVIOUS
    <3>2. Trunc(dur, v.at) <= Trunc(dur, u.at)
      BY <2>2, <3>1, TruncIsMonotone
    <3>3. QED
      BY <1>2, <2>1, <3>2
  <2>4. u.at < v.at
    BY <2>2, <2>3
  <2>5. QED
    BY <1>2, <2>1, <2>4 DEF UsageInv
<1>4. QED
  BY <1>1, <1>3

(* amount::integer rounds half up. *)
LEMMA RoundingError ==
  ASSUME NEW a \in Nat
  PROVE  /\ Fine \in Nat \ {0} /\ AsInteger(a) \in Nat
         /\ 2 * (AsInteger(a) - a) <= Fine /\ 2 * (a - AsInteger(a)) <= Fine
<1> DEFINE f == Unit * Unit
<1>1. f \in Nat \ {0} /\ Fine = f
  BY StorageAssumption DEF Fine
<1>2. AsInteger(a) = ((2 * a + f) \div (2 * f)) * f
  BY <1>1 DEF AsInteger
<1> HIDE DEF f
<1>3. /\ ((2 * a + f) \div (2 * f)) * f \in Nat
      /\ 2 * ((2 * a + f) \div (2 * f)) * f - 2 * a <= f
      /\ 2 * a - 2 * ((2 * a + f) \div (2 * f)) * f <= f
  BY <1>1
<1> DEFINE q == (2 * a + f) \div (2 * f)
<1>4. q \in Nat
  BY <1>1
<1>5. AsInteger(a) = q * f /\ 2 * q * f - 2 * a <= f /\ 2 * a - 2 * q * f <= f
  BY <1>2, <1>3
<1> HIDE DEF q
<1> DEFINE p == q * f
<1>6. p \in Nat /\ 2 * q * f = 2 * p
  BY <1>1, <1>4
<1>7. AsInteger(a) = p /\ 2 * p - 2 * a <= f /\ 2 * a - 2 * p <= f
  BY <1>5, <1>6
<1> HIDE DEF p
<1>8. QED
  BY <1>1, <1>6, <1>7

(* What a date without pledges shows: the greatest rounded total so far. *)
LEMMA CarriedOver ==
  ASSUME UsageInv, now \in Nat, NEW dur \in Duration, NEW d \in DurationSeries(dur)
  PROVE  LET so == {x \in DurationSeries(dur) : x <= d}
             carried == Max({AsInteger(PledgedOn(dur, e)) : e \in so})
         IN  /\ carried \in Nat
             /\ \E x \in so : carried = AsInteger(PledgedOn(dur, x))
             /\ \A x \in so : AsInteger(PledgedOn(dur, x)) <= carried
<1> DEFINE so == {x \in DurationSeries(dur) : x <= d}
           f == [x \in so |-> AsInteger(PledgedOn(dur, x))]
           S == {f[x] : x \in so}
<1>1. \A x \in so : PledgedOn(dur, x) \in Nat
  BY PledgedOnDate
<1>2. \A x \in so : f[x] \in Nat
  BY <1>1, RoundingError
<1>3. d \in so
  BY SeriesIsFinite
<1>4. IsFiniteSet(so)
  BY SeriesIsFinite
<1>5. S = {AsInteger(PledgedOn(dur, e)) : e \in so}
  OBVIOUS
<1>6. \A x \in so : f[x] = AsInteger(PledgedOn(dur, x))
  OBVIOUS
<1> HIDE DEF f, so
<1>7. IsFiniteSet(S)
  BY <1>4, FiniteImage
<1>8. S # {} /\ \A x \in S : x \in Int
  BY <1>2, <1>3
<1> DEFINE m == Max(S)
<1>9. m \in S /\ \A x \in S : m >= x
  BY <1>7, <1>8, MaxOfFinite
<1> HIDE DEF m
<1>10. m \in Nat /\ \E x \in so : m = f[x]
  BY <1>2, <1>9
<1>11. \A x \in so : f[x] <= m
  BY <1>2, <1>9, <1>10
<1>12. m = Max({AsInteger(PledgedOn(dur, e)) : e \in so})
  BY <1>5 DEF m
<1>13. QED
  BY <1>6, <1>10, <1>11, <1>12 DEF so

LEMMA NeverDips == UsageInv /\ now \in Nat => StorageNeverDips
<1> SUFFICES ASSUME UsageInv, now \in Nat, NEW dur \in Duration,
                    NEW d \in DurationSeries(dur), NEW e \in DurationSeries(dur), e < d
             PROVE  2 * (HistoricalStorageAmount(dur)[e] - HistoricalStorageAmount(dur)[d])
                      <= Fine
  BY DEF StorageNeverDips, Older, HistoricalStorageAmount
<1> DEFINE P(x) == PledgedOn(dur, x)
           so(x) == {y \in DurationSeries(dur) : y <= x}
           carried(x) == Max({AsInteger(P(y)) : y \in so(x)})
           amount(x) == HistoricalStorageAmount(dur)[x]
<1>1. /\ d \in Int /\ e \in Int
      /\ \A x \in DurationSeries(dur) : x \in Int /\ P(x) \in Nat
  BY SeriesIsFinite, PledgedOnDate
<1>2. \A x \in DurationSeries(dur) : amount(x) = IF P(x) = 0 THEN carried(x) ELSE P(x)
  BY DEF HistoricalStorageAmount
<1>3. ASSUME NEW x \in DurationSeries(dur)
      PROVE  /\ AsInteger(P(x)) \in Nat
             /\ 2 * (AsInteger(P(x)) - P(x)) <= Fine /\ 2 * (P(x) - AsInteger(P(x))) <= Fine
  BY <1>1, RoundingError
<1>4. \A x \in DurationSeries(dur) :
        /\ carried(x) \in Nat
        /\ \E y \in so(x) : carried(x) = AsInteger(P(y))
        /\ \A y \in so(x) : AsInteger(P(y)) <= carried(x)
  BY CarriedOver
<1>5. Fine \in Nat /\ so(e) \subseteq so(d) /\ so(e) \subseteq DurationSeries(dur)
  <2>1. Fine \in Nat
    BY StorageAssumption DEF Fine
  <2>2. \A x \in DurationSeries(dur) : x \in Int /\ (x <= e => x <= d)
    BY <1>1
  <2>3. QED
    BY <2>1, <2>2
<1>6. \A y \in so(e) : y \in Int /\ y < d
  BY <1>1
<1>7. P(d) # 0 => P(e) <= P(d) /\ \A y \in so(e) : P(y) <= P(d)
  BY <1>1, <1>6, PledgedGrows
<1>8. PICK y \in so(e) : carried(e) = AsInteger(P(y))
  BY <1>4
<1>9. e \in so(d) /\ y \in so(d) /\ y \in DurationSeries(dur)
  BY <1>1, <1>5, <1>8
<1>10. AsInteger(P(e)) <= carried(d) /\ AsInteger(P(y)) <= carried(d) /\ carried(d) \in Nat
  BY <1>4, <1>9
<1>11. /\ amount(d) = IF P(d) = 0 THEN carried(d) ELSE P(d)
       /\ amount(e) = IF P(e) = 0 THEN AsInteger(P(y)) ELSE P(e)
  BY <1>2, <1>8
<1>12. /\ P(d) \in Nat /\ P(e) \in Nat /\ P(y) \in Nat
       /\ AsInteger(P(e)) \in Nat /\ AsInteger(P(y)) \in Nat
       /\ 2 * (P(e) - AsInteger(P(e))) <= Fine /\ 2 * (AsInteger(P(y)) - P(y)) <= Fine
  BY <1>1, <1>3, <1>9
<1>13. P(d) # 0 => P(e) <= P(d) /\ P(y) <= P(d)
  BY <1>7, <1>8
<1> DEFINE shownE == amount(e)
           shownD == amount(d)
<1> HIDE DEF P, carried, amount, so
<1>14. 2 * (amount(e) - amount(d)) <= Fine
  BY <1>5, <1>10, <1>11, <1>12, <1>13
<1>15. QED
  BY <1>14 DEF amount

(* The storage chart never falls, by more than the rounding of a date       *)
(* without a row (getHistoricalStorageAmount), whatever was ingested and    *)
(* materialized when.                                                       *)
THEOREM ChartNeverDips == Spec => []StorageNeverDips
<1>1. MatInv => StorageNeverDips
  BY NeverDips DEF MatInv, IngestionInv
<1>2. QED
  BY <1>1, MatHolds, PTL

--------------------------------------------------------------------------------
(* The divisions of the queries *)
Defined(r) == r[1] \in Int /\ r[2] \in Nat \ {0}

LEMMA FiniteTables ==
  ASSUME IngestionInv
  PROVE  /\ IsFiniteSet(Blocks) /\ IsFiniteSet(Messages) /\ IsFiniteSet(UniqueMessages)
         /\ \A r \in Messages : r[2] \in MessageRow
BY TableRows, AllRows, FS_Subset

LEMMA AskAverage ==
  ASSUME IngestionInv, NEW S \in SUBSET Asks
  PROVE  Defined(AverageOf(S, Price))
<1>1. /\ IsFiniteSet(S) /\ \A r \in S : r[2] \in MessageRow
  BY FiniteTables, FS_Subset DEF Asks
<1>2. Cardinality(S) \in Nat /\ (Cardinality(S) = 0 <=> S = {})
  BY <1>1, FS_CardinalityType, FS_EmptySet
<1>3. Total(Price, S) \in Int
  <2> DEFINE f == [r \in S |-> r[2].price]
  <2>1. Total(Price, S) = SumOver(f, S)
    BY DEF Total, SumOver, MapThenSumSet, MapThenFoldSet, Price
  <2>2. \A r \in S : f[r] \in Int
    BY <1>1 DEF MessageRow
  <2> HIDE DEF f
  <2>3. QED
    BY <1>1, <2>1, <2>2, SumStep
<1>4. QED
  BY <1>2, <1>3 DEF AverageOf, Defined

LEMMA TrendDefined ==
  ASSUME NEW points, IsFiniteSet(DOMAIN points), DOMAIN points \subseteq Int,
         \A d \in DOMAIN points : Defined(points[d])
  PROVE  Trend(points)[2] > 0
<1> DEFINE last == Max(DOMAIN points)
           before == DOMAIN points \ {last}
           ultimate == points[last]
           previous == IF before = {} THEN <<0, 1>> ELSE points[Max(before)]
<1>1. CASE DOMAIN points = {}
  BY <1>1 DEF Trend
<1>2. CASE DOMAIN points # {}
  <2>1. last \in DOMAIN points
    BY <1>2, MaxOfFinite
  <2>2. before # {} => Max(before) \in before
    <3>1. IsFiniteSet(before) /\ \A x \in before : x \in Int
      BY FS_Subset
    <3>2. QED
      BY <3>1, MaxOfFinite
  <2>3. Trend(points) =
          IF Greater(previous, <<0, 1>>)
            THEN <<ultimate[1] * previous[2] - previous[1] * ultimate[2],
                   previous[1] * ultimate[2]>>
            ELSE <<IF Greater(ultimate, <<0, 1>>) THEN 1 ELSE 0, 1>>
    BY <1>2 DEF Trend, LastAmount, Before
  <2>4. ultimate[2] \in Nat \ {0}
    BY <2>1 DEF Defined
  <2>5. previous[1] \in Int /\ previous[2] \in Int
    BY <2>2 DEF Defined
  <2>6. Greater(previous, <<0, 1>>) => previous[1] > 0
    <3> DEFINE a == previous[1]
               b == previous[2]
    <3>1. Greater(previous, <<0, 1>>) <=> a * 1 > 0 * b
      BY DEF Greater
    <3>2. a \in Int /\ b \in Int
      BY <2>5
    <3> HIDE DEF a, b
    <3>3. a * 1 > 0 * b => a > 0
      BY <3>2
    <3>4. QED
      BY <3>1, <3>3 DEF a
  <2>7. Greater(previous, <<0, 1>>) => previous[1] * ultimate[2] > 0
    <3> DEFINE a == previous[1]
               b == ultimate[2]
    <3>1. a \in Int /\ b \in Nat \ {0}
      BY <2>4, <2>5
    <3>2. Greater(previous, <<0, 1>>) => a > 0
      BY <2>6
    <3> HIDE DEF a, b
    <3>3. a > 0 => a * b > 0
      BY <3>1
    <3>4. QED
      BY <3>2, <3>3 DEF a, b
  <2> HIDE DEF ultimate, previous
  <2>8. QED
    BY <2>3, <2>7
<1>3. QED
  BY <1>1, <1>2

LEMMA StoragePriceDefined ==
  ASSUME IngestionInv, NEW dur \in Duration
  PROVE  \A d \in DOMAIN HistoricalStoragePrice(dur) : Defined(HistoricalStoragePrice(dur)[d])
<1> SUFFICES ASSUME NEW d \in DurationSeries(dur)
             PROVE  Defined(HistoricalStoragePrice(dur)[d])
  BY DEF HistoricalStoragePrice
<1>1. HistoricalStoragePrice(dur)[d] = AverageOf({a \in Asks : Trunc(dur, SentAt(a)) = d}, Price)
  BY DEF HistoricalStoragePrice
<1>2. {a \in Asks : Trunc(dur, SentAt(a)) = d} \in SUBSET Asks
  OBVIOUS
<1>3. Defined(AverageOf({a \in Asks : Trunc(dur, SentAt(a)) = d}, Price))
  BY <1>2, AskAverage
<1>4. QED
  BY <1>1, <1>3

LEMMA UtilizationDefined ==
  ASSUME UsageInv, NEW dur \in Duration
  PROVE  \A d \in DOMAIN HistoricalUtilization(dur) : HistoricalUtilization(dur)[d][2] > 0
<1> DEFINE of(d) == {u \in usage : Trunc(dur, u.at) = d /\ u.pledged > 0}
<1> SUFFICES ASSUME NEW d \in DurationSeries(dur), of(d) # {}
             PROVE  HistoricalUtilization(dur)[d][2] > 0
  BY DEF HistoricalUtilization
<1>1. HistoricalUtilization(dur)[d][2] = Max({u.pledged : u \in of(d)})
  BY DEF HistoricalUtilization
<1> DEFINE f == [u \in usage |-> u.pledged]
           S == {f[u] : u \in of(d)}
<1>2. S = {u.pledged : u \in of(d)} /\ S # {}
  OBVIOUS
<1>3. \A x \in S : x \in Nat /\ x > 0
  BY DEF UsageInv
<1>4. IsFiniteSet(of(d))
  BY FS_Subset DEF UsageInv
<1> HIDE DEF of, f
<1>5. IsFiniteSet(S)
  BY <1>4, FiniteImage
<1> HIDE DEF S
<1>6. Max(S) \in S
  <2>1. S # {} /\ \A x \in S : x \in Int
    BY <1>2, <1>3
  <2>2. QED
    BY <1>5, <2>1, MaxOfFinite
<1>7. QED
  BY <1>1, <1>2, <1>3, <1>6

LEMMA ClassDefined ==
  ASSUME IngestionInv, NEW op
  PROVE  LET class == CostCapacityBySize(op)
         IN  /\ \A p \in DOMAIN class.utilization : class.utilization[p][2] > 0
             /\ class.averageCapacityGB[2] > 0 /\ class.averageStoragePrice[2] > 0
<1> DEFINE amount == Capacities(UniqueMessages)
           class == {p \in DOMAIN amount : InClass(amount[p], op)}
           commits(p) == {r \in UniqueMessages : r[2].method = "commitSector" /\ r[2].from = p}
           committed(p) == Gigabytes(Cardinality(commits(p)))
           busy == {p \in class : committed(p) > 0 /\ committed(p) < amount[p]}
<1>1. /\ CostCapacityBySize(op).averageCapacityGB = AverageOf(class, LAMBDA p : amount[p])
      /\ CostCapacityBySize(op).averageStoragePrice =
           AverageOf({a \in Asks : a[2].from \in class}, Price)
      /\ CostCapacityBySize(op).utilization = [p \in busy |-> <<committed(p), amount[p]>>]
  BY DEF CostCapacityBySize
<1>2. DOMAIN amount = PledgersOf(UniqueMessages)
  BY DEF Capacities
<1>3. ASSUME NEW p \in DOMAIN amount
      PROVE  amount[p] \in Int /\ committed(p) \in Int
  <2> DEFINE S == {r \in Pledges(UniqueMessages) : r[2].from = p}
  <2>1. S \in SUBSET AllMessages
    BY TableRows DEF Pledges
  <2>2. Total(Value, S) \in Nat
    <3> HIDE DEF S
    <3>1. QED
      BY <2>1, TotalOfValues
  <2>3. amount[p] = Gigabytes(Total(Value, S))
    BY <1>3 DEF Capacities
  <2>4. IsFiniteSet(commits(p))
    BY FiniteTables, FS_Subset
  <2>5. Cardinality(commits(p)) \in Nat
    BY <2>4, FS_CardinalityType
  <2> DEFINE n == Total(Value, S)
             k == Cardinality(commits(p))
  <2>6. n \in Nat /\ k \in Nat /\ amount[p] = Gigabytes(n) /\ committed(p) = Gigabytes(k)
    BY <2>2, <2>3, <2>5
  <2> HIDE DEF n, k, amount, committed
  <2>7. QED
    BY <2>6, StorageAssumption DEF Gigabytes
<1>4. \A p \in busy : amount[p] > 0
  <2> HIDE DEF amount, committed
  <2>1. QED
    BY <1>3
<1>5. AverageOf(class, LAMBDA p : amount[p])[2] > 0
  <2>1. IsFiniteSet(class)
    <3> DEFINE f == [r \in Pledges(UniqueMessages) |-> r[2].from]
    <3>1. IsFiniteSet(Pledges(UniqueMessages))
      BY FiniteTables, FS_Subset DEF Pledges
    <3>2. {f[r] : r \in Pledges(UniqueMessages)} = PledgersOf(UniqueMessages)
      BY DEF PledgersOf
    <3> HIDE DEF f
    <3>3. IsFiniteSet(PledgersOf(UniqueMessages))
      <4>1. IsFiniteSet({f[r] : r \in Pledges(UniqueMessages)})
        BY <3>1, FiniteImage
      <4>2. QED
        BY <3>2, <4>1
    <3>4. class \subseteq PledgersOf(UniqueMessages)
      BY <1>2
    <3>5. QED
      BY <3>3, <3>4, FS_Subset
  <2> HIDE DEF class, amount
  <2>2. Cardinality(class) \in Nat /\ (Cardinality(class) = 0 <=> class = {})
    BY <2>1, FS_CardinalityType, FS_EmptySet
  <2>3. AverageOf(class, LAMBDA p : amount[p])[2] =
          IF class = {} THEN 1 ELSE Cardinality(class)
    BY DEF AverageOf
  <2>4. QED
    BY <2>2, <2>3
<1>6. AverageOf({a \in Asks : a[2].from \in class}, Price)[2] > 0
  <2> HIDE DEF class
  <2>1. {a \in Asks : a[2].from \in class} \in SUBSET Asks
    OBVIOUS
  <2>2. Defined(AverageOf({a \in Asks : a[2].from \in class}, Price))
    BY <2>1, AskAverage
  <2>3. QED
    BY <2>2 DEF Defined
<1> HIDE DEF amount, class, committed
<1>7. QED
  BY <1>1, <1>4, <1>5, <1>6

LEMMA BlockTimesDefined ==
  ASSUME IngestionInv
  PROVE  \A r \in AverageBlockTimes : r[2] > 0
<1> SUFFICES ASSUME NEW T \in Tops(Blocks, HeightOf, TimedBlocks)
             PROVE  AverageBlockTime(T)[2] > 0
  BY DEF AverageBlockTimes
<1>1. T \subseteq Blocks
  BY DEF Tops
<1>2. Cardinality(T) \in Nat
  BY <1>1, FiniteTables, FS_Subset, FS_CardinalityType
<1>3. QED
  BY <1>2 DEF AverageBlockTime

LEMMA NoDivisionByZero ==
  ASSUME MatInv
  PROVE  EveryRatioDefined
<1>1. IngestionInv /\ UsageInv /\ now \in Nat /\ "MONTH" \in Duration
  BY DEF MatInv, IngestionInv, Duration
<1>2. ASSUME NEW dur \in Duration, NEW r \in Values(HistoricalStoragePrice(dur))
      PROVE  r[2] > 0
  BY <1>1, StoragePriceDefined DEF Values, Defined
<1>3. ASSUME NEW dur \in Duration, NEW r \in Values(HistoricalCollateralPerGB(dur))
      PROVE  r[2] > 0
  BY DEF Values, HistoricalCollateralPerGB
<1>4. ASSUME NEW dur \in Duration, NEW r \in Values(HistoricalUtilization(dur))
      PROVE  r[2] > 0
  BY <1>1, UtilizationDefined DEF Values
<1>5. ASSUME NEW op \in {"lt", "gte"},
             NEW r \in Values(CostCapacityBySize(op).utilization)
                         \cup {CostCapacityBySize(op).averageCapacityGB,
                               CostCapacityBySize(op).averageStoragePrice}
      PROVE  r[2] > 0
  BY <1>1, ClassDefined DEF Values
<1>6. ASSUME NEW r \in Values(CollateralPerGBOfDays)
      PROVE  r[2] > 0
  <2> DEFINE rows(d) == PledgesOn("MONTH", d, UniqueMessages)
             gb(d) == Gigabytes(Total(LAMBDA m : m[2].sectors, rows(d)))
             ratio(d) == IF gb(d) > 0 THEN <<Total(Value, rows(d)), gb(d)>> ELSE <<0, 1>>
             days == {Trunc("MONTH", SentAt(m)) : m \in Pledges(UniqueMessages)}
  <2>1. CollateralPerGBOfDays = [d \in days |-> ratio(d)]
    BY DEF CollateralPerGBOfDays
  <2>2. \A d : ratio(d)[2] > 0
    <3> HIDE DEF rows, gb
    <3>1. QED
      OBVIOUS
  <2> HIDE DEF ratio, days
  <2>3. QED
    BY <2>1, <2>2 DEF Values
<1>7. \A r \in AverageBlockTimes : r[2] > 0
  BY <1>1, BlockTimesDefined
<1>8. AmountStats.trend[2] > 0
  <2> DEFINE data == HistoricalStorageAmount("MONTH")
             points == [d \in DOMAIN data |-> <<data[d], 1>>]
  <2>1. AmountStats.trend = Trend(points)
    BY DEF AmountStats
  <2>2. DOMAIN points = DurationSeries("MONTH")
    BY DEF HistoricalStorageAmount
  <2>3. ASSUME NEW d \in DurationSeries("MONTH")
        PROVE  data[d] \in Int
    <3>1. PledgedOn("MONTH", d) \in Nat
      BY <1>1, PledgedOnDate
    <3>2. PledgedOn("MONTH", d) = 0 =>
            data[d] = Max({AsInteger(PledgedOn("MONTH", e)) :
                             e \in {x \in DurationSeries("MONTH") : x <= d}})
      BY DEF HistoricalStorageAmount
    <3>3. PledgedOn("MONTH", d) # 0 => data[d] = PledgedOn("MONTH", d)
      BY DEF HistoricalStorageAmount
    <3>4. Max({AsInteger(PledgedOn("MONTH", e)) :
                 e \in {x \in DurationSeries("MONTH") : x <= d}}) \in Nat
      BY <1>1, CarriedOver
    <3>5. QED
      BY <3>1, <3>2, <3>3, <3>4
  <2>4. \A d \in DOMAIN points : Defined(points[d])
    BY <2>2, <2>3 DEF Defined
  <2> HIDE DEF points
  <2>5. QED
    BY <1>1, <2>1, <2>2, <2>4, SeriesIsFinite, TrendDefined
<1>9. CostStats.average[2] > 0 /\ CostStats.trend[2] > 0
  <2> DEFINE month == Reach["MONTH"] * Granule["MONTH"]
             recent == {a \in Asks : SentAt(a) > Trunc("MONTH", now) - month}
  <2>1. /\ CostStats.average = AverageOf(recent, Price)
        /\ CostStats.trend = Trend(HistoricalStoragePrice("MONTH"))
    BY DEF CostStats
  <2>2. recent \in SUBSET Asks
    OBVIOUS
  <2> HIDE DEF recent
  <2>3. Defined(AverageOf(recent, Price))
    BY <1>1, <2>2, AskAverage
  <2>4. Trend(HistoricalStoragePrice("MONTH"))[2] > 0
    <3>1. DOMAIN HistoricalStoragePrice("MONTH") = DurationSeries("MONTH")
      BY DEF HistoricalStoragePrice
    <3>2. \A d \in DOMAIN HistoricalStoragePrice("MONTH") :
            Defined(HistoricalStoragePrice("MONTH")[d])
      BY <1>1, StoragePriceDefined
    <3>3. QED
      BY <1>1, <3>1, <3>2, SeriesIsFinite, TrendDefined
  <2>5. QED
    BY <2>1, <2>3, <2>4 DEF Defined
<1>10. ASSUME NEW r \in Ratios
       PROVE  r[2] > 0
  <2> DEFINE ofDates(dur) == Values(HistoricalStoragePrice(dur))
                               \cup Values(HistoricalCollateralPerGB(dur))
                               \cup Values(HistoricalUtilization(dur))
             ofClass(op) == Values(CostCapacityBySize(op).utilization)
                              \cup {CostCapacityBySize(op).averageCapacityGB,
                                    CostCapacityBySize(op).averageStoragePrice}
             rest == {AmountStats.trend, CostStats.average, CostStats.trend}
             datesOfAll == UNION {ofDates(dur) : dur \in Duration}
             classes == UNION {ofClass(op) : op \in {"lt", "gte"}}
  <2>1. Ratios = datesOfAll \cup classes
                   \cup Values(CollateralPerGBOfDays) \cup AverageBlockTimes \cup rest
    BY DEF Ratios
  <2>2. \A dur \in Duration : \A x \in ofDates(dur) : x[2] > 0
    BY <1>2, <1>3, <1>4
  <2>3. \A op \in {"lt", "gte"} : \A x \in ofClass(op) : x[2] > 0
    BY <1>5
  <2>4. \A x \in rest : x[2] > 0
    BY <1>8, <1>9
  <2> HIDE DEF ofDates, ofClass, rest
  <2>5. CASE r \in datesOfAll
    BY <2>2, <2>5
  <2>6. CASE r \in classes
    BY <2>3, <2>6
  <2>7. CASE r \in Values(CollateralPerGBOfDays)
    BY <1>6, <2>7
  <2>8. CASE r \in AverageBlockTimes
    BY <1>7, <2>8
  <2>9. CASE r \in rest
    BY <2>4, <2>9
  <2> HIDE DEF datesOfAll, classes
  <2>10. QED
    BY <2>1, <2>5, <2>6, <2>7, <2>8, <2>9
<1>11. QED
  BY <1>10 DEF EveryRatioDefined

(* No query of the stats divides by zero, whatever was ingested and         *)
(* materialized when (the divisions of StorageStatsDAO.ts and of            *)
(* MiningStatsDAO.ts): /sync answers.                                       *)
THEOREM NoQueryDividesByZero == Spec => []EveryRatioDefined
BY MatHolds, NoDivisionByZero, PTL

--------------------------------------------------------------------------------
(* The totals: division by a variable, then what is added up *)
LEMMA DivMod ==
  ASSUME NEW a \in Int, NEW g \in Nat \ {0}
  PROVE  a \div g \in Int /\ a % g \in 0..g - 1 /\ a = g * (a \div g) + (a % g)
OBVIOUS
LEMMA DivLess ==
  ASSUME NEW a \in Int, NEW b \in Int, NEW g \in Nat \ {0}, a <= b
  PROVE  a \div g <= b \div g
OBVIOUS
LEMMA MulDiv ==
  ASSUME NEW q \in Int, NEW g \in Nat \ {0}
  PROVE  (g * q) \div g = q
OBVIOUS
LEMMA StepsBack ==
  ASSUME NEW t \in Int, NEW n \in Int, NEW g \in Nat \ {0}, NEW m \in Nat,
         t <= n, t >= n - (n % g) - g * m
  PROVE  \E k \in 0..m : t - (t % g) = n - (n % g) - k * g
<1> DEFINE p == n \div g
           q == t \div g
           k == p - q
<1>1. /\ p \in Int /\ q \in Int
      /\ n - (n % g) = g * p /\ t - (t % g) = g * q
  <2>1. p \in Int /\ q \in Int /\ n % g \in Int /\ t % g \in Int
    BY DivMod
  <2>2. n = g * p + (n % g) /\ t = g * q + (t % g)
    BY DivMod
  <2> HIDE DEF p, q
  <2>3. n - (n % g) = g * p /\ t - (t % g) = g * q
    BY <2>1, <2>2
  <2>4. QED
    BY <2>1, <2>3
<1>2. q <= p
  BY DivLess
<1>3. p - m <= q
  <2>1. t >= g * p - g * m
    BY <1>1
  <2> HIDE DEF p
  <2>2. g * p - g * m = g * (p - m) /\ p - m \in Int
    BY <1>1
  <2>3. (g * (p - m)) \div g = p - m
    BY <2>2, MulDiv
  <2>4. g * (p - m) \in Int /\ g * (p - m) <= t
    BY <2>1, <2>2
  <2>5. (g * (p - m)) \div g <= t \div g
    BY <2>4, DivLess
  <2>6. QED
    BY <2>3, <2>5
<1> HIDE DEF p, q
<1>4. k \in 0..m
  BY <1>1, <1>2, <1>3
<1>5. g * q = g * p - k * g
  BY <1>1
<1>6. QED
  BY <1>1, <1>4, <1>5

LEMMA ScriptHeights ==
  /\ DOMAIN Script = 1..Len(Script) /\ Len(Script) \in Nat
  /\ \A t \in DOMAIN Script :
       /\ Script[t].height \in Nat
       /\ Len(Script[t].blocks) \in Nat \ {0}
       /\ BlocksOf[t] = {t} \X (1..Len(Script[t].blocks))
  /\ \A t, u \in DOMAIN Script : t < u => Script[t].height < Script[u].height
<1>1. ASSUME NEW t \in DOMAIN Script
      PROVE  /\ Script[t].height \in Nat
             /\ Len(Script[t].blocks) \in Nat \ {0}
             /\ BlocksOf[t] = {t} \X (1..Len(Script[t].blocks))
  <2> DEFINE B == Seq([miner : STRING, sent : SUBSET MessageRow])
             R == [height : Nat, blocks : B]
             q == Script[t].blocks
  <2>1. Script \in Seq(R)
    BY ScriptAssumption
  <2> HIDE DEF B, R
  <2>2. DOMAIN Script = 1..Len(Script) /\ \A i \in 1..Len(Script) : Script[i] \in R
    BY <2>1
  <2>3. Script[t] \in R
    BY <2>2
  <2>4. Script[t].height \in Nat /\ q \in B
    BY <2>3 DEF R
  <2>5. q # <<>>
    BY ScriptAssumption
  <2>6. Len(q) \in Nat \ {0} /\ DOMAIN q = 1..Len(q)
    <3> DEFINE p == q
    <3>1. p \in Seq([miner : STRING, sent : SUBSET MessageRow]) /\ p # <<>>
      BY <2>4, <2>5 DEF B
    <3> HIDE DEF p
    <3>2. Len(p) \in Nat /\ Len(p) # 0 /\ DOMAIN p = 1..Len(p)
      BY <3>1, LenProperties, EmptySeq
    <3>3. QED
      BY <3>2 DEF p
  <2>7. BlocksOf[t] = {t} \X (1..Len(q))
    BY <2>6 DEF BlocksOf
  <2>8. QED
    BY <2>4, <2>6, <2>7
<1>2. QED
  BY <1>1, ScriptAssumption, LenProperties

LEMMA LastBlocks ==
  ASSUME IngestionInv, NEW b \in Blocks,
         \A c \in Blocks \ {b} : HeightOf(b) >= HeightOf(c)
  PROVE  /\ \A c \in Blocks : TimeOf(c) <= TimeOf(b)
         /\ Cardinality({c \in Blocks : HeightOf(c) = HeightOf(b)}) = Len(Script[Tip].blocks)
<1>1. /\ Tip \in Nat /\ Tip <= Len(Script) /\ DOMAIN ingestedAt = 1..Tip
      /\ \A i \in 1..Tip : ingestedAt[i] \in Nat
      /\ \A i, j \in 1..Tip : i < j => ingestedAt[i] <= ingestedAt[j]
  BY LenProperties DEF IngestionInv, Tip
<1>2. \A t \in 1..Tip : /\ t \in DOMAIN Script /\ Script[t].height \in Nat
                        /\ Len(Script[t].blocks) \in Nat \ {0}
                        /\ BlocksOf[t] = {t} \X (1..Len(Script[t].blocks))
  BY <1>1, ScriptHeights
<1>3. \A c \in Blocks : c[1] \in 1..Tip
  BY TableRows
<1>4. \A t \in 1..Tip : \A i \in 1..Len(Script[t].blocks) : <<t, i>> \in Blocks
  BY <1>1, <1>2 DEF Blocks, Table
<1>5. b[1] = Tip
  <2>1. SUFFICES ASSUME b[1] # Tip
                 PROVE  FALSE
    OBVIOUS
  <2>2. b[1] \in 1..Tip /\ b[1] < Tip /\ Tip \in 1..Tip
    BY <1>1, <1>3, <2>1
  <2> DEFINE c == <<Tip, 1>>
  <2>3. c \in Blocks /\ c[1] = Tip
    BY <1>2, <1>4, <2>2
  <2>4. HeightOf(b) >= HeightOf(c)
    BY <2>1, <2>3
  <2>5. Script[b[1]].height < Script[Tip].height
    BY <1>2, <2>2, ScriptHeights
  <2>6. QED
    BY <1>2, <2>2, <2>3, <2>4, <2>5 DEF HeightOf
<1>6. \A c \in Blocks : TimeOf(c) <= TimeOf(b)
  <2>1. ASSUME NEW c \in Blocks
        PROVE  ingestedAt[c[1]] <= ingestedAt[Tip]
    <3>1. c[1] \in 1..Tip /\ Tip \in 1..Tip
      BY <1>1, <1>3
    <3>2. CASE c[1] = Tip
      BY <1>1, <3>1, <3>2
    <3>3. CASE c[1] < Tip
      BY <1>1, <3>1, <3>3
    <3>4. QED
      BY <1>1, <3>1, <3>2, <3>3
  <2>2. QED
    BY <1>5, <2>1 DEF TimeOf
<1>7. {c \in Blocks : HeightOf(c) = HeightOf(b)} = {Tip} \X (1..Len(Script[Tip].blocks))
  <2>1. Tip \in 1..Tip
    BY <1>3, <1>5
  <2>2. ASSUME NEW c \in Blocks
        PROVE  HeightOf(c) = HeightOf(b) <=> c[1] = Tip
    <3>1. c[1] \in DOMAIN Script /\ Tip \in DOMAIN Script /\ c[1] \in 1..Tip
      BY <1>2, <1>3, <2>1
    <3>2. c[1] # Tip => c[1] < Tip
      BY <1>1, <3>1
    <3>3. c[1] # Tip => Script[c[1]].height < Script[Tip].height
      BY <3>1, <3>2, ScriptHeights
    <3>4. Script[c[1]].height \in Nat /\ Script[Tip].height \in Nat
      BY <3>1, ScriptHeights
    <3>5. QED
      BY <1>5, <3>3, <3>4 DEF HeightOf
  <2>3. \A c \in Blocks : c \in BlocksOf[c[1]]
    <3>1. ASSUME NEW c \in Blocks
          PROVE  c \in BlocksOf[c[1]]
      <4>1. PICK t \in 1..Tip : c \in BlocksOf[t]
        BY <1>1 DEF Blocks, Table
      <4>2. c[1] = t
        BY <1>2, <4>1
      <4>3. QED
        BY <4>1, <4>2
    <3>2. QED
      BY <3>1
  <2>4. BlocksOf[Tip] = {Tip} \X (1..Len(Script[Tip].blocks)) /\ BlocksOf[Tip] \subseteq Blocks
    BY <1>1, <1>2, <2>1 DEF Blocks, Table
  <2>5. \A c \in BlocksOf[Tip] : c[1] = Tip
    BY <2>4
  <2>6. QED
    BY <2>2, <2>3, <2>4, <2>5
<1>8. Cardinality({Tip} \X (1..Len(Script[Tip].blocks))) = Len(Script[Tip].blocks)
  <2> DEFINE n == Len(Script[Tip].blocks)
  <2>1. n \in Nat
    BY <1>2, <1>3, <1>5
  <2> HIDE DEF n
  <2>2. IsFiniteSet(1..n) /\ Cardinality(1..n) = n
    BY <2>1, FS_Interval
  <2>3. IsFiniteSet({Tip}) /\ Cardinality({Tip}) = 1
    BY FS_Singleton
  <2>4. Cardinality({Tip} \X (1..n)) = 1 * n
    BY <2>2, <2>3, FS_Product
  <2>5. QED
    BY <2>1, <2>4 DEF n
<1>9. QED
  BY <1>6, <1>7, <1>8

LEMMA TipOfStats == IngestionInv => TipAgrees
<1> DEFINE tops == Tops(Blocks, HeightOf, 1)
           row(b) == [lastBlockHeight |-> HeightOf(b), lastBlockTime |-> TimeOf(b),
                      minerAddress |-> MinerOf(b),
                      blocksInTipset |-> Cardinality({c \in Blocks : HeightOf(c) = HeightOf(b)})]
           agrees(b) == /\ \A c \in Blocks : TimeOf(c) <= TimeOf(b)
                        /\ Cardinality({c \in Blocks : HeightOf(c) = HeightOf(b)})
                             = Len(Script[Tip].blocks)
<1> SUFFICES ASSUME IngestionInv, NEW T \in tops, NEW b \in T
             PROVE  agrees(b)
  <2>1. MiningStats = {row(b) : b \in UNION tops}
    BY DEF MiningStats
  <2>2. \A b : agrees(b) => /\ \A c \in Blocks : TimeOf(c) <= row(b).lastBlockTime
                            /\ row(b).blocksInTipset = Len(Script[Tip].blocks)
    OBVIOUS
  <2> HIDE DEF tops, row, agrees
  <2>3. QED
    BY <2>1, <2>2 DEF TipAgrees
<1>1. /\ T \subseteq Blocks /\ Cardinality(T) = Min({1, Cardinality(Blocks)})
      /\ \A x \in T, y \in Blocks \ T : HeightOf(x) >= HeightOf(y)
  BY DEF Tops
<1> HIDE DEF tops
<1>2. IsFiniteSet(Blocks) /\ IsFiniteSet(T)
  BY <1>1, FiniteTables, FS_Subset
<1>3. Cardinality(Blocks) \in Nat \ {0}
  BY <1>1, <1>2, FS_CardinalityType, FS_EmptySet
<1>4. Min({1, Cardinality(Blocks)}) = 1
  <2> DEFINE n == Cardinality(Blocks)
  <2>1. n \in Nat \ {0}
    BY <1>3
  <2> HIDE DEF n
  <2>2. Min({1, n}) = 1
    BY <2>1 DEF Min
  <2>3. QED
    BY <2>2 DEF n
<1>5. T = {b}
  BY <1>1, <1>2, <1>4, FS_Singleton
<1>6. QED
  BY <1>1, <1>5, LastBlocks

--------------------------------------------------------------------------------
(* The coins in circulation *)
LEMMA CirculationRows ==
  ASSUME IngestionInv, CirculationInv, NEW dur
  PROVE  CirculationAgrees(dur)
<1> SUFFICES ASSUME NEW d \in DurationSeries(dur)
             PROVE  LET point == CoinsInCirculation(dur)[d]
                    IN  IF point.coinsInCollateral = NaN
                          THEN \E c \in circulation : c.collateral = NaN
                          ELSE /\ point.coinsInCollateral <= PledgedTotal
                               /\ point.liquidCoins + point.coinsInCollateral <= Reward(Blocks)
  BY DEF CirculationAgrees, Values, CoinsInCirculation, PledgedTotal
<1> DEFINE of == {c \in circulation : Trunc(dur, c.at) = d}
           held == {c.collateral : c \in of}
           made == {c.coins : c \in of}
           a == Greatest(held)
           b == Greatest(made)
<1>1. CoinsInCirculation(dur)[d] =
        [coinsInCollateral |-> a, liquidCoins |-> IF a = NaN THEN NaN ELSE b - a]
  BY DEF CoinsInCirculation
<1>2. /\ \A c \in circulation :
           /\ c.collateral \in Nat \cup {NaN} /\ c.coins \in Nat /\ c.coins <= Reward(Blocks)
           /\ c.collateral # NaN => c.collateral <= PledgedTotal
      /\ NaN \notin Int
  BY TablesAssumption DEF CirculationInv, PledgedTotal
<1>3. PledgedTotal \in Nat /\ Reward(Blocks) \in Nat
  <2>1. Pledges(UniqueMessages) \in SUBSET AllMessages
    BY TableRows DEF Pledges
  <2>2. PledgedTotal \in Nat
    BY <2>1, TotalOfValues DEF PledgedTotal
  <2>3. Cardinality(Blocks) \in Nat
    BY FiniteTables, FS_CardinalityType
  <2>4. Reward(Blocks) \in Nat
    BY <2>3, TokenAssumption DEF Reward
  <2>5. QED
    BY <2>2, <2>4
<1>4. IsFiniteSet(held) /\ IsFiniteSet(made)
  <2> DEFINE f == [c \in circulation |-> c.collateral]
             g == [c \in circulation |-> c.coins]
  <2>1. IsFiniteSet(of)
    BY FS_Subset DEF CirculationInv
  <2>2. held = {f[c] : c \in of} /\ made = {g[c] : c \in of}
    OBVIOUS
  <2> HIDE DEF f, g, of
  <2>3. IsFiniteSet({f[c] : c \in of}) /\ IsFiniteSet({g[c] : c \in of})
    BY <2>1, FiniteImage
  <2>4. QED
    BY <2>2, <2>3
<1>5. ASSUME NEW S, IsFiniteSet(S), NEW top \in Nat,
             \A x \in S : x # NaN => x \in Nat /\ x <= top
      PROVE  /\ Greatest(S) = NaN => NaN \in S
             /\ Greatest(S) # NaN => Greatest(S) \in Nat /\ Greatest(S) <= top
  <2>1. CASE NaN \in S
    BY <2>1 DEF Greatest
  <2>2. CASE NaN \notin S
    <3>1. \A x \in {0} \cup S : x \in Nat /\ x <= top
      BY <1>5, <2>2
    <3>2. IsFiniteSet({0} \cup S) /\ {0} \cup S # {}
      BY <1>5, FS_AddElement
    <3> DEFINE U == {0} \cup S
               m == Max(U)
    <3>3. m \in U
      <4>1. IsFiniteSet(U) /\ U # {} /\ \A x \in U : x \in Int
        BY <3>1, <3>2
      <4> HIDE DEF U
      <4>2. QED
        BY <4>1, MaxOfFinite
    <3>4. Greatest(S) = m
      BY <2>2 DEF Greatest
    <3> HIDE DEF m
    <3>5. QED
      BY <1>2, <3>1, <3>3, <3>4
  <2>3. QED
    BY <2>1, <2>2
<1>6. /\ a = NaN => NaN \in held
      /\ a # NaN => a \in Nat /\ a <= PledgedTotal
  <2>1. \A x \in held : x # NaN => x \in Nat /\ x <= PledgedTotal
    BY <1>2
  <2> HIDE DEF held
  <2>2. QED
    BY <1>3, <1>4, <1>5, <2>1
<1>7. b \in Nat /\ b <= Reward(Blocks)
  <2>1. \A x \in made : x # NaN /\ x \in Nat /\ x <= Reward(Blocks)
    BY <1>2
  <2> HIDE DEF made
  <2>2. /\ b = NaN => NaN \in made
        /\ b # NaN => b \in Nat /\ b <= Reward(Blocks)
    BY <1>3, <1>4, <1>5, <2>1
  <2>3. QED
    BY <2>1, <2>2
<1>8. NaN \in held => \E c \in circulation : c.collateral = NaN
  OBVIOUS
<1> HIDE DEF a, b, held
<1>9. QED
  BY <1>1, <1>3, <1>6, <1>7, <1>8

--------------------------------------------------------------------------------
(* A chart that goes back to the first block *)
GoesBack(dur) ==
  /\ Blocks # {}
  /\ \A b \in Blocks : TimeOf(b) >= Trunc(dur, now) - Granule[dur] * Reach[dur]

LEMMA BlockTimes ==
  ASSUME IngestionInv
  PROVE  \A b \in Blocks : TimeOf(b) \in Nat /\ TimeOf(b) <= now
<1>1. /\ Tip \in Nat /\ \A i \in 1..Tip : ingestedAt[i] \in 0..now
  BY LenProperties DEF IngestionInv, Tip
<1>2. \A b \in Blocks : b[1] \in 1..Tip
  BY TableRows
<1>3. QED
  BY <1>1, <1>2 DEF TimeOf, IngestionInv

LEMMA SeriesHasAll ==
  ASSUME IngestionInv, NEW dur \in Duration, GoesBack(dur)
  PROVE  /\ \A b \in Blocks : Trunc(dur, TimeOf(b)) \in DurationSeries(dur)
         /\ Trunc(dur, now) \in DurationSeries(dur)
         /\ \A d \in DurationSeries(dur) : d <= Trunc(dur, now)
<1> DEFINE g == Granule[dur]
           m == Reach[dur]
           top == Trunc(dur, now)
           date(b) == Trunc(dur, TimeOf(b))
           firsts == {date(b) : b \in Blocks}
<1>1. now \in Nat /\ \A b \in Blocks : TimeOf(b) \in Nat /\ TimeOf(b) <= now
  BY BlockTimes DEF IngestionInv
<1>2. g \in Nat \ {0} /\ m \in Nat
  BY TablesAssumption
<1>3. top \in Int /\ \A b \in Blocks : date(b) \in Int /\ date(b) <= top
  BY <1>1, TruncIsMonotone
<1>4. Min(firsts) \in Int /\ \A b \in Blocks : Min(firsts) <= date(b)
  <2> DEFINE f == [b \in Blocks |-> date(b)]
  <2>1. firsts = {f[b] : b \in Blocks} /\ firsts # {} /\ \A x \in firsts : x \in Int
    BY <1>3 DEF GoesBack
  <2>2. IsFiniteSet({f[b] : b \in Blocks})
    <3> HIDE DEF f
    <3>1. QED
      BY FiniteTables, FiniteImage
  <2>3. IsFiniteSet(firsts)
    BY <2>1, <2>2
  <2>4. \A b \in Blocks : date(b) \in firsts
    OBVIOUS
  <2> HIDE DEF firsts
  <2>5. Min(firsts) \in firsts /\ \A x \in firsts : Min(firsts) <= x
    BY <2>1, <2>3, MinOfFinite
  <2> HIDE DEF date
  <2>6. QED
    BY <2>1, <2>4, <2>5
<1>5. DurationSeries(dur) =
        {d \in {top - k * g : k \in 0..m} : Blocks # {} /\ d >= Min(firsts) - g}
  BY DEF DurationSeries, FirstDate
<1>6. ASSUME NEW b \in Blocks
      PROVE  date(b) \in DurationSeries(dur)
  <2> DEFINE t == TimeOf(b)
  <2>1. t \in Int /\ t <= now /\ t >= now - (now % g) - g * m
    BY <1>1 DEF GoesBack, Trunc
  <2> HIDE DEF t, g
  <2>2. \E k \in 0..m : t - (t % g) = now - (now % g) - k * g
    <3>1. now \in Int /\ g \in Nat \ {0} /\ m \in Nat
      BY <1>1, <1>2
    <3> HIDE DEF m
    <3>2. QED
      BY <2>1, <3>1, StepsBack
  <2>3. date(b) = t - (t % g) /\ top = now - (now % g)
    BY DEF Trunc, t, g
  <2>4. \E k \in 0..m : date(b) = top - k * g
    BY <2>2, <2>3
  <2> HIDE DEF date, top, firsts
  <2>5. date(b) >= Min(firsts) - g
    BY <1>2, <1>3, <1>4
  <2>6. QED
    BY <1>5, <2>4, <2>5 DEF GoesBack
<1>7. top \in DurationSeries(dur)
  <2> HIDE DEF top, g, firsts, date
  <2>1. 0 \in 0..m /\ top = top - 0 * g
    BY <1>2, <1>3
  <2>2. PICK b \in Blocks : TRUE
    BY DEF GoesBack
  <2>3. top >= Min(firsts) - g
    BY <1>2, <1>3, <1>4, <2>2
  <2>4. QED
    BY <1>5, <2>1, <2>3 DEF GoesBack
<1>8. \A d \in DurationSeries(dur) : d <= top
  <2>1. ASSUME NEW k \in 0..m
        PROVE  top - k * g <= top
    <3> HIDE DEF top, g
    <3>1. k * g \in Nat
      BY <1>2
    <3>2. QED
      BY <1>3, <3>1
  <2> HIDE DEF top, g, firsts
  <2>2. QED
    BY <1>5, <2>1
<1>9. QED
  BY <1>6, <1>7, <1>8

LEMMA SumByDate ==
  ASSUME NEW R \in SUBSET AllMessages, NEW D, IsFiniteSet(D), NEW date,
         \A r \in R : date[r] \in D,
         NEW G, \A d \in D : G[d] = Total(Value, Class(R, date, d))
  PROVE  SumOver(G, D) = Total(Value, R)
<1>1. IsFiniteSet(R) /\ \A r \in R : r[2].value \in Int
  <2>1. \A r \in R : r[2] \in MessageRow
    BY AllRows
  <2>2. QED
    BY <2>1, AllRows, FS_Subset DEF MessageRow
<1> DEFINE F == ValuesOf(R)
<1>2. \A r \in R : F[r] \in Int
  BY <1>1 DEF ValuesOf
<1>3. \A d \in D : G[d] = SumOver(F, Class(R, date, d))
  BY TotalValue DEF Class
<1> HIDE DEF F
<1>4. SumOver(G, D) = SumOver(F, Classes(R, date, D))
  BY <1>1, <1>2, <1>3, SumOfClasses
<1>5. Classes(R, date, D) = R
  BY DEF Classes
<1>6. SumOver(F, Classes(R, date, D)) = SumOver(F, R)
  BY <1>5
<1>7. Total(Value, R) = SumOver(F, R)
  BY TotalValue DEF F
<1>8. QED
  BY <1>4, <1>6, <1>7

LEMMA SeriesTotals ==
  ASSUME IngestionInv, NEW dur \in Duration
  PROVE  SeriesAgree(dur)
<1> DEFINE dates == DurationSeries(dur)
           top == Trunc(dur, now)
<1> SUFFICES ASSUME GoesBack(dur)
             PROVE  /\ LastAmount(BlockRewards(dur)) = Reward(Blocks)
                    /\ LastAmount(HistoricalCollateral(dur)) = Total(Value, Pledges(UniqueMessages))
                    /\ SumOf(DailyVolume(dur)) = Total(Value, Transfers)
  BY DEF SeriesAgree, GoesBack
<1>1. /\ \A b \in Blocks : Trunc(dur, TimeOf(b)) \in dates
      /\ top \in dates /\ \A d \in dates : d <= top
  BY SeriesHasAll
<1>2. IsFiniteSet(dates) /\ dates \subseteq Int
  BY SeriesIsFinite DEF IngestionInv
<1>3. Max(dates) = top
  <2> HIDE DEF dates, top
  <2>1. Max(dates) \in dates /\ \A d \in dates : Max(dates) >= d
    <3>1. dates # {} /\ \A d \in dates : d \in Int
      BY <1>1, <1>2
    <3>2. QED
      BY <1>2, <3>1, MaxOfFinite
  <2>2. Max(dates) \in Int /\ top \in Int
    BY <1>1, <1>2, <2>1
  <2>3. Max(dates) <= top /\ Max(dates) >= top
    BY <1>1, <2>1
  <2>4. QED
    BY <2>2, <2>3
<1>4. LastAmount(BlockRewards(dur)) = Reward(Blocks)
  <2> DEFINE rewarded == {b \in Blocks : Trunc(dur, TimeOf(b)) \in dates}
             until(d) == {b \in rewarded : Trunc(dur, TimeOf(b)) <= d}
  <2>1. BlockRewards(dur) = [d \in dates |-> Reward(until(d))]
    BY DEF BlockRewards
  <2>2. LastAmount(BlockRewards(dur)) = Reward(until(top))
    BY <1>1, <1>3, <2>1 DEF LastAmount
  <2>3. until(top) = Blocks
    BY <1>1
  <2>4. Reward(until(top)) = Reward(Blocks)
    BY <2>3
  <2>5. QED
    BY <2>2, <2>4
<1>5. \A r \in UniqueMessages : Trunc(dur, SentAt(r)) \in dates
  BY <1>1, TableRows DEF SentAt
<1>6. LastAmount(HistoricalCollateral(dur)) = Total(Value, Pledges(UniqueMessages))
  <2> DEFINE R == Pledges(UniqueMessages)
             date == [r \in R |-> Trunc(dur, SentAt(r))]
             amount == [e \in dates |-> Total(Value, PledgesOn(dur, e, UniqueMessages))]
             until(d) == {e \in dates : e <= d}
  <2>1. HistoricalCollateral(dur) = [d \in dates |-> Total(LAMBDA e : amount[e], until(d))]
    BY DEF HistoricalCollateral
  <2>2. Total(LAMBDA e : amount[e], until(top)) = SumOver(amount, until(top))
    BY DEF Total, SumOver
  <2>3. until(top) = dates
    BY <1>1
  <2>4. SumOver(amount, until(top)) = SumOver(amount, dates)
    BY <2>3
  <2>5. LastAmount(HistoricalCollateral(dur)) = Total(LAMBDA e : amount[e], until(top))
    <3> DEFINE sum(d) == Total(LAMBDA e : amount[e], until(d))
    <3>1. HistoricalCollateral(dur) = [d \in dates |-> sum(d)]
      BY <2>1
    <3> HIDE DEF sum
    <3>2. LastAmount(HistoricalCollateral(dur)) = sum(top)
      BY <1>1, <1>3, <3>1 DEF LastAmount
    <3>3. QED
      BY <3>2 DEF sum
  <2>6. R \in SUBSET AllMessages /\ R \subseteq UniqueMessages
    BY TableRows DEF Pledges
  <2>7. \A r \in R : date[r] \in dates
    BY <1>5, <2>6
  <2>8. \A d \in dates : amount[d] = Total(Value, Class(R, date, d))
    <3>1. \A d \in dates : PledgesOn(dur, d, UniqueMessages) = Class(R, date, d)
      BY DEF PledgesOn, Class
    <3>2. \A d \in dates : amount[d] = Total(Value, PledgesOn(dur, d, UniqueMessages))
      OBVIOUS
    <3> HIDE DEF amount, R, date
    <3>3. ASSUME NEW d \in dates
          PROVE  amount[d] = Total(Value, Class(R, date, d))
      <4>1. PledgesOn(dur, d, UniqueMessages) = Class(R, date, d)
        BY <3>1
      <4>2. Total(Value, PledgesOn(dur, d, UniqueMessages)) =
              Total(Value, Class(R, date, d))
        BY <4>1
      <4>3. QED
        BY <3>2, <4>2
    <3>4. QED
      BY <3>3
  <2> HIDE DEF amount, R, date
  <2>9. SumOver(amount, dates) = Total(Value, R)
    BY <1>2, <2>6, <2>7, <2>8, SumByDate
  <2>10. QED
    BY <2>2, <2>4, <2>5, <2>9 DEF R
<1>7. SumOf(DailyVolume(dur)) = Total(Value, Transfers)
  <2> DEFINE date == [r \in Transfers |-> Trunc(dur, SentAt(r))]
             volume == DailyVolume(dur)
  <2>1. DOMAIN volume = dates
    BY DEF DailyVolume
  <2>2. SumOf(volume) = SumOver(volume, DOMAIN volume)
    BY DEF SumOf, Total, SumOver
  <2>3. SumOver(volume, DOMAIN volume) = SumOver(volume, dates)
    BY <2>1
  <2>4. Transfers \in SUBSET AllMessages /\ Transfers \subseteq UniqueMessages
    BY TableRows DEF Transfers
  <2>5. \A r \in Transfers : date[r] \in dates
    BY <1>5, <2>4
  <2>6. \A d \in dates : volume[d] = Total(Value, Class(Transfers, date, d))
    <3>1. ASSUME NEW d \in dates
          PROVE  volume[d] = Total(Value, Class(Transfers, date, d))
      <4>1. {r \in Transfers : Trunc(dur, SentAt(r)) = d} = Class(Transfers, date, d)
        BY DEF Class
      <4>2. volume[d] = Total(Value, {r \in Transfers : Trunc(dur, SentAt(r)) = d})
        BY DEF DailyVolume
      <4> HIDE DEF date, volume
      <4>3. Total(Value, {r \in Transfers : Trunc(dur, SentAt(r)) = d}) =
              Total(Value, Class(Transfers, date, d))
        BY <4>1
      <4>4. QED
        BY <4>2, <4>3
    <3>2. QED
      BY <3>1
  <2> HIDE DEF volume, date
  <2>7. SumOver(volume, dates) = Total(Value, Transfers)
    BY <1>2, <2>4, <2>5, <2>6, SumByDate
  <2>8. QED
    BY <2>2, <2>3, <2>7 DEF volume
<1>8. QED
  BY <1>4, <1>6, <1>7

(* The queries that add up different tables agree with each other and with  *)
(* the tables (getCoinsInCirculation, getHistoricalCollateral,              *)
(* getBlockRewardsOverTime, getDailyVolume, getMiningStats).                *)
THEOREM QueriesAgree == Spec => []TotalsAgree
<1>1. MatInv => TotalsAgree
  BY TipOfStats, CirculationRows, SeriesTotals DEF MatInv, TotalsAgree
<1>2. QED
  BY <1>1, MatHolds, PTL

--------------------------------------------------------------------------------
(* The histograms *)
LEMMA ProductStrict ==
  ASSUME NEW a \in Int, NEW b \in Int, NEW c \in Nat \ {0}, a < b
  PROVE  a * c < b * c
OBVIOUS

LEMMA ProductWeak ==
  ASSUME NEW a \in Int, NEW b \in Int, NEW c \in Nat, a <= b
  PROVE  a * c <= b * c
OBVIOUS

(* Where width_bucket counts an amount, by its limits. *)
LEMMA WidthBucketLimits ==
  ASSUME NEW a \in Int, NEW u \in Nat \ {0}, NEW e \in Nat, u < e, NEW count \in Nat \ {0}
  PROVE  LET n == WidthBucket(a, u, e, count)
         IN  /\ n \in 0..count + 1
             /\ n \in 1..count <=> u <= a /\ a < e
             /\ n \in 1..count => /\ (e - u) * (n - 1) <= (a - u) * count
                                  /\ (a - u) * count < (e - u) * n
<1> DEFINE n == WidthBucket(a, u, e, count)
           w == e - u
           x == a - u
           q == (x * count) \div w
<1>1. w \in Nat \ {0} /\ x \in Int /\ x * count \in Int
  OBVIOUS
<1>2. CASE a < u
  BY <1>2 DEF WidthBucket
<1>3. CASE a >= e
  BY <1>3 DEF WidthBucket
<1>4. CASE u <= a /\ a < e
  <2>1. n = q + 1
    BY <1>4 DEF WidthBucket
  <2>2. x \in Nat /\ x < w
    BY <1>4
  <2> HIDE DEF w, x, n
  <2>3. q \in Int /\ (x * count) % w \in 0..w - 1 /\ x * count = w * q + ((x * count) % w)
    BY <1>1, DivMod
  <2>4. w * q \in Int /\ w * q <= x * count /\ x * count < w * q + w
    BY <1>1, <2>3
  <2> HIDE DEF q
  <2>5. q <= count - 1
    <3>1. SUFFICES ASSUME q >= count
                   PROVE  FALSE
      BY <2>3
    <3>2. count * w <= q * w
      BY <1>1, <2>3, <3>1, ProductWeak
    <3>3. x * count < w * count
      BY <1>1, <2>2, ProductStrict
    <3>4. count * w = w * count /\ q * w = w * q /\ w * count \in Int
      BY <1>1, <2>3
    <3>5. QED
      BY <1>1, <2>4, <3>2, <3>3, <3>4
  <2>6. q >= 0
    <3>1. SUFFICES ASSUME q <= 0 - 1
                   PROVE  FALSE
      BY <2>3
    <3>2. q * w <= (0 - 1) * w
      BY <1>1, <2>3, <3>1, ProductWeak
    <3>3. x * count \in Nat
      BY <2>2
    <3>4. q * w = w * q /\ (0 - 1) * w = 0 - w
      BY <1>1, <2>3
    <3>5. QED
      BY <1>1, <2>4, <3>2, <3>3, <3>4
  <2>7. w * (q + 1) = w * q + w
    BY <1>1, <2>3
  <2>8. n - 1 = q
    BY <2>1, <2>3
  <2>9. n \in 1..count
    BY <2>1, <2>3, <2>5, <2>6
  <2>10. w * (n - 1) <= x * count /\ x * count < w * n
    BY <2>1, <2>4, <2>7, <2>8
  <2>11. QED
    BY <1>4, <2>9, <2>10 DEF w, x, n
<1>5. QED
  BY <1>2, <1>3, <1>4

LEMMA BucketLimits ==
  ASSUME NEW a \in Int, NEW u \in Nat \ {0}, NEW inc \in Nat \ {0, 1}, NEW B \in Nat \ {0}
  PROVE  LET end == u * inc * B
             n == BucketOf(a, u, inc, B)
         IN  /\ n \in 1..B <=> u <= a /\ a < end
             /\ Overflows(a, u, inc, B) <=> a >= end + u
             /\ n \in 1..B => /\ u * (BucketStart(n, inc) - 1) < a
                              /\ a < u * (BucketEnd(n, inc) + 1)
<1> DEFINE ui == u * inc
           end == ui * B
           n == BucketOf(a, u, inc, B)
           w == end - u
           x == a - u
<1>1. ui \in Nat \ {0} /\ end \in Nat
  OBVIOUS
<1>2. u < end
  <2>1. u < ui
    <3>1. 1 * u < inc * u
      BY ProductStrict
    <3>2. QED
      BY <3>1
  <2> HIDE DEF ui
  <2>2. ui * 1 <= ui * B
    <3>1. 1 * ui <= B * ui
      BY <1>1, ProductWeak
    <3>2. QED
      BY <1>1, <3>1
  <2>3. QED
    BY <1>1, <2>1, <2>2
<1>3. n = WidthBucket(a, u, end, B)
  BY DEF BucketOf
<1>4. /\ n \in 0..B + 1
      /\ n \in 1..B <=> u <= a /\ a < end
      /\ n \in 1..B => w * (n - 1) <= x * B /\ x * B < w * n
  <2> HIDE DEF end, n
  <2>1. QED
    BY <1>1, <1>2, <1>3, WidthBucketLimits
<1>5. Overflows(a, u, inc, B) <=> a >= end + u
  <2>1. u * (inc * B + 1) = end + u
    OBVIOUS
  <2>2. QED
    BY <2>1 DEF Overflows
<1>6. ASSUME n \in 1..B
      PROVE  ui * (n - 1) < a /\ a < ui * n + u
  <2> HIDE DEF ui, n
  <2>1. n \in Nat /\ n - 1 \in Nat /\ n - 1 < B /\ x \in Int /\ w \in Int /\ end = w + u
    BY <1>1, <1>6
  <2>2. /\ end * (n - 1) = w * (n - 1) + u * (n - 1)
        /\ end * n = w * n + u * n
        /\ (ui * (n - 1)) * B = end * (n - 1)
        /\ (ui * n) * B = end * n
        /\ (x + u) * B = x * B + u * B
    <3>1. (w + u) * (n - 1) = w * (n - 1) + u * (n - 1) /\ (w + u) * n = w * n + u * n
      <4> HIDE DEF w
      <4>1. QED
        BY <2>1
    <3>2. (ui * (n - 1)) * B = end * (n - 1) /\ (ui * n) * B = end * n
      BY <1>1, <2>1
    <3>3. (x + u) * B = x * B + u * B
      <4> HIDE DEF x
      <4>1. QED
        BY <2>1
    <3>4. QED
      BY <2>1, <3>1, <3>2, <3>3
  <2>3. w * (n - 1) <= x * B /\ x * B < w * n
    BY <1>4, <1>6
  <2>4. u * (n - 1) < u * B /\ u * n > 0 /\ u * (n - 1) \in Int /\ u * B \in Int
    <3>1. (n - 1) * u < B * u
      BY <2>1, ProductStrict
    <3>2. 0 * u < n * u
      BY <1>6, ProductStrict
    <3>3. QED
      BY <2>1, <3>1, <3>2
  <2>5. w * (n - 1) \in Int /\ w * n \in Int /\ x * B \in Int /\ u * n \in Int
    BY <2>1
  <2> DEFINE lower == ui * (n - 1)
             upper == ui * n
  <2>6. lower \in Int /\ upper \in Int
    BY <1>1, <2>1
  <2>7. lower * B < (x + u) * B
    BY <2>2, <2>3, <2>4, <2>5
  <2>8. x * B < upper * B
    BY <2>2, <2>3, <2>4, <2>5
  <2> HIDE DEF lower, upper, x
  <2>9. lower < x + u
    <3>1. SUFFICES ASSUME x + u <= lower
                   PROVE  FALSE
      BY <2>1, <2>6
    <3>2. (x + u) * B <= lower * B
      BY <2>1, <2>6, <3>1, ProductWeak
    <3>3. (x + u) * B \in Int /\ lower * B \in Int
      BY <2>1, <2>6
    <3>4. QED
      BY <2>7, <3>2, <3>3
  <2>10. x < upper
    <3>1. SUFFICES ASSUME upper <= x
                   PROVE  FALSE
      BY <2>1, <2>6
    <3>2. upper * B <= x * B
      BY <2>1, <2>6, <3>1, ProductWeak
    <3>3. x * B \in Int /\ upper * B \in Int
      BY <2>1, <2>6
    <3>4. QED
      BY <2>8, <3>2, <3>3
  <2>11. x + u = a
    BY DEF x
  <2>12. QED
    BY <2>1, <2>6, <2>9, <2>10, <2>11 DEF lower, upper
<1>7. ASSUME n \in 1..B
      PROVE  /\ u * (BucketStart(n, inc) - 1) = ui * (n - 1)
             /\ u * (BucketEnd(n, inc) + 1) = ui * n + u
  <2> HIDE DEF n
  <2>1. n \in Int /\ n - 1 \in Int
    BY <1>7
  <2>2. BucketStart(n, inc) - 1 = inc * (n - 1)
    BY <2>1 DEF BucketStart
  <2>3. BucketEnd(n, inc) + 1 = inc * n + 1
    <3>1. inc * (n - 1) + inc = inc * n
      BY <2>1
    <3>2. QED
      BY <3>1 DEF BucketEnd
  <2>4. u * (inc * (n - 1)) = ui * (n - 1) /\ u * (inc * n + 1) = ui * n + u
    BY <2>1
  <2>5. QED
    BY <2>2, <2>3, <2>4
<1> HIDE DEF n, end
<1>8. QED
  BY <1>4, <1>5, <1>6, <1>7 DEF n, end

LEMMA HistogramCovers ==
  ASSUME NEW amount, IsFiniteSet(DOMAIN amount), \A p \in DOMAIN amount : amount[p] \in Int,
         NEW u \in Nat \ {0}, NEW inc \in Nat \ {0, 1}, NEW B \in Nat \ {0},
         NEW h, h = [rows |-> Counts(amount, u, inc, B), beyond |-> Overflow(amount, u, inc, B)]
  PROVE  Covers(h, amount, u, inc, B)
<1> DEFINE S == DOMAIN amount
           end == u * inc * B
           bucket == [p \in S |-> BucketOf(amount[p], u, inc, B)]
           rows == Counts(amount, u, inc, B)
           ones == [p \in S |-> 1]
           counted == Classes(S, bucket, 1..B)
           over == {p \in S : Overflows(amount[p], u, inc, B)}
           covered == {p \in S : amount[p] >= u /\ ~ (amount[p] >= end /\ amount[p] < end + u)}
<1>1. end \in Nat
  OBVIOUS
<1>2. ASSUME NEW p \in S
      PROVE  /\ amount[p] \in Int
             /\ bucket[p] \in 1..B <=> u <= amount[p] /\ amount[p] < end
             /\ Overflows(amount[p], u, inc, B) <=> amount[p] >= end + u
             /\ BucketOf(amount[p], u, inc, B) \in 1..B =>
                  /\ u * (BucketStart(BucketOf(amount[p], u, inc, B), inc) - 1) < amount[p]
                  /\ amount[p] < u * (BucketEnd(BucketOf(amount[p], u, inc, B), inc) + 1)
  <2>1. amount[p] \in Int /\ bucket[p] = BucketOf(amount[p], u, inc, B)
    OBVIOUS
  <2> HIDE DEF S, end, bucket
  <2>2. QED
    BY <2>1, BucketLimits DEF end
<1>3. counted \subseteq S /\ over \subseteq S /\ counted \cap over = {} /\ counted \cup over = covered
  <2>1. \A p \in S : /\ p \in counted <=> u <= amount[p] /\ amount[p] < end
                     /\ p \in over <=> amount[p] >= end + u
                     /\ p \in covered <=> amount[p] >= u /\ ~ (amount[p] >= end /\ amount[p] < end + u)
                     /\ amount[p] \in Int
    BY <1>2 DEF Classes
  <2>2. counted \subseteq S /\ over \subseteq S /\ covered \subseteq S
    BY DEF Classes
  <2>3. end + u \in Int /\ end < end + u
    BY <1>1
  <2>4. u <= end
    <3> DEFINE i == inc * B
    <3>1. i \in Nat \ {0} /\ end = i * u
      OBVIOUS
    <3> HIDE DEF i
    <3>2. 1 * u <= i * u
      BY <3>1, ProductWeak
    <3>3. QED
      BY <3>1, <3>2
  <2> HIDE DEF S, counted, over, covered, end
  <2>5. QED
    BY <1>1, <2>1, <2>2, <2>3, <2>4
<1>4. SumOver(rows, 1..B) = Cardinality(counted)
  <2>1. \A n \in 1..B : rows[n] = Cardinality(Class(S, bucket, n))
    <3>1. ASSUME NEW n \in 1..B
          PROVE  rows[n] = Cardinality(Class(S, bucket, n))
      <4>1. {p \in S : BucketOf(amount[p], u, inc, B) = n} = Class(S, bucket, n)
        BY DEF Class
      <4>2. rows[n] = Cardinality({p \in S : BucketOf(amount[p], u, inc, B) = n})
        BY DEF Counts
      <4>3. QED
        BY <4>1, <4>2
    <3>2. QED
      BY <3>1
  <2>2. \A x \in S : ones[x] = 1
    OBVIOUS
  <2> HIDE DEF S, bucket, rows, ones, counted
  <2>3. \A T \in SUBSET S : SumOver(ones, T) = Cardinality(T)
    <3>1. ASSUME NEW T \in SUBSET S
          PROVE  SumOver(ones, T) = Cardinality(T)
      <4>1. IsFiniteSet(T) /\ \A x \in T : ones[x] = 1
        BY <2>2, FS_Subset DEF S
      <4>2. QED
        BY <4>1, SumOfOnes
    <3>2. QED
      BY <3>1
  <2>4. \A n \in 1..B : rows[n] = SumOver(ones, Class(S, bucket, n))
    <3>1. \A n : Class(S, bucket, n) \in SUBSET S
      BY DEF Class
    <3>2. QED
      BY <2>1, <2>3, <3>1
  <2>5. IsFiniteSet(1..B) /\ IsFiniteSet(S) /\ \A x \in S : ones[x] \in Int
    <3>1. IsFiniteSet(1..B)
      BY FS_Interval
    <3>2. QED
      BY <2>2, <3>1 DEF S
  <2>6. SumOver(rows, 1..B) = SumOver(ones, Classes(S, bucket, 1..B))
    BY <2>4, <2>5, SumOfClasses
  <2>7. counted = Classes(S, bucket, 1..B) /\ counted \in SUBSET S
    BY DEF counted, Classes
  <2>8. QED
    BY <2>3, <2>6, <2>7
<1>5. h.rows = rows /\ h.beyond = Cardinality(over) /\ DOMAIN rows = 1..B
  BY DEF Overflow, Counts
<1>6. SumOf(h.rows) = SumOver(rows, 1..B)
  <2>1. SumOf(h.rows) = SumOver(h.rows, DOMAIN h.rows)
    BY DEF SumOf, Total, SumOver
  <2> HIDE DEF rows
  <2>2. QED
    BY <1>5, <2>1
<1>7. SumOf(h.rows) + h.beyond = Cardinality(covered)
  <2> HIDE DEF S, counted, over, covered, rows
  <2>1. IsFiniteSet(counted) /\ IsFiniteSet(over)
    BY <1>3, FS_Subset DEF S
  <2>2. Cardinality(counted \cup over) =
          Cardinality(counted) + Cardinality(over) - Cardinality(counted \cap over)
    BY <2>1, FS_Union
  <2>3. Cardinality(counted \cap over) = 0
    BY <1>3, FS_EmptySet
  <2>4. Cardinality(counted) \in Nat /\ Cardinality(over) \in Nat
    BY <2>1, FS_CardinalityType
  <2>5. Cardinality(counted \cup over) = Cardinality(covered)
    BY <1>3
  <2>6. QED
    BY <1>4, <1>5, <1>6, <2>2, <2>3, <2>4, <2>5
<1>8. ASSUME NEW p \in S, NEW n \in 1..B, BucketOf(amount[p], u, inc, B) = n
      PROVE  /\ u * (BucketStart(n, inc) - 1) < amount[p]
             /\ amount[p] < u * (BucketEnd(n, inc) + 1)
  BY <1>2, <1>8
<1>9. QED
  BY <1>7, <1>8 DEF Covers

--------------------------------------------------------------------------------
LEMMA CapacitiesAre ==
  ASSUME IngestionInv, NEW R, R = Messages \/ R = UniqueMessages
  PROVE  /\ IsFiniteSet(DOMAIN Capacities(R)) /\ DOMAIN Capacities(R) = PledgersOf(R)
         /\ \A p \in DOMAIN Capacities(R) : Capacities(R)[p] \in Int
<1>1. R \in SUBSET AllMessages /\ IsFiniteSet(Pledges(R))
  BY TableRows, FiniteTables, FS_Subset DEF Pledges
<1>2. DOMAIN Capacities(R) = PledgersOf(R)
  BY DEF Capacities
<1>3. IsFiniteSet(PledgersOf(R))
  <2> DEFINE f == [r \in Pledges(R) |-> r[2].from]
  <2>1. PledgersOf(R) = {f[r] : r \in Pledges(R)}
    BY DEF PledgersOf
  <2> HIDE DEF f
  <2>2. QED
    BY <1>1, <2>1, FiniteImage
<1>4. ASSUME NEW p \in PledgersOf(R)
      PROVE  Capacities(R)[p] \in Int
  <2> DEFINE T == {r \in Pledges(R) : r[2].from = p}
             n == Total(Value, T)
  <2>1. Capacities(R)[p] = Gigabytes(n)
    BY DEF Capacities
  <2>2. T \in SUBSET AllMessages
    BY <1>1 DEF Pledges
  <2> HIDE DEF T
  <2>3. n \in Nat
    BY <2>2, TotalOfValues
  <2> HIDE DEF n
  <2>4. QED
    BY <2>1, <2>3, StorageAssumption DEF Gigabytes
<1>5. QED
  BY <1>2, <1>3, <1>4

LEMMA HoldingsAre ==
  ASSUME IngestionInv
  PROVE  IsFiniteSet(DOMAIN Holdings) /\ \A a \in DOMAIN Holdings : Holdings[a] \in Int
<1>1. Transfers \in SUBSET AllMessages /\ IsFiniteSet(Transfers) /\ IsFiniteSet(Blocks)
  BY TableRows, FiniteTables, FS_Subset DEF Transfers
<1>2. IsFiniteSet(Holders)
  <2> DEFINE to == [r \in Transfers |-> r[2].to]
             from == [r \in Transfers |-> r[2].from]
             miner == [b \in Blocks |-> MinerOf(b)]
  <2>1. Holders \subseteq {to[r] : r \in Transfers} \cup {from[r] : r \in Transfers}
                            \cup {miner[b] : b \in Blocks}
    BY DEF Holders, Parties
  <2> HIDE DEF to, from, miner
  <2>2. /\ IsFiniteSet({to[r] : r \in Transfers}) /\ IsFiniteSet({from[r] : r \in Transfers})
        /\ IsFiniteSet({miner[b] : b \in Blocks})
    BY <1>1, FiniteImage
  <2>3. QED
    BY <2>1, <2>2, FS_Union, FS_Subset
<1>3. ASSUME NEW a
      PROVE  Holding(a) \in Int
  <2> DEFINE in == {r \in Transfers : r[2].to = a}
             out == {r \in Transfers : r[2].from = a}
             mined == {b \in Blocks : MinerOf(b) = a}
  <2>1. in \in SUBSET AllMessages /\ out \in SUBSET AllMessages /\ mined \in SUBSET Blocks
    BY <1>1
  <2>2. Holding(a) = Total(Value, in) - Total(Value, out) + Reward(mined)
    BY DEF Holding
  <2> HIDE DEF in, out, mined
  <2>3. Total(Value, in) \in Int /\ Total(Value, out) \in Int
    BY <2>1, TotalOfValues
  <2>4. Reward(mined) \in Int
    <3>1. Cardinality(mined) \in Nat
      BY <1>1, <2>1, FS_Subset, FS_CardinalityType
    <3>2. QED
      BY <3>1, TokenAssumption DEF Reward
  <2>5. QED
    BY <2>2, <2>3, <2>4
<1>4. QED
  BY <1>2, <1>3 DEF Holdings

LEMMA SizeClassesCover ==
  ASSUME IngestionInv
  PROVE  CostCapacityBySize("lt").count + CostCapacityBySize("gte").count =
           Cardinality(PledgersOf(UniqueMessages))
<1> DEFINE amount == Capacities(UniqueMessages)
           class(op) == {p \in DOMAIN amount : InClass(amount[p], op)}
           bound == SizeClass * Fine
<1>1. \A op : CostCapacityBySize(op).count = Cardinality(class(op))
  BY DEF CostCapacityBySize
<1>2. /\ IsFiniteSet(DOMAIN amount) /\ DOMAIN amount = PledgersOf(UniqueMessages)
      /\ \A p \in DOMAIN amount : amount[p] \in Int
  BY CapacitiesAre
<1>3. bound \in Int
  BY StorageAssumption DEF Fine
<1>4. \A p : /\ InClass(amount[p], "lt") <=> amount[p] < bound
             /\ InClass(amount[p], "gte") <=> amount[p] >= bound
  BY DEF InClass
<1> HIDE DEF amount, bound
<1>5. class("lt") \cup class("gte") = DOMAIN amount /\ class("lt") \cap class("gte") = {}
  BY <1>2, <1>3, <1>4
<1> DEFINE A == class("lt")
           C == class("gte")
<1>6. /\ A \cup C = DOMAIN amount /\ A \cap C = {}
      /\ CostCapacityBySize("lt").count = Cardinality(A)
      /\ CostCapacityBySize("gte").count = Cardinality(C)
      /\ A \subseteq DOMAIN amount /\ C \subseteq DOMAIN amount
  BY <1>1, <1>5
<1> HIDE DEF A, C
<1>7. IsFiniteSet(A) /\ IsFiniteSet(C)
  BY <1>2, <1>6, FS_Subset
<1>8. Cardinality(A \cup C) = Cardinality(A) + Cardinality(C) - Cardinality(A \cap C)
  BY <1>7, FS_Union
<1>9. Cardinality(A \cap C) = 0
  BY <1>6, FS_EmptySet
<1>10. Cardinality(A) \in Nat /\ Cardinality(C) \in Nat
  BY <1>7, FS_CardinalityType
<1>11. Cardinality(A \cup C) = Cardinality(PledgersOf(UniqueMessages))
  BY <1>2, <1>6
<1>12. QED
  BY <1>6, <1>8, <1>9, <1>10, <1>11

LEMMA CountedOnce == IngestionInv => PledgersCountedOnce
<1> SUFFICES ASSUME IngestionInv
             PROVE  PledgersCountedOnce
  OBVIOUS
<1>1. Fine \in Nat \ {0} /\ CapacityIncrement \in Nat \ {0, 1} /\ CapacityBuckets \in Nat \ {0}
  BY StorageAssumption DEF Fine
<1>2. Covers(CapacityHistogram, Capacities(Messages), Fine, CapacityIncrement, CapacityBuckets)
  <2>1. CapacityHistogram =
          [rows |-> Counts(Capacities(Messages), Fine, CapacityIncrement, CapacityBuckets),
           beyond |-> Overflow(Capacities(Messages), Fine, CapacityIncrement, CapacityBuckets)]
    BY DEF CapacityHistogram
  <2>2. /\ IsFiniteSet(DOMAIN Capacities(Messages))
        /\ \A p \in DOMAIN Capacities(Messages) : Capacities(Messages)[p] \in Int
    BY CapacitiesAre
  <2>3. QED
    BY <1>1, <2>1, <2>2, HistogramCovers
<1>3. Covers(TokenHoldingsHistogram, Holdings, Coin, TokenIncrement, TokenBuckets)
  <2>1. TokenHoldingsHistogram =
          [rows |-> Counts(Holdings, Coin, TokenIncrement, TokenBuckets),
           beyond |-> Overflow(Holdings, Coin, TokenIncrement, TokenBuckets)]
    BY DEF TokenHoldingsHistogram
  <2>2. IsFiniteSet(DOMAIN Holdings) /\ \A a \in DOMAIN Holdings : Holdings[a] \in Int
    BY HoldingsAre
  <2>3. QED
    BY <2>1, <2>2, HistogramCovers, TokenAssumption
<1>4. QED
  BY <1>2, <1>3, SizeClassesCover DEF PledgersCountedOnce

(* Whatever was ingested, the histograms and the size classes count every   *)
(* address once where its amount lies (getCapacityHistogram,                *)
(* getTokenHoldingsHistogram, getCostCapacityForMinersUnderSize), but for   *)
(* the amounts that no row counts.                                          *)
THEOREM HistogramsCountOnce == Spec => []PledgersCountedOnce
<1>1. MatInv => PledgersCountedOnce
  BY CountedOnce DEF MatInv
<1>2. QED
  BY <1>1, MatHolds, PTL

--------------------------------------------------------------------------------
(* The shares of miners *)

(* Blocks of different miners are different blocks. *)
LEMMA SharesOfBlocks ==
  ASSUME NEW B, IsFiniteSet(B), NEW T, IsFiniteSet(T), NEW F,
         \A m \in T : F[m] = Cardinality(MinedBy(m, B))
  PROVE  SumOver(F, T) \in Nat /\ SumOver(F, T) <= Cardinality(B)
<1> DEFINE one == [b \in B |-> 1]
           g == [b \in B |-> MinerOf(b)]
<1>1. /\ \A b \in B : one[b] = 1 /\ one[b] \in Nat /\ one[b] \in Int
      /\ \A b \in B : g[b] = MinerOf(b)
  OBVIOUS
<1> HIDE DEF one, g
<1>2. ASSUME NEW S \in SUBSET B
      PROVE  IsFiniteSet(S) /\ SumOver(one, S) = Cardinality(S) /\ Cardinality(S) \in Nat
  BY <1>1, FS_Subset, FS_CardinalityType, SumOfOnes
<1>3. ASSUME NEW m \in T
      PROVE  F[m] = SumOver(one, Class(B, g, m))
  <2>1. Class(B, g, m) = MinedBy(m, B)
    BY <1>1 DEF Class, MinedBy
  <2>2. MinedBy(m, B) \in SUBSET B
    BY DEF MinedBy
  <2>3. QED
    BY <1>2, <2>1, <2>2
<1>4. SumOver(F, T) = SumOver(one, Classes(B, g, T))
  BY <1>1, <1>3, SumOfClasses
<1>5. Classes(B, g, T) \in SUBSET B
  BY DEF Classes
<1>6. SumOver(one, Classes(B, g, T)) \in Nat
  BY <1>2, <1>5
<1>7. SumOver(one, Classes(B, g, T)) <= SumOver(one, B)
  BY <1>1, <1>5, SumGrows
<1>8. SumOver(one, B) = Cardinality(B)
  BY <1>2
<1>9. QED
  BY <1>4, <1>6, <1>7, <1>8

LEMMA BlocksFinite == IngestionInv => IsFiniteSet(Blocks) /\ Cardinality(Blocks) \in Nat
BY FiniteTables, FS_CardinalityType

LEMMA DistributionSums == IngestionInv => DistributionAddsUp
<1> SUFFICES ASSUME IngestionInv, NEW ticks \in Intervals, NEW T \in TopFour(ticks),
                    Cardinality({LabelOf(m) : m \in T}) = Cardinality(T)
             PROVE  LET shares == Distribution(ticks, T)
                    IN  SumOf(shares.data) + shares.other = shares.whole
  BY DEF DistributionAddsUp
<1> DEFINE B == Recent(ticks)
           F == [m \in T |-> Cardinality(MinedBy(m, B))]
           g == [m \in T |-> LabelOf(m)]
           L == {LabelOf(m) : m \in T}
           G == [l \in L |-> Cardinality(MinedBy(CHOOSE m \in T : LabelOf(m) = l, B))]
           w == Cardinality(Blocks)
<1>1. IsFiniteSet(B)
  BY BlocksFinite, FS_Subset DEF Recent
<1>2. IsFiniteSet(T)
  <2> DEFINE f == [b \in B |-> MinerOf(b)]
  <2>1. IsFiniteSet({f[b] : b \in B})
    <3> HIDE DEF f, B
    <3>1. QED
      BY <1>1, FiniteImage
  <2>2. {f[b] : b \in B} = {MinerOf(b) : b \in B}
    OBVIOUS
  <2>3. T \subseteq {MinerOf(b) : b \in B}
    BY DEF TopFour, Tops
  <2> HIDE DEF f, B
  <2>4. QED
    BY <2>1, <2>2, <2>3, FS_Subset
<1>3. /\ \A m \in T : F[m] = Cardinality(MinedBy(m, B))
      /\ \A m \in T : g[m] = LabelOf(m)
      /\ L = {g[m] : m \in T} /\ L = {LabelOf(m) : m \in T}
      /\ \A l \in L : G[l] = Cardinality(MinedBy(CHOOSE m \in T : LabelOf(m) = l, B))
  OBVIOUS
<1>4. /\ SumOf(Distribution(ticks, T).data) = SumOver(G, L)
      /\ Distribution(ticks, T).other = w - SumOver(F, T)
      /\ Distribution(ticks, T).whole = w
  <2> DEFINE data == Distribution(ticks, T).data
  <2>1. data = G /\ DOMAIN G = L
    BY DEF Distribution
  <2>2. SumOf(data) = SumOver(data, DOMAIN data)
    BY DEF SumOf, SumOver, Total
  <2>3. Distribution(ticks, T).other = w - Total(LAMBDA m : Cardinality(MinedBy(m, B)), T)
        /\ Distribution(ticks, T).whole = w
    BY DEF Distribution
  <2>4. Total(LAMBDA m : Cardinality(MinedBy(m, B)), T) = SumOver(F, T)
    BY DEF Total, SumOver, MapThenSumSet, MapThenFoldSet
  <2> HIDE DEF data, G, L, w
  <2>5. QED
    BY <2>1, <2>2, <2>3, <2>4 DEF data
<1>5. w \in Nat
  BY BlocksFinite
<1> HIDE DEF B, F, g, L, G, w
<1>6. \A m, n \in T : g[m] = g[n] => m = n
  <2>1. Cardinality({g[m] : m \in T}) = Cardinality(T)
    BY <1>3
  <2>2. QED
    BY <1>2, <2>1, OneToOne
<1>7. SumOver(F, T) \in Nat
  BY <1>1, <1>2, <1>3, SharesOfBlocks
<1>8. \A m \in T : F[m] \in Int
  <2>1. \A m \in T : IsFiniteSet(MinedBy(m, B))
    BY <1>1, FS_Subset DEF MinedBy
  <2>2. QED
    BY <1>3, <2>1, FS_CardinalityType
<1>9. \A m \in T : G[g[m]] = F[m]
  <2>1. ASSUME NEW m \in T
        PROVE  G[g[m]] = F[m]
    <3>1. g[m] \in L /\ g[m] = LabelOf(m)
      BY <1>3
    <3> DEFINE c == CHOOSE n \in T : LabelOf(n) = g[m]
    <3>2. c = m
      BY <1>3, <1>6
    <3>3. G[g[m]] = Cardinality(MinedBy(c, B))
      BY <1>3, <3>1
    <3> HIDE DEF c
    <3>4. QED
      BY <1>3, <3>2, <3>3
  <2>2. QED
    BY <2>1
<1>10. SumOver(G, L) = SumOver(F, T)
  BY <1>2, <1>3, <1>6, <1>8, <1>9, SumRenamed
<1>11. QED
  BY <1>4, <1>5, <1>7, <1>10

LEMMA TotalMined ==
  ASSUME NEW S
  PROVE  Total(BlocksMined, S) = SumOver([r \in S |-> r.blockPercentage[1]], S)
BY DEF Total, SumOver, MapThenSumSet, MapThenFoldSet, BlocksMined

LEMMA NoneTwice == IngestionInv => NoBlockTwice
<1> SUFFICES ASSUME IngestionInv, \A n, m \in ListMiners : n.address = m.address => n = m
             PROVE  Total(BlocksMined, Miners) <= Cardinality(Blocks)
  BY DEF NoBlockTwice
<1> DEFINE top == Script[Tip].height
           at(n) == Min({n.beats[LastSeen(n)], top})
           listed == {n \in ListMiners : \E b \in Blocks : HeightOf(b) = at(n)}
           row == [n \in listed |->
                     [address |-> n.address, blockHeight |-> at(n),
                      blockPercentage |-> <<Cardinality(MinedBy(n.address, Blocks)), Cardinality(Blocks)>>,
                      isInConsensus |-> n.beats[LastSeen(n)] >= top]]
           address == [r \in Miners |-> r.address]
           P == [r \in Miners |-> r.blockPercentage[1]]
           F == [a \in {r.address : r \in Miners} |-> Cardinality(MinedBy(a, Blocks))]
<1>1. listed \subseteq ListMiners /\ IsFiniteSet(listed)
  <2>1. ListMiners \subseteq Nodes
    BY DEF ListMiners, ListNodes
  <2>2. QED
    BY <2>1, TablesAssumption, FS_Subset
<1>2. Miners = {row[n] : n \in listed}
  BY DEF Miners
<1>3. \A n \in listed : /\ row[n].address = n.address
                        /\ row[n].blockPercentage[1] = Cardinality(MinedBy(n.address, Blocks))
  OBVIOUS
<1> HIDE DEF row, listed
<1>4. IsFiniteSet(Miners)
  BY <1>1, <1>2, FiniteImage
<1>5. \A r, s \in Miners : r.address = s.address => r = s
  BY <1>1, <1>2, <1>3
<1>6. \A r \in Miners : r.blockPercentage[1] = Cardinality(MinedBy(r.address, Blocks))
  BY <1>2, <1>3
<1>7. Total(BlocksMined, Miners) = SumOver(P, Miners)
  BY TotalMined DEF P
<1>8. /\ \A r \in Miners : address[r] = r.address /\ P[r] = r.blockPercentage[1]
      /\ {address[r] : r \in Miners} = {r.address : r \in Miners}
      /\ \A a \in {r.address : r \in Miners} : F[a] = Cardinality(MinedBy(a, Blocks))
  OBVIOUS
<1> HIDE DEF address, P, F
<1>9. \A r \in Miners : P[r] \in Int /\ F[address[r]] = P[r]
  <2>1. \A a : Cardinality(MinedBy(a, Blocks)) \in Nat
    <3>1. \A a : IsFiniteSet(MinedBy(a, Blocks))
      BY BlocksFinite, FS_Subset DEF MinedBy
    <3>2. QED
      BY <3>1, FS_CardinalityType
  <2>2. QED
    BY <1>6, <1>8, <2>1
<1>10. SumOver(F, {r.address : r \in Miners}) = SumOver(P, Miners)
  BY <1>4, <1>5, <1>8, <1>9, SumRenamed
<1>11. IsFiniteSet({r.address : r \in Miners})
  <2>1. IsFiniteSet({address[r] : r \in Miners})
    BY <1>4, FiniteImage
  <2>2. QED
    BY <1>8, <2>1
<1>12. SumOver(F, {r.address : r \in Miners}) <= Cardinality(Blocks)
  BY <1>8, <1>11, BlocksFinite, SharesOfBlocks
<1>13. QED
  BY <1>7, <1>10, <1>12

(* What a day adds to the chart, for any sum carried over *)
MinersOf(d) == CHOOSE T \in TopTwo(d) : TRUE
SharesOf(d) == [m \in MinersOf(d) |-> ShareOn(d, m)]
PointsOf(E) == {[category |-> d, data |-> SharesOf(d), other |-> x] : d \in E, x \in Int}
EvolutionsOf(E) == [percentageSum : Int, points : Seq(PointsOf(E))]
AddsUpAt(points, i) ==
  SumOf(points[i].data) + points[i].other =
    IF Full(points[i]) THEN Whole * (1 - Cardinality(LoneDays(points, i))) ELSE Whole
AddsUpSoFar(acc) ==
  /\ acc.percentageSum = Whole * Cardinality(LoneDays(acc.points, Len(acc.points) + 1))
  /\ \A i \in 1..Len(acc.points) : AddsUpAt(acc.points, i)

(* What is carried over to a day depends only on the n days before it. *)
LoneGrown(p, q, n) ==
  /\ \A i \in 1..n + 1 : LoneDays(q, i) = LoneDays(p, i)
  /\ LoneDays(q, n + 2) = IF Full(q[n + 1]) THEN {} ELSE LoneDays(p, n + 1) \cup {n + 1}
  /\ IsFiniteSet(LoneDays(p, n + 1)) /\ Cardinality(LoneDays(p, n + 1)) \in Nat
  /\ n + 1 \notin LoneDays(p, n + 1)

LEMMA LoneGrow ==
  ASSUME NEW p, NEW q, NEW n \in Nat, \A k \in 1..n : q[k] = p[k]
  PROVE  LoneGrown(p, q, n)
<1>1. ASSUME NEW i \in 1..n + 1
      PROVE  LoneDays(q, i) = LoneDays(p, i)
  <2>1. ASSUME NEW j \in 1..i - 1, NEW k \in j..i - 1
        PROVE  q[k] = p[k]
    <3>1. k \in 1..n
      OBVIOUS
    <3>2. QED
      BY <3>1
  <2>2. \A j \in 1..i - 1 : (\A k \in j..i - 1 : ~ Full(q[k]))
                              <=> (\A k \in j..i - 1 : ~ Full(p[k]))
    BY <2>1
  <2>3. QED
    BY <2>2 DEF LoneDays
<1>2. LoneDays(q, n + 2) = {j \in 1..n + 1 : \A k \in j..n + 1 : ~ Full(q[k])}
  <2>1. (n + 2) - 1 = n + 1
    OBVIOUS
  <2>2. QED
    BY <2>1 DEF LoneDays
<1>3. LoneDays(q, n + 1) = {j \in 1..n : \A k \in j..n : ~ Full(q[k])}
  <2>1. (n + 1) - 1 = n
    OBVIOUS
  <2>2. QED
    BY <2>1 DEF LoneDays
<1>4. LoneDays(q, n + 2) = IF Full(q[n + 1]) THEN {} ELSE LoneDays(p, n + 1) \cup {n + 1}
  <2>1. CASE Full(q[n + 1])
    <3>1. \A j \in 1..n + 1 : n + 1 \in j..n + 1
      OBVIOUS
    <3>2. QED
      BY <1>2, <2>1, <3>1
  <2>2. CASE ~ Full(q[n + 1])
    <3>1. \A j \in 1..n : j..n + 1 = (j..n) \cup {n + 1}
      OBVIOUS
    <3>2. 1..n + 1 = (1..n) \cup {n + 1} /\ (n + 1)..(n + 1) = {n + 1}
      OBVIOUS
    <3>3. LoneDays(q, n + 2) = LoneDays(q, n + 1) \cup {n + 1}
      BY <1>2, <1>3, <2>2, <3>1, <3>2
    <3>4. LoneDays(q, n + 1) = LoneDays(p, n + 1)
      BY <1>1
    <3>5. QED
      BY <2>2, <3>3, <3>4
  <2>3. QED
    BY <2>1, <2>2
<1>5. LoneDays(p, n + 1) \subseteq 1..n
  <2>1. (n + 1) - 1 = n
    OBVIOUS
  <2>2. QED
    BY <2>1 DEF LoneDays
<1>6. IsFiniteSet(LoneDays(p, n + 1)) /\ Cardinality(LoneDays(p, n + 1)) \in Nat
  <2>1. IsFiniteSet(1..n)
    BY FS_Interval
  <2>2. QED
    BY <1>5, <2>1, FS_Subset, FS_CardinalityType
<1>7. n + 1 \notin LoneDays(p, n + 1)
  BY <1>5
<1>8. QED
  BY <1>1, <1>4, <1>6, <1>7 DEF LoneGrown

LEMMA TotalShares ==
  ASSUME NEW d, NEW S
  PROVE  Total(LAMBDA m : ShareOn(d, m), S) = SumOver([m \in S |-> ShareOn(d, m)], S)
BY DEF Total, SumOver, MapThenSumSet, MapThenFoldSet

LEMMA SharesOfDay ==
  ASSUME IngestionInv, NEW d, MinedOn(d) # {}
  PROVE  /\ IsFiniteSet(MinersOf(d))
         /\ \A m : ShareOn(d, m) \in Int
         /\ Total(LAMBDA m : ShareOn(d, m), MinersOf(d)) = SumOver(SharesOf(d), MinersOf(d))
         /\ SumOver(SharesOf(d), MinersOf(d)) \in Int
         /\ Cardinality(MinersOf(d)) # 2 => SumOver(SharesOf(d), MinersOf(d)) = Whole
<1> DEFINE B == MinedOn(d)
           S == {MinerOf(b) : b \in B}
           r == [m \in S |-> ShareOn(d, m)]
<1>1. IsFiniteSet(B) /\ Cardinality(B) \in Nat /\ Cardinality(B) > 0
  <2>1. IsFiniteSet(B)
    BY BlocksFinite, FS_Subset DEF MinedOn
  <2>2. QED
    BY <2>1, FS_CardinalityType, FS_EmptySet
<1>2. \A m : ShareOn(d, m) \in Int
  <2>1. \A m : Cardinality(MinedBy(m, B)) \in Nat
    <3>1. \A m : IsFiniteSet(MinedBy(m, B))
      BY <1>1, FS_Subset DEF MinedBy
    <3>2. QED
      BY <3>1, FS_CardinalityType
  <2> DEFINE w == Cardinality(B)
  <2>2. ASSUME NEW m
        PROVE  ShareOn(d, m) \in Int
    <3> DEFINE c == Cardinality(MinedBy(m, B))
    <3>1. c \in Nat /\ w \in Nat /\ w > 0
      BY <1>1, <2>1
    <3>2. ShareOn(d, m) = (60 * c) \div w
      BY DEF ShareOn, Whole
    <3> HIDE DEF c, w
    <3>3. 60 * c \in Int
      BY <3>1
    <3>4. (60 * c) \div w \in Int
      <4> DEFINE p == 60 * c
      <4>1. p \in Int
        BY <3>3
      <4> HIDE DEF p
      <4>2. p \div w \in Int
        BY <3>1, <4>1
      <4>3. QED
        BY <4>2 DEF p
    <3>5. QED
      BY <3>2, <3>4
  <2>3. QED
    BY <2>2
<1>3. IsFiniteSet(S)
  <2> DEFINE f == [b \in B |-> MinerOf(b)]
  <2>1. IsFiniteSet({f[b] : b \in B})
    <3> HIDE DEF f, B
    <3>1. QED
      BY <1>1, FiniteImage
  <2>2. {f[b] : b \in B} = S
    OBVIOUS
  <2> HIDE DEF f, B, S
  <2>3. QED
    BY <2>1, <2>2
<1>4. /\ \A m \in S : r[m] = ShareOn(d, m) /\ r[m] \in Int
  BY <1>2
<1>5. MinersOf(d) \in SUBSET S /\ Cardinality(MinersOf(d)) = Min({2, Cardinality(S)})
  <2> HIDE DEF r
  <2>1. \E T \in SUBSET S : /\ Cardinality(T) = Min({2, Cardinality(S)})
                            /\ \A x \in T, y \in S \ T : r[x] >= r[y]
    <3> HIDE DEF S
    <3>1. QED
      BY <1>3, <1>4, TwoFirst
  <2>2. PICK T \in SUBSET S : /\ Cardinality(T) = Min({2, Cardinality(S)})
                              /\ \A x \in T, y \in S \ T : r[x] >= r[y]
    BY <2>1
  <2>3. \A x \in T, y \in S \ T : ShareOn(d, x) >= ShareOn(d, y)
    <3> HIDE DEF S
    <3>1. QED
      BY <2>2, <1>4
  <2>4. T \in TopTwo(d)
    BY <2>2, <2>3 DEF TopTwo, Tops
  <2>5. MinersOf(d) \in TopTwo(d)
    BY <2>4 DEF MinersOf
  <2>6. QED
    BY <2>5 DEF TopTwo, Tops
<1>6. IsFiniteSet(MinersOf(d))
  <2> HIDE DEF S
  <2>1. QED
    BY <1>3, <1>5, FS_Subset
<1>7. \A m \in MinersOf(d) : SharesOf(d)[m] = ShareOn(d, m) /\ SharesOf(d)[m] \in Int
  BY <1>2 DEF SharesOf
<1>8. SumOver(SharesOf(d), MinersOf(d)) \in Int
  BY <1>6, <1>7, SumStep
<1>9. Total(LAMBDA m : ShareOn(d, m), MinersOf(d)) = SumOver(SharesOf(d), MinersOf(d))
  BY TotalShares DEF SharesOf
<1>10. ASSUME Cardinality(MinersOf(d)) # 2
       PROVE  SumOver(SharesOf(d), MinersOf(d)) = Whole
  <2>1. S # {}
    BY <1>1, FS_EmptySet
  <2>2. PICK m : S = {m}
    <3> HIDE DEF S
    <3>1. Cardinality(S) \in Nat /\ Cardinality(S) # 0
      BY <1>3, <2>1, FS_CardinalityType, FS_EmptySet
    <3>2. Cardinality(S) = 1
      BY <1>5, <1>10, <3>1, MinOfTwo
    <3>3. QED
      BY <1>3, <3>2, FS_Singleton
  <2>3. Cardinality(MinersOf(d)) = 1 /\ MinersOf(d) \subseteq {m}
    <3>1. Cardinality(S) = 1
      BY <2>2, FS_Singleton
    <3> HIDE DEF S
    <3>2. QED
      BY <1>5, <2>2, <3>1, MinOfTwo
  <2>4. MinersOf(d) = {m}
    BY <2>3, FS_EmptySet
  <2>5. MinedBy(m, B) = B
    BY <2>2 DEF MinedBy
  <2>6. ShareOn(d, m) = 60
    <3> DEFINE w == Cardinality(B)
    <3>1. ShareOn(d, m) = (60 * w) \div w
      BY <2>5 DEF ShareOn, Whole
    <3>2. w \in Nat /\ w > 0
      BY <1>1
    <3> HIDE DEF w
    <3>3. (60 * w) \div w = 60
      BY <3>2
    <3>4. QED
      BY <3>1, <3>3
  <2>7. SumOver(SharesOf(d), {m}) = 60
    <3>1. IsFiniteSet({m}) /\ {m} \ {m} = {} /\ IsFiniteSet({})
      BY FS_Singleton, FS_EmptySet
    <3>2. SharesOf(d)[m] = 60
      BY <2>4, <2>6 DEF SharesOf
    <3> DEFINE F == SharesOf(d)
    <3> HIDE DEF F
    <3>3. F[m] = 60
      BY <3>2 DEF F
    <3>4. SumOver(F, {}) = 0
      BY <3>1, SumStep
    <3>5. SumOver(F, {m}) = F[m] + SumOver(F, {m} \ {m})
      BY <3>1, <3>3, SumStep
    <3>6. QED
      BY <3>1, <3>3, <3>4, <3>5 DEF F
  <2>8. QED
    BY <2>4, <2>7 DEF Whole
<1>11. QED
  BY <1>2, <1>6, <1>8, <1>9, <1>10

LEMMA EvolveAddsUp ==
  ASSUME IngestionInv, NEW E, NEW d \in E, MinedOn(d) # {},
         NEW acc \in EvolutionsOf(E)
  PROVE  /\ Evolve(acc, d) \in EvolutionsOf(E)
         /\ AddsUpSoFar(acc) => AddsUpSoFar(Evolve(acc, d))
<1> DEFINE list == MinersOf(d)
           total == SumOver(SharesOf(d), list)
           sum == acc.percentageSum + total
           full == Cardinality(list) = 2
           point == [category |-> d, data |-> SharesOf(d),
                     other |-> IF full THEN Whole - sum ELSE 0]
           next == [percentageSum |-> IF full THEN 0 ELSE sum,
                    points |-> Append(acc.points, point)]
<1>1. Evolve(acc, d) = next
  <2> DEFINE t == Total(LAMBDA m : ShareOn(d, m), list)
  <2>1. t = total
    BY SharesOfDay
  <2>2. Evolve(acc, d) =
          [percentageSum |-> IF full THEN 0 ELSE acc.percentageSum + t,
           points |-> Append(acc.points, [category |-> d, data |-> SharesOf(d),
                                          other |-> IF full THEN Whole - (acc.percentageSum + t)
                                                    ELSE 0])]
    BY DEF Evolve, PercentageSum, MinersOf, SharesOf
  <2> HIDE DEF t, total, list
  <2>3. QED
    BY <2>1, <2>2
<1>2. total \in Int
  BY SharesOfDay
<1>3. acc.percentageSum \in Int /\ acc.points \in Seq(PointsOf(E))
  BY DEF EvolutionsOf
<1>4. sum \in Int
  BY <1>2, <1>3
<1>5. point \in PointsOf(E)
  BY <1>4 DEF PointsOf, Whole
<1>6. SumOf(point.data) = total /\ DOMAIN point.data = list
  <2>1. point.data = SharesOf(d) /\ DOMAIN point.data = list
    BY DEF SharesOf
  <2>2. SumOf(SharesOf(d)) = SumOver(SharesOf(d), DOMAIN SharesOf(d))
    BY DEF SumOf, SumOver, Total
  <2> HIDE DEF point
  <2>3. QED
    BY <2>1, <2>2
<1> DEFINE other == point.other
<1>7. other = IF full THEN Whole - sum ELSE 0
  OBVIOUS
<1> DEFINE n == Len(acc.points)
<1> HIDE DEF point, list, total
<1>8. /\ next.points \in Seq(PointsOf(E)) /\ Len(next.points) = n + 1 /\ n \in Nat
      /\ \A i \in 1..n : next.points[i] = acc.points[i]
      /\ next.points[n + 1] = point
  BY <1>3, <1>5, AppendProperties, LenProperties
<1>9. next \in EvolutionsOf(E)
  BY <1>4, <1>8 DEF EvolutionsOf
<1> DEFINE ps == next.points
<1>10. next.percentageSum = IF full THEN 0 ELSE sum
  OBVIOUS
<1> HIDE DEF next
<1> DEFINE lone == Cardinality(LoneDays(acc.points, n + 1))
<1>11. /\ \A i \in 1..n + 1 : LoneDays(ps, i) = LoneDays(acc.points, i)
       /\ LoneDays(ps, n + 2) =
            IF Full(point) THEN {} ELSE LoneDays(acc.points, n + 1) \cup {n + 1}
       /\ IsFiniteSet(LoneDays(acc.points, n + 1)) /\ lone \in Nat
       /\ n + 1 \notin LoneDays(acc.points, n + 1)
  <2> DEFINE p == acc.points
  <2>1. n \in Nat /\ \A k \in 1..n : ps[k] = p[k]
    BY <1>8
  <2>2. ps[n + 1] = point
    BY <1>8
  <2> HIDE DEF p, n, ps
  <2>3. /\ \A i \in 1..n + 1 : LoneDays(ps, i) = LoneDays(p, i)
        /\ LoneDays(ps, n + 2) =
             IF Full(ps[n + 1]) THEN {} ELSE LoneDays(p, n + 1) \cup {n + 1}
        /\ IsFiniteSet(LoneDays(p, n + 1)) /\ Cardinality(LoneDays(p, n + 1)) \in Nat
        /\ n + 1 \notin LoneDays(p, n + 1)
    <3>1. LoneGrown(p, ps, n)
      BY <2>1, LoneGrow
    <3>2. QED
      BY <3>1 DEF LoneGrown
  <2>4. QED
    BY <2>2, <2>3 DEF p
<1>12. Full(point) <=> full
  BY <1>6 DEF Full
<1>13. ASSUME AddsUpSoFar(acc)
       PROVE  /\ next.percentageSum = Whole * Cardinality(LoneDays(ps, Len(ps) + 1))
              /\ \A i \in 1..Len(ps) : AddsUpAt(ps, i)
  <2>1. acc.percentageSum = 60 * lone
    BY <1>13 DEF AddsUpSoFar, Whole
  <2>2. Len(ps) + 1 = n + 2
    BY <1>8
  <2>3. ~ full => total = 60
    BY SharesOfDay DEF total, list, Whole
  <2>4. next.percentageSum = 60 * Cardinality(LoneDays(ps, n + 2))
    <3> DEFINE L == LoneDays(ps, n + 2)
               M == LoneDays(acc.points, n + 1)
    <3>3. /\ L = IF full THEN {} ELSE M \cup {n + 1}
          /\ IsFiniteSet(M) /\ n + 1 \notin M /\ lone = Cardinality(M)
      BY <1>11, <1>12
    <3> HIDE DEF L, M, lone
    <3>1. CASE full
      <4>1. L = {} /\ Cardinality(L) = 0
        BY <3>1, <3>3, FS_EmptySet
      <4>2. QED
        BY <1>10, <3>1, <4>1 DEF L
    <3>2. CASE ~ full
      <4>1. Cardinality(L) = lone + 1
        <5> HIDE DEF n
        <5>1. QED
          BY <3>2, <3>3, FS_AddElement
      <4>2. sum = 60 * lone + 60
        BY <2>1, <2>3, <3>2
      <4>3. lone \in Nat
        BY <1>11 DEF lone
      <4> HIDE DEF sum
      <4>4. QED
        BY <1>10, <3>2, <4>1, <4>2, <4>3 DEF L
    <3>4. QED
      BY <3>1, <3>2
  <2>5. AddsUpAt(ps, n + 1)
    <3>1. ps[n + 1] = point /\ LoneDays(ps, n + 1) = LoneDays(acc.points, n + 1)
      BY <1>8, <1>11
    <3>2. total + other = IF full THEN 60 * (1 - lone) ELSE 60
      <4>1. CASE full
        <5>1. other = 60 - (60 * lone + total)
          BY <1>7, <2>1, <4>1 DEF Whole
        <5> HIDE DEF other, lone
        <5>2. QED
          BY <1>2, <1>11, <4>1, <5>1
      <4>2. CASE ~ full
        <5>1. other = 0
          BY <1>7, <4>2
        <5> HIDE DEF other
        <5>2. QED
          BY <2>3, <4>2, <5>1
      <4>3. QED
        BY <4>1, <4>2
    <3>3. SumOf(point.data) + point.other = IF Full(point) THEN 60 * (1 - lone) ELSE 60
      BY <1>6, <1>12, <3>2
    <3>4. QED
      BY <3>1, <3>3 DEF AddsUpAt, Whole
  <2>6. ASSUME NEW i \in 1..Len(ps)
        PROVE  AddsUpAt(ps, i)
    <3>1. i \in 1..n \/ i = n + 1
      BY <1>8
    <3>2. CASE i \in 1..n
      <4>1. ps[i] = acc.points[i] /\ LoneDays(ps, i) = LoneDays(acc.points, i)
        BY <1>8, <1>11, <3>2
      <4>2. AddsUpAt(acc.points, i)
        BY <1>13, <3>2 DEF AddsUpSoFar
      <4>3. QED
        BY <4>1, <4>2 DEF AddsUpAt
    <3>3. QED
      BY <2>5, <3>1, <3>2
  <2>7. QED
    BY <2>2, <2>4, <2>6 DEF Whole
<1>14. QED
  BY <1>1, <1>9, <1>13 DEF AddsUpSoFar

(* The chart is made day by day. *)
Evolved(base, q) == FoldLeft(Evolve, base, q)

LEMMA EvolutionSteps ==
  ASSUME NEW E, NEW q \in Seq(E), NEW V, NEW base, base \in V,
         \A d \in E : \A acc \in V : Evolve(acc, d) \in V
  PROVE  \E h : /\ h[0] = base
                /\ \A i \in 1..Len(q) : h[i - 1] \in V /\ h[i] = Evolve(h[i - 1], q[i])
                /\ h[Len(q)] = Evolved(base, q)
<1> DEFINE k == Len(q)
           g == [i \in 1..k |-> [acc \in V |-> Evolve(acc, q[i])]]
           Rec(iter) == [s \in SUBSET (1..k) |->
                   IF s = {} THEN base ELSE Evolve(iter[s \ {Max(s)}], q[Max(s)])]
           f == CHOOSE iter : iter = Rec(iter)
<1>1. f[1..k] = Evolved(base, q) /\ k \in Nat
  BY DOMAIN q = 1..k DEF Evolved, FoldLeft, MapThenFoldSet
<1>2. StepsIn(g, 1..k, V)
  <2>1. \A i \in 1..k : q[i] \in E
    BY ElementOfSeq
  <2>2. QED
    BY <2>1 DEF StepsIn
<1>3. PICK F : FoldsLeft(F, k, V, base, g)
  BY <1>1, <1>2, FoldLeftSteps
<1>4. \A s \in SUBSET (1..k) :
        F[s] = IF s = {} THEN base ELSE Evolve(F[s \ {Max(s)}], q[Max(s)])
  BY <1>3 DEF FoldsLeft
<1>5. F = Rec(F)
  <2>1. F = [s \in SUBSET (1..k) |-> F[s]]
    BY <1>3 DEF FoldsLeft
  <2> HIDE DEF k
  <2>2. QED
    BY <1>4, <2>1
<1>6. f = Rec(f)
  BY <1>5
<1> HIDE DEF f, g
<1>7. f[1..0] = base
  BY <1>1, <1>6, 1..0 = {}, {} \in SUBSET (1..k)
<1>8. ASSUME NEW i \in 1..k
      PROVE  f[1..i] = Evolve(f[1..i - 1], q[i])
  <2>1. 1..i \in SUBSET (1..k) /\ 1..i # {}
        /\ Max(1..i) = i /\ (1..i) \ {i} = 1..i - 1
    BY <1>1, MaxOfPrefix
  <2>2. f[1..i] = Evolve(f[(1..i) \ {Max(1..i)}], q[Max(1..i)])
    BY <1>6, <2>1
  <2>3. QED
    BY <2>1, <2>2
<1> DEFINE T == {i \in 0..k : f[1..i] \in V}
<1>9. 0 \in T
  BY <1>1, <1>7
<1>10. ASSUME NEW i \in 0..k - 1, i \in T
       PROVE  i + 1 \in T
  <2>1. i + 1 \in 1..k /\ (i + 1) - 1 = i
    BY <1>1
  <2>2. f[1..i + 1] = Evolve(f[1..i], q[i + 1])
    BY <1>8, <2>1
  <2>3. q[i + 1] \in E
    BY <2>1, ElementOfSeq
  <2>4. QED
    BY <1>1, <1>10, <2>1, <2>2, <2>3
<1> HIDE DEF T
<1>11. 0..k \subseteq T
  BY <1>1, <1>9, <1>10, InductionUpTo
<1> DEFINE h == [i \in 0..k |-> f[1..i]]
<1>12. h[0] = base /\ h[k] = Evolved(base, q)
  BY <1>1, <1>7
<1>13. ASSUME NEW i \in 1..k
       PROVE  h[i] = f[1..i] /\ h[i - 1] = f[1..i - 1] /\ h[i - 1] \in V
  BY <1>1, <1>11 DEF T
<1>14. QED
  BY <1>8, <1>12, <1>13

LEMMA EvolutionSums == IngestionInv => EvolutionAddsUp
<1> SUFFICES ASSUME IngestionInv PROVE EvolutionAddsUp
  OBVIOUS
<1> DEFINE q == DaysMined
           E == {d \in DurationSeries("MONTH") : MinedOn(d) # {}}
           V == EvolutionsOf(E)
           base == [percentageSum |-> 0, points |-> <<>>]
<1>1. q \in Seq(E) /\ Len(q) \in Nat
  <2>1. Ticks \in Seq(Int)
    BY DEF IngestionInv, Ticks
  <2>2. Picked(Filter(Ticks, E), Int, Ticks, E, Len(Ticks))
    <3> HIDE DEF E
    <3>1. QED
      BY <2>1, FilterPicks
  <2>3. q = Filter(Ticks, E)
    BY DEF DaysMined
  <2> HIDE DEF q, E
  <2>4. q \in Seq(Int) /\ \A i \in 1..Len(q) : q[i] \in E
    BY <2>2, <2>3 DEF Picked
  <2>5. QED
    BY <2>4, LenProperties
<1>2. base \in V /\ AddsUpSoFar(base)
  <2>1. LoneDays(<<>>, 1) = {}
    <3>1. 1..(1 - 1) = {}
      OBVIOUS
    <3>2. QED
      BY <3>1 DEF LoneDays
  <2>2. Len(base.points) = 0 /\ base.points = <<>> /\ base.percentageSum = 0
    OBVIOUS
  <2>3. AddsUpSoFar(base)
    BY <2>1, <2>2, FS_EmptySet DEF AddsUpSoFar, Whole
  <2>4. QED
    BY <2>3 DEF EvolutionsOf
<1>3. \A d \in E : \A acc \in V : /\ Evolve(acc, d) \in V
                                  /\ AddsUpSoFar(acc) => AddsUpSoFar(Evolve(acc, d))
  BY EvolveAddsUp
<1>4. Evolution = Evolved(base, q).points
  BY DEF Evolution, Evolved
<1> HIDE DEF q, E, V, base
<1>5. PICK h : /\ h[0] = base
               /\ \A i \in 1..Len(q) : h[i - 1] \in V /\ h[i] = Evolve(h[i - 1], q[i])
               /\ h[Len(q)] = Evolved(base, q)
  <2>1. \A d \in E : \A acc \in V : Evolve(acc, d) \in V
    BY <1>3
  <2>2. q \in Seq(E) /\ base \in V
    BY <1>1, <1>2
  <2>3. QED
    BY <2>1, <2>2, EvolutionSteps
<1> DEFINE T == {i \in 0..Len(q) : h[i] \in V /\ AddsUpSoFar(h[i])}
<1>6. 0 \in T
  BY <1>1, <1>2, <1>5
<1>7. ASSUME NEW i \in 0..Len(q) - 1, i \in T
      PROVE  i + 1 \in T
  <2>1. i + 1 \in 1..Len(q) /\ (i + 1) - 1 = i
    BY <1>1
  <2>2. h[i + 1] = Evolve(h[i], q[i + 1]) /\ q[i + 1] \in E
    BY <1>1, <1>5, <2>1, ElementOfSeq
  <2>3. Evolve(h[i], q[i + 1]) \in V /\ AddsUpSoFar(Evolve(h[i], q[i + 1]))
    BY <1>3, <1>7, <2>2
  <2>4. h[i + 1] \in V /\ AddsUpSoFar(h[i + 1])
    BY <2>2, <2>3
  <2>5. QED
    BY <1>1, <2>1, <2>4
<1> HIDE DEF T
<1>8. 0..Len(q) \subseteq T
  BY <1>1, <1>6, <1>7, InductionUpTo
<1> DEFINE acc == h[Len(q)]
<1>9. acc \in V /\ AddsUpSoFar(acc) /\ Evolution = acc.points
  BY <1>1, <1>4, <1>5, <1>8 DEF T
<1> HIDE DEF acc
<1>10. DOMAIN acc.points = 1..Len(acc.points)
  BY <1>9 DEF V, EvolutionsOf
<1>11. QED
  BY <1>9, <1>10 DEF EvolutionAddsUp, AddsUpSoFar, AddsUpAt

(* The evolution of the miners of each day, the distribution of the blocks  *)
(* of the last days and the list of miners give no block to two, whatever   *)
(* was ingested (getMiningEvolution, getMiningDistribution, getMiners).     *)
THEOREM SharesMakeTheWhole == Spec => []SharesAddUp
<1>1. MatInv => SharesAddUp
  BY DistributionSums, EvolutionSums, NoneTwice DEF MatInv, SharesAddUp
<1>2. QED
  BY <1>1, MatHolds, PTL

--------------------------------------------------------------------------------
(* The migrations *)
TxDb(k, run) ==
  IF MIGRATIONS[k + 1] = "populate-ip-to-locations"
    THEN [db EXCEPT !.ranges = UNION {files[i] : i \in 1..run}]
  ELSE IF run = 0 THEN db
  ELSE [db EXCEPT !.schema = SchemaOf(k + 1)]

LEMMA MigrationNames ==
  /\ Len(MIGRATIONS) = 6 /\ DOMAIN MIGRATIONS = 1..6
  /\ \A k \in 0..5 : /\ MIGRATIONS[k + 1] \in Names
                     /\ MIGRATIONS[k + 1] = "populate-ip-to-locations" <=> k = 4
                     /\ MIGRATIONS[k + 1] = "create-schema" <=> k = 0
                     /\ MIGRATIONS[k + 1] = "create-unique-messages" <=> k = 1
                     /\ MIGRATIONS[k + 1] = "remove-block-nonce" <=> k = 5
<1>1. Len(MIGRATIONS) = 6 /\ DOMAIN MIGRATIONS = 1..6
  BY DEF MIGRATIONS
<1>2. ASSUME NEW k \in 0..5
      PROVE  /\ MIGRATIONS[k + 1] = "populate-ip-to-locations" <=> k = 4
             /\ MIGRATIONS[k + 1] = "create-schema" <=> k = 0
             /\ MIGRATIONS[k + 1] = "create-unique-messages" <=> k = 1
             /\ MIGRATIONS[k + 1] = "remove-block-nonce" <=> k = 5
  <2>1. k = 0 \/ k = 1 \/ k = 2 \/ k = 3 \/ k = 4 \/ k = 5
    OBVIOUS
  <2>2. QED
    BY <2>1 DEF MIGRATIONS
<1>3. \A k \in 0..5 : k + 1 \in 1..6
  OBVIOUS
<1>4. \A k \in 0..5 : MIGRATIONS[k + 1] \in Names
  BY <1>1, <1>3 DEF Names
<1>5. QED
  BY <1>1, <1>2, <1>4

LEMMA SchemaSteps ==
  /\ SchemaOf(0) = <<>> /\ SchemaOf(1) = CreateSchema
  /\ SchemaOf(2) = CreateUniqueMessages(SchemaOf(1))
  /\ SchemaOf(3) = SchemaOf(2) /\ SchemaOf(4) = SchemaOf(2) /\ SchemaOf(5) = SchemaOf(2)
  /\ SchemaOf(6) = RemoveBlockNonce(SchemaOf(5))
<1> DEFINE both == CreateUniqueMessages(CreateSchema)
           last == RemoveBlockNonce(both)
<1>1. \A k : SchemaOf(k) =
        IF k = 0 THEN <<>> ELSE <<CreateSchema, both, both, both, both, last>>[k]
  BY DEF SchemaOf, Schemas
<1> HIDE DEF both, last
<1>2. /\ SchemaOf(0) = <<>> /\ SchemaOf(1) = CreateSchema
      /\ SchemaOf(2) = both /\ SchemaOf(3) = both /\ SchemaOf(4) = both
      /\ SchemaOf(5) = both /\ SchemaOf(6) = last
  BY <1>1
<1>3. both = CreateUniqueMessages(SchemaOf(1)) /\ last = RemoveBlockNonce(SchemaOf(5))
  <2>1. SchemaOf(1) = CreateSchema /\ SchemaOf(5) = both
    BY <1>2
  <2>2. CreateUniqueMessages(SchemaOf(1)) = CreateUniqueMessages(CreateSchema)
    BY <2>1
  <2>3. RemoveBlockNonce(SchemaOf(5)) = RemoveBlockNonce(both)
    BY <2>1
  <2>4. QED
    BY <2>2, <2>3 DEF both, last
<1>4. QED
  BY <1>2, <1>3

LEMMA MigrationFacts ==
  ASSUME CommittedInv
  PROVE  /\ Recorded \in 0..6
         /\ db = [schema |-> SchemaOf(Recorded), ranges |-> RangesOf(Recorded),
                  recorded |-> db.recorded]
         /\ Running = MIGRATIONS[Recorded + 1]
         /\ Migrated <=> Recorded = 6
         /\ Statements = IF Running = "populate-ip-to-locations" THEN Len(files) ELSE 1
         /\ Statements \in Nat
<1>1. Recorded \in Nat /\ Recorded <= 6
  BY MigrationNames, LenProperties DEF CommittedInv, Recorded
<1>2. Running = MIGRATIONS[Recorded + 1] /\ (Migrated <=> Recorded = 6)
  BY MigrationNames DEF Running, Migrated, Recorded
<1>3. QED
  BY <1>1, <1>2, FilesAssumption DEF CommittedInv, Statements

LEMMA UnderWay ==
  ASSUME CommittedInv, UnderWayInv, tx # NoTx
  PROVE  Recorded \in 0..5 /\ tx.run \in 0..Statements
         /\ tx = [run |-> tx.run, db |-> TxDb(Recorded, tx.run)]
<1>1. Recorded \in 0..5
  BY MigrationFacts, MigrationNames DEF UnderWayInv
<1>2. QED
  BY <1>1, MigrationFacts DEF UnderWayInv, TxDb

LEMMA MigrationInit == MigrationsInit => MigrationInv
<1> SUFFICES ASSUME MigrationsInit PROVE MigrationInv
  OBVIOUS
<1>1. db = [schema |-> <<>>, ranges |-> {}, recorded |-> <<>>] /\ tx = NoTx
  BY DEF MigrationsInit
<1>2. db.recorded = <<>> /\ Recorded = 0 /\ db.recorded \in Seq(Names)
  BY <1>1 DEF Recorded
<1>3. SchemaOf(0) = <<>> /\ RangesOf(0) = {}
  BY SchemaSteps DEF RangesOf
<1>4. SchemaOf(Recorded) = <<>> /\ RangesOf(Recorded) = {}
  BY <1>2, <1>3
<1>5. CommittedInv
  <2> DEFINE schema == SchemaOf(Recorded)
             ranges == RangesOf(Recorded)
  <2>1. schema = <<>> /\ ranges = {}
    BY <1>4
  <2>2. Recorded <= Len(MIGRATIONS)
    BY <1>2, MigrationNames
  <2> HIDE DEF schema, ranges
  <2>3. db = [schema |-> schema, ranges |-> ranges, recorded |-> db.recorded]
    BY <1>1, <2>1
  <2>4. QED
    BY <1>2, <2>2, <2>3 DEF CommittedInv, schema, ranges
<1>6. QED
  BY <1>1, <1>5 DEF MigrationInv, UnderWayInv

(* While nothing is committed, no more is recorded. *)
LEMMA CommittedStays ==
  ASSUME CommittedInv, db' = db
  PROVE  CommittedInv' /\ Recorded' = Recorded /\ Running' = Running /\ Statements' = Statements
BY DEF CommittedInv, Recorded, Running, Statements

LEMMA BeginKeeps ==
  ASSUME CommittedInv, Begin
  PROVE  MigrationInv'
<1>1. db' = db /\ tx' = [run |-> 0, db |-> db] /\ ~ Migrated
  BY DEF Begin
<1>2. Recorded \in 0..5 /\ Statements \in Nat
  BY <1>1, MigrationFacts
<1>3. db = IF Running = "populate-ip-to-locations"
             THEN [db EXCEPT !.ranges = UNION {files[i] : i \in 1..0}] ELSE db
  <2>1. CASE Running = "populate-ip-to-locations"
    <3>1. Recorded = 4
      BY <1>2, <2>1, MigrationFacts, MigrationNames
    <3>2. RangesOf(4) = {} /\ UNION {files[i] : i \in 1..0} = {}
      BY DEF RangesOf
    <3>3. [db EXCEPT !.ranges = {}] = db
      BY <3>1, <3>2, MigrationFacts
    <3>4. QED
      BY <2>1, <3>2, <3>3
  <2>2. QED
    BY <2>1
<1>4. Recorded < Len(MIGRATIONS) /\ 0 \in 0..Statements
  BY <1>2, MigrationNames
<1>5. /\ tx'.run = 0 /\ tx'.db = db
      /\ tx' = [run |-> tx'.run, db |-> tx'.db]
  BY <1>1
<1>6. UnderWayInv'
  BY <1>1, <1>3, <1>4, <1>5, CommittedStays DEF UnderWayInv
<1>7. QED
  BY <1>1, <1>6, CommittedStays DEF MigrationInv

LEMMA SchemaAfterIs ==
  ASSUME CommittedInv, Recorded \in 0..5, Recorded # 4
  PROVE  SchemaAfter(SchemaOf(Recorded)) = SchemaOf(Recorded + 1)
<1> DEFINE k == Recorded
<1>1. k = 0 \/ k = 1 \/ k = 2 \/ k = 3 \/ k = 5
  OBVIOUS
<1>2. /\ Running = "create-schema" <=> k = 0
      /\ Running = "create-unique-messages" <=> k = 1
      /\ Running = "remove-block-nonce" <=> k = 5
  BY MigrationFacts, MigrationNames
<1>3. CASE k = 0
  BY <1>2, <1>3, SchemaSteps DEF SchemaAfter
<1>4. CASE k = 1
  <2>1. SchemaAfter(SchemaOf(1)) = CreateUniqueMessages(SchemaOf(1))
    BY <1>2, <1>4 DEF SchemaAfter
  <2>2. QED
    BY <1>4, <2>1, SchemaSteps
<1>5. CASE k = 5
  <2>1. SchemaAfter(SchemaOf(5)) = RemoveBlockNonce(SchemaOf(5))
    BY <1>2, <1>5 DEF SchemaAfter
  <2>2. QED
    BY <1>5, <2>1, SchemaSteps
<1>6. CASE k \in {2, 3}
  <2>1. SchemaAfter(SchemaOf(k)) = SchemaOf(k)
    BY <1>2, <1>6 DEF SchemaAfter
  <2>2. QED
    BY <1>6, <2>1, SchemaSteps
<1>7. QED
  BY <1>1, <1>3, <1>4, <1>5, <1>6

LEMMA RunSqlKeeps ==
  ASSUME CommittedInv, UnderWayInv, RunSql
  PROVE  MigrationInv'
<1> DEFINE k == Recorded
           n == tx.run
<1>1. /\ tx # NoTx /\ n < Statements /\ db' = db
      /\ k \in 0..5 /\ n \in 0..Statements /\ Statements \in Nat
      /\ tx = [run |-> n, db |-> TxDb(k, n)]
  BY UnderWay, MigrationFacts DEF RunSql
<1>2. Running = "populate-ip-to-locations" <=> k = 4
  BY <1>1, MigrationFacts, MigrationNames
<1>3. db = [schema |-> SchemaOf(k), ranges |-> RangesOf(k), recorded |-> db.recorded]
  BY MigrationFacts
<1>4. tx' = [run |-> n + 1, db |-> TxDb(k, n + 1)]
  <2>1. CASE k = 4
    <3> DEFINE R(i) == UNION {files[j] : j \in 1..i}
    <3>1. TxDb(k, n) = [db EXCEPT !.ranges = R(n)]
          /\ TxDb(k, n + 1) = [db EXCEPT !.ranges = R(n + 1)]
      BY <1>1, <1>2, <2>1, MigrationNames DEF TxDb
    <3>2. tx' = [tx EXCEPT !.run = @ + 1, !.db.ranges = @ \cup files[n + 1]]
      BY <1>2, <2>1 DEF RunSql
    <3>3. R(n + 1) = R(n) \cup files[n + 1]
      <4>1. 1..n + 1 = 1..n \cup {n + 1}
        BY <1>1
      <4> HIDE DEF n
      <4>2. QED
        BY <4>1
    <3> HIDE DEF R, n
    <3>4. tx' = [run |-> n + 1, db |-> [[db EXCEPT !.ranges = R(n)]
                                          EXCEPT !.ranges = @ \cup files[n + 1]]]
      BY <1>1, <3>1, <3>2
    <3>5. [[db EXCEPT !.ranges = R(n)] EXCEPT !.ranges = @ \cup files[n + 1]]
            = [db EXCEPT !.ranges = R(n + 1)]
      BY <1>3, <3>3
    <3>6. QED
      BY <3>1, <3>4, <3>5
  <2>2. CASE k # 4
    <3>1. n = 0
      BY <1>1, <1>2, <2>2, MigrationFacts
    <3>2. TxDb(k, 0) = db /\ TxDb(k, 1) = [db EXCEPT !.schema = SchemaOf(k + 1)]
      BY <1>1, <2>2, MigrationNames DEF TxDb
    <3>3. tx' = [tx EXCEPT !.run = @ + 1, !.db.schema = SchemaAfter(@)]
      BY <1>2, <2>2 DEF RunSql
    <3>4. SchemaAfter(db.schema) = SchemaOf(k + 1)
      <4>1. db.schema = SchemaOf(k)
        BY <1>3
      <4>2. SchemaAfter(db.schema) = SchemaAfter(SchemaOf(k))
        BY <4>1
      <4>3. QED
        BY <1>1, <2>2, <4>2, SchemaAfterIs
    <3>5. tx = [run |-> 0, db |-> db]
      BY <1>1, <3>1, <3>2
    <3> DEFINE after == SchemaOf(k + 1)
    <3>6. tx' = [tx EXCEPT !.run = @ + 1, !.db.schema = after]
      <4>1. tx.db.schema = db.schema
        BY <3>5
      <4>2. SchemaAfter(tx.db.schema) = SchemaAfter(db.schema)
        BY <4>1
      <4>3. SchemaAfter(tx.db.schema) = after
        BY <3>4, <4>2
      <4>4. QED
        BY <3>3, <4>3
    <3> HIDE DEF after
    <3>7. tx' = [run |-> 1, db |-> [db EXCEPT !.schema = after]]
      <4>1. tx = [run |-> n, db |-> db]
        BY <3>1, <3>5
      <4> HIDE DEF n
      <4>2. tx' = [run |-> n + 1, db |-> [db EXCEPT !.schema = after]]
        BY <3>6, <4>1
      <4>3. QED
        BY <3>1, <4>2
    <3>8. n + 1 = 1
      BY <3>1
    <3>9. TxDb(k, n + 1) = TxDb(k, 1)
      BY <3>8
    <3> HIDE DEF TxDb
    <3>10. TxDb(k, 1) = [db EXCEPT !.schema = after]
      BY <3>2 DEF after
    <3>11. QED
      BY <3>7, <3>8, <3>9, <3>10
  <2>3. QED
    BY <2>1, <2>2
<1>5. n + 1 \in 0..Statements /\ k < Len(MIGRATIONS)
  BY <1>1, MigrationNames
<1>6. TxDb(k, n + 1) = IF Running = "populate-ip-to-locations"
                         THEN [db EXCEPT !.ranges = UNION {files[i] : i \in 1..n + 1}]
                       ELSE IF n + 1 = 0 THEN db
                       ELSE [db EXCEPT !.schema = SchemaOf(k + 1)]
  BY MigrationFacts DEF TxDb
<1> HIDE DEF n
<1>7. tx'.run = n + 1 /\ tx'.db = TxDb(k, n + 1)
  BY <1>4
<1>8. UnderWayInv'
  BY <1>1, <1>4, <1>5, <1>6, <1>7, CommittedStays DEF UnderWayInv
<1>9. QED
  BY <1>1, <1>8, CommittedStays DEF MigrationInv

LEMMA RecordKeeps ==
  ASSUME CommittedInv, UnderWayInv, Record
  PROVE  MigrationInv'
<1> DEFINE k == Recorded
           n == tx.run
<1>1. /\ tx # NoTx /\ n = Statements
      /\ k \in 0..5 /\ tx.db = TxDb(k, n)
      /\ db' = [tx.db EXCEPT !.recorded = Append(@, Running)]
      /\ tx' = NoTx
  BY UnderWay DEF Record
<1>2. db = [schema |-> SchemaOf(k), ranges |-> RangesOf(k), recorded |-> db.recorded]
  BY MigrationFacts
<1>3. TxDb(k, n) = [schema |-> SchemaOf(k + 1), ranges |-> RangesOf(k + 1),
                    recorded |-> db.recorded]
  <2>1. CASE k = 4
    <3>1. n = Len(files) /\ Running = "populate-ip-to-locations"
      BY <1>1, <2>1, MigrationFacts, MigrationNames
    <3>2. UNION {files[i] : i \in 1..n} = Ranges
      BY <3>1, FilesAssumption DEF Ranges
    <3>3. TxDb(k, n) = [db EXCEPT !.ranges = Ranges]
      BY <1>1, <2>1, <3>2, MigrationNames DEF TxDb
    <3>4. SchemaOf(k) = SchemaOf(k + 1) /\ RangesOf(k + 1) = Ranges
      BY <2>1, SchemaSteps DEF RangesOf
    <3>5. QED
      BY <1>2, <3>3, <3>4
  <2>2. CASE k # 4
    <3>1. n = 1
      BY <1>1, <2>2, MigrationFacts, MigrationNames
    <3>2. TxDb(k, n) = [db EXCEPT !.schema = SchemaOf(k + 1)]
      BY <1>1, <2>2, <3>1, MigrationNames DEF TxDb
    <3>3. RangesOf(k) = RangesOf(k + 1)
      BY <1>1, <2>2 DEF RangesOf
    <3>4. QED
      BY <1>2, <3>2, <3>3
  <2>3. QED
    BY <2>1, <2>2
<1>4. db' = [schema |-> SchemaOf(k + 1), ranges |-> RangesOf(k + 1),
             recorded |-> Append(db.recorded, Running)]
  <2> DEFINE schema == SchemaOf(k + 1)
             ranges == RangesOf(k + 1)
  <2>1. tx.db = [schema |-> schema, ranges |-> ranges, recorded |-> db.recorded]
    BY <1>1, <1>3
  <2> DEFINE more == Append(db.recorded, Running)
  <2>2. db' = [tx.db EXCEPT !.recorded = more]
    <3>1. tx.db.recorded = db.recorded
      BY <2>1
    <3>2. Append(tx.db.recorded, Running) = more
      BY <3>1
    <3>3. QED
      BY <1>1, <3>2
  <2> HIDE DEF schema, ranges, more
  <2>3. db' = [schema |-> schema, ranges |-> ranges, recorded |-> more]
    BY <2>1, <2>2
  <2>4. QED
    BY <2>3 DEF schema, ranges, more
<1>5. Running \in Names /\ db.recorded \in Seq(Names) /\ Len(db.recorded) = k
  BY <1>1, MigrationFacts, MigrationNames DEF CommittedInv, Recorded
<1>6. db'.recorded \in Seq(Names) /\ Recorded' = k + 1
  <2>1. db'.recorded = Append(db.recorded, Running)
    BY <1>4
  <2>2. Append(db.recorded, Running) \in Seq(Names) /\ Len(Append(db.recorded, Running)) = k + 1
    BY <1>5, AppendProperties
  <2>3. QED
    BY <2>1, <2>2 DEF Recorded
<1>7. k + 1 <= Len(MIGRATIONS)
  BY <1>1, MigrationNames
<1>8. /\ SchemaOf(Recorded)' = SchemaOf(k + 1) /\ RangesOf(Recorded)' = RangesOf(k + 1)
      /\ db'.recorded = Append(db.recorded, Running)
  BY <1>4, <1>6
<1>9. CommittedInv'
  BY <1>4, <1>6, <1>7, <1>8 DEF CommittedInv
<1>10. QED
  BY <1>1, <1>9 DEF MigrationInv, UnderWayInv

LEMMA MigrationKeeps == MigrationInv /\ [Next]_vars => MigrationInv'
<1> SUFFICES ASSUME MigrationInv, [Next]_vars PROVE MigrationInv'
  OBVIOUS
<1>1. CommittedInv /\ UnderWayInv
  BY DEF MigrationInv
<1>2. CASE Begin
  BY <1>1, <1>2, BeginKeeps
<1>3. CASE RunSql
  BY <1>1, <1>3, RunSqlKeeps
<1>4. CASE Record
  BY <1>1, <1>4, RecordKeeps
<1>5. CASE Fails
  <2>1. db' = db /\ tx' = NoTx
    BY <1>5 DEF Fails
  <2>2. QED
    BY <1>1, <2>1, CommittedStays DEF MigrationInv, UnderWayInv
<1>6. CASE UNCHANGED migrationVars
  <2>1. db' = db /\ tx' = tx
    BY <1>6 DEF migrationVars
  <2>2. UnderWayInv'
    BY <1>1, <2>1, CommittedStays DEF UnderWayInv
  <2>3. QED
    BY <1>1, <2>1, <2>2, CommittedStays DEF MigrationInv
<1>7. QED
  BY <1>2, <1>3, <1>4, <1>5, <1>6 DEF Next, Preparing, Prepared, Migrate, vars

(* The range that begins at an address is the one with the least end of    *)
(* those that begin there or later, as no two overlap.                     *)
LEMMA RangeIsFound ==
  ASSUME db.ranges = Ranges, NEW r \in Ranges, r.from # Localhost
  PROVE  LocateIp(r.from) = r.place
<1> DEFINE after == {s \in Ranges : NotBefore(s, r.from)}
           least(x) == x \in after /\ \A s \in after : x.to <= s.to
<1>1. /\ \A s \in Ranges : s.from \in Nat /\ s.to \in Nat /\ s.from <= s.to
      /\ \A s, t \in Ranges : s = t \/ s.to < t.from \/ t.to < s.from
  BY FilesAssumption
<1>2. \A s \in after : s \in Ranges /\ s.from >= r.from
  BY DEF NotBefore
<1>3. \A s \in after : s = r \/ r.to < s.to
  BY <1>1, <1>2
<1>4. r \in after
  BY <1>1 DEF NotBefore
<1>5. least(r)
  BY <1>1, <1>3, <1>4
<1>6. ASSUME NEW x \in after, \A s \in after : x.to <= s.to
      PROVE  x = r
  <2>1. x.to <= r.to /\ x.to \in Nat /\ r.to \in Nat
    BY <1>1, <1>2, <1>4, <1>6
  <2>2. QED
    BY <1>3, <2>1
<1>7. LocateIp(r.from) = (CHOOSE x \in after : \A s \in after : x.to <= s.to).place
  BY <1>4 DEF LocateIp
<1> HIDE DEF after
<1>8. (CHOOSE x \in after : \A s \in after : x.to <= s.to) = r
  BY <1>4, <1>5, <1>6
<1>9. QED
  BY <1>7, <1>8

LEMMA InsertsFit ==
  ASSUME NEW schema, schema = SchemaOf(6), NEW t \in DOMAIN Inserts
  PROVE  /\ schema[t].required \subseteq Inserts[t]
         /\ Inserts[t] \subseteq schema[t].required \cup schema[t].optional
<1>1. schema = RemoveBlockNonce(CreateUniqueMessages(CreateSchema))
  BY DEF SchemaOf, Schemas
<1>2. t \in {"blocks", "messages", "asks", "unique_messages", "miners", "coin_circulation_stats",
             "token_address_stats", "network_usage_stats", "miner_counts"}
  BY DEF Inserts
<1>3. schema[t] = IF t = "blocks" THEN [CreateSchema.blocks EXCEPT !.required = @ \ {"nonce"}]
                  ELSE IF t = "unique_messages" THEN CreateUniqueMessages(CreateSchema)[t]
                  ELSE CreateSchema[t]
  <2> DEFINE both == CreateUniqueMessages(CreateSchema)
             unique == Columns({"id", "height", "tx_idx", "from_address", "to_address"},
                               {"gas_price", "gas_limit", "value", "method", "params",
                                "tipset_hash", "nonce"})
  <2>1. /\ both = [CreateSchema EXCEPT !.unique_messages = unique]
        /\ schema = [both EXCEPT !.blocks.required = @ \ {"nonce"}]
    BY <1>1 DEF RemoveBlockNonce, CreateUniqueMessages
  <2>2. DOMAIN CreateSchema = DOMAIN Inserts
    BY DEF CreateSchema, Inserts
  <2>3. "blocks" \in DOMAIN CreateSchema /\ "unique_messages" \in DOMAIN CreateSchema
    BY DEF CreateSchema
  <2>4. CreateSchema = [u \in DOMAIN CreateSchema |-> CreateSchema[u]]
    BY DEF CreateSchema
  <2> HIDE DEF both, unique
  <2>5. both = [u \in DOMAIN CreateSchema |->
                     IF u = "unique_messages" THEN unique ELSE CreateSchema[u]]
    BY <2>1, <2>3, <2>4
  <2>6. schema = [u \in DOMAIN CreateSchema |->
                    IF u = "blocks" THEN [both.blocks EXCEPT !.required = @ \ {"nonce"}]
                    ELSE both[u]]
    BY <2>1, <2>3, <2>5
  <2>7. both.blocks = CreateSchema.blocks
    BY <2>3, <2>5
  <2>8. CASE t = "blocks"
    BY <2>3, <2>6, <2>7, <2>8
  <2>9. CASE t = "unique_messages"
    BY <2>3, <2>6, <2>9 DEF both
  <2>10. CASE t # "blocks" /\ t # "unique_messages"
    BY <2>2, <2>5, <2>6, <2>10
  <2>11. QED
    BY <2>8, <2>9, <2>10
<1>4. CASE t = "blocks"
  BY <1>3, <1>4 DEF CreateSchema, Columns, Inserts
<1>5. CASE t = "unique_messages"
  BY <1>3, <1>5 DEF CreateUniqueMessages, CreateSchema, Columns, Inserts
<1>6. CASE t \in {"messages", "asks", "miners"}
  BY <1>3, <1>6 DEF CreateSchema, Columns, Inserts
<1>7. CASE t \in {"coin_circulation_stats", "token_address_stats", "network_usage_stats",
                  "miner_counts"}
  BY <1>3, <1>7 DEF CreateSchema, Columns, Inserts
<1>8. QED
  BY <1>2, <1>4, <1>5, <1>6, <1>7

(* A database whose migrations are recorded has the columns that the        *)
(* backend's INSERTs name, and all ranges of addresses (migrations/), after *)
(* however many migrations that failed and were run again.                  *)
THEOREM MigratedDatabaseFits == Spec => []DatabaseFits
<1>1. Init => MigrationInv
  BY MigrationInit DEF Init
<1>2. MigrationInv => DatabaseFits
  <2> SUFFICES ASSUME CommittedInv, Migrated
               PROVE  DatabaseFits
    BY DEF MigrationInv, DatabaseFits
  <2>1. db.schema = SchemaOf(6) /\ db.ranges = Ranges
    BY MigrationFacts DEF RangesOf
  <2>2. QED
    BY <2>1, InsertsFit, RangeIsFound DEF DatabaseFits
<1>3. QED
  BY <1>1, <1>2, MigrationKeeps, PTL DEF Spec
================================================================================
