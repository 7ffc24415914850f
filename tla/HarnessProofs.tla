----------------------------- MODULE HarnessProofs -----------------------------
(***************************************************************************)
(* The workers of a benchmark are isolated from each other and do not      *)
(* outlive the bench that started them, for any number of workers, any     *)
(* sequence of benches and either way of waiting.                          *)
(*                                                                         *)
(* What makes it hold: worker t is the t-th to be started and has parser   *)
(* t; in C the first workers up to joined have ended; in Go the wait group *)
(* counts those that run.  The total is then what the workers of the bench *)
(* counted: the batches that are still to come are those of the workers    *)
(* that are not joined yet.                                                *)
(***************************************************************************)
EXTENDS Harness, FiniteSetTheorems, WellFoundedInduction, TLAPS

Running == {t \in Threads : Alive(t)}

\* The types that the argument needs.
Typed ==
  /\ pass \in Nat \ {0}
  /\ workers \in 0..MaxThreads
  /\ joined \in 0..workers
  /\ w \in [Threads -> {"none", "run", "check", "store", "sink", "exit", "done"}]
  /\ parser \in [Threads -> Nat]

\* Between the call of a bench and its return there is a bench to run.
InPasses == pc \notin {"next", "exit"} => pass <= Len(Passes)

\* Only workers that were started and not joined run, and only while bench waits.
Inside ==
  /\ pc \notin {"spawn", "wait"} => Running = {}
  /\ Running \subseteq (joined + 1)..workers

\* Every worker has the parser that was made for it.
OwnParser ==
  /\ pc \in {"warm", "add"} => workers = 0
  /\ pc \in {"warm", "add", "spawn"} => made = workers + 1
  /\ pc \in {"spawn", "wait"} => \A t \in 1..workers : parser[t] = t

\* The wait group counts the goroutines that run.
Counted == program = "go" => wg = Cardinality(Running)

IInv == Typed /\ InPasses /\ Inside /\ OwnParser /\ Counted

----------------------------------------------------------------------------
\* There are finitely many workers (common.c:53).
LEMMA RunningIsFinite == IsFiniteSet(Running)
<1>1. IsFiniteSet(Threads)
  BY FS_Interval, PassesAssumption DEF Threads
<1>2. Running \in SUBSET Threads
  BY DEF Running
<1> QED
  BY <1>1, <1>2, FS_Subset

\* The group is empty only if nobody runs (cmd/bench/main.go:75).
LEMMA NobodyRuns ==
  ASSUME Cardinality(Running) = 0
  PROVE  Running = {}
BY RunningIsFinite, FS_EmptySet

\* A step of a worker that goes on running.
LEMMA GoesOn ==
  ASSUME Typed, NEW t \in Threads, Alive(t),
         NEW x \in {"run", "check", "store", "sink", "exit"}, w' = [w EXCEPT ![t] = x]
  PROVE  /\ Running' = Running
         /\ w' \in [Threads -> {"none", "run", "check", "store", "sink", "exit", "done"}]
<1>1. \A u \in Threads : Alive(u)' <=> Alive(u)
  BY DEF Alive, Typed
<1>2. Running' = Running
  BY <1>1 DEF Running
<1> QED
  BY <1>2 DEF Typed

\* A step that leaves the main thread and the wait group alone and goes on running.
LEMMA GoesOnKeeps ==
  ASSUME IInv, NEW t \in Threads, Alive(t),
         NEW x \in {"run", "check", "store", "sink", "exit"}, w' = [w EXCEPT ![t] = x],
         UNCHANGED <<program, main, wg, parser>>
  PROVE  IInv'
<1>1. /\ Running' = Running
      /\ w' \in [Threads -> {"none", "run", "check", "store", "sink", "exit", "done"}]
  BY GoesOn DEF IInv
<1>2. Typed'
  BY <1>1 DEF IInv, Typed, main
<1> QED
  BY <1>1, <1>2 DEF IInv, InPasses, Inside, OwnParser, Counted, main

\* At the start nobody runs.
LEMMA InitEstablishes == Init => IInv
<1> SUFFICES ASSUME Init PROVE IInv
  OBVIOUS
<1>1. Running = {}
  BY DEF Init, Running, Alive
<1>2. Typed
  BY PassesAssumption DEF Init, Typed
<1>3. Cardinality(Running) = 0
  BY <1>1, FS_EmptySet
<1> QED
  BY <1>1, <1>2, <1>3 DEF Init, IInv, InPasses, Inside, OwnParser, Counted

\* A started worker has a number and a parser of its own (common.c:55,
\* cmd/bench/main.go:56).
LEMMA SpawnKeeps ==
  ASSUME IInv, Spawn
  PROVE  IInv'
<1> DEFINE t == workers + 1
<1>1. /\ pc = "spawn" /\ pc' = pc /\ pass' = pass /\ program' = program
      /\ workers < Passes[pass] /\ workers' = workers + 1
      /\ made' = made + 1 /\ joined' = joined
      /\ w' = [w EXCEPT ![t] = "run"]
      /\ parser' = [parser EXCEPT ![t] = made]
      /\ program = "go" => wg' = wg + 1
  BY DEF Spawn, FirstStep, NextParser, Added
<1>2. pass \in 1..Len(Passes) /\ Passes[pass] \in 1..MaxThreads
  <2>1. pass \in 1..Len(Passes)
    BY <1>1, PassesAssumption DEF IInv, Typed, InPasses
  <2> QED
    BY <2>1, PassesAssumption DEF Threads
<1>3. t \in Threads /\ workers' \in 0..MaxThreads /\ made = t /\ t \in Nat
  BY <1>1, <1>2, PassesAssumption DEF IInv, Typed, OwnParser, Threads
<1>4. Typed'
  BY <1>1, <1>3 DEF IInv, Typed
<1>5. t \notin Running
  BY <1>3 DEF IInv, Inside, Typed
<1>6. Running' = Running \cup {t}
  <2>1. \A u \in Threads : Alive(u)' <=> (Alive(u) \/ u = t)
    BY <1>1, <1>3 DEF Alive, IInv, Typed
  <2> QED
    BY <2>1, <1>3 DEF Running
<1>7. Inside'
  <2>1. Running \subseteq (joined + 1)..workers
    BY DEF IInv, Inside
  <2>2. (joined + 1)..workers \subseteq (joined + 1)..(workers + 1)
    BY DEF IInv, Typed
  <2>3. t \in (joined + 1)..(workers + 1)
    BY DEF IInv, Typed
  <2> QED
    BY <1>1, <1>6, <2>1, <2>2, <2>3 DEF Inside
<1>8. OwnParser'
  <2>1. \A u \in 1..workers : parser[u] = u
    BY <1>1 DEF IInv, OwnParser
  <2>2. \A u \in 1..(workers + 1) : parser'[u] = u
    BY <1>1, <1>3, <2>1 DEF IInv, Typed, Threads
  <2> QED
    BY <1>1, <1>3, <2>2 DEF OwnParser, IInv, Typed
<1>9. Counted'
  <2>1. Cardinality(Running \cup {t}) = Cardinality(Running) + 1
    BY <1>5, RunningIsFinite, FS_AddElement
  <2> QED
    BY <1>1, <1>6, <2>1 DEF Counted, IInv
<1>10. InPasses'
  BY <1>1 DEF InPasses, IInv
<1> QED
  BY <1>4, <1>7, <1>8, <1>9, <1>10 DEF IInv

\* A worker leaves the group when it ends (cmd/bench/main.go:59).
LEMMA ExitWorkerKeeps ==
  ASSUME IInv, NEW t \in Threads, ExitWorker(t)
  PROVE  IInv'
<1>1. /\ w[t] = "exit" /\ w' = [w EXCEPT ![t] = "done"]
      /\ program = "go" => wg' = wg - 1
      /\ UNCHANGED <<program, pass, pc, workers, joined, made, parser>>
  BY DEF ExitWorker, main
<1>2. Running' = Running \ {t}
  <2>1. \A u \in Threads : Alive(u)' <=> (Alive(u) /\ u # t)
    BY <1>1 DEF Alive, IInv, Typed
  <2> QED
    BY <2>1 DEF Running
<1>3. t \in Running
  BY <1>1 DEF Running, Alive
<1>4. Cardinality(Running \ {t}) = Cardinality(Running) - 1
  BY <1>3, RunningIsFinite, FS_RemoveElement
<1>5. Typed'
  BY <1>1 DEF IInv, Typed
<1>6. Inside'
  BY <1>1, <1>2 DEF IInv, Inside
<1> QED
  BY <1>1, <1>2, <1>4, <1>5, <1>6 DEF IInv, InPasses, OwnParser, Counted

\* A step of the main thread that starts and joins nobody.
LEMMA MainKeeps ==
  ASSUME IInv, Bench \/ Exit \/ WarmUp \/ AddWarmUp \/ AllSpawned \/ Return
  PROVE  IInv'
<1>1. UNCHANGED <<program, wg, w, parser>>
  BY DEF Bench, Exit, WarmUp, AddWarmUp, AllSpawned, Return, worker
<1>2. Running' = Running
  BY <1>1 DEF Running, Alive
<1>3. CASE Bench
  <2>1. pc = "next" /\ pass <= Len(Passes) /\ pc' = "warm" /\ pass' = pass
        /\ workers' = 0 /\ joined' = 0 /\ made' = 1
    BY <1>3 DEF Bench
  <2> QED
    BY <1>1, <1>2, <2>1, PassesAssumption
       DEF IInv, Typed, InPasses, Inside, OwnParser, Counted
<1>4. CASE Exit
  BY <1>1, <1>2, <1>4 DEF Exit, IInv, Typed, InPasses, Inside, OwnParser, Counted
<1>5. CASE WarmUp \/ AddWarmUp
  <2>1. /\ pc \in {"warm", "add"} /\ pc' \in {"add", "spawn"}
        /\ UNCHANGED <<pass, workers, joined, made>>
    BY <1>5 DEF WarmUp, AddWarmUp
  <2>2. workers = 0
    BY <2>1 DEF IInv, OwnParser
  <2> QED
    BY <1>1, <1>2, <2>1, <2>2 DEF IInv, Typed, InPasses, Inside, OwnParser, Counted
<1>6. CASE AllSpawned
  BY <1>1, <1>2, <1>6 DEF AllSpawned, IInv, Typed, InPasses, Inside, OwnParser, Counted
<1>7. CASE Return
  BY <1>1, <1>2, <1>7 DEF Return, IInv, Typed, InPasses, Inside, OwnParser, Counted
<1> QED
  BY <1>3, <1>4, <1>5, <1>6, <1>7

\* A thread that was joined has ended, so the one before the next has too
\* (common.c:57).
LEMMA JoinKeeps ==
  ASSUME IInv, Join \/ AllJoined \/ Wait
  PROVE  IInv'
<1>1. UNCHANGED <<program, pass, workers, made, wg, w, parser>>
  BY DEF Join, AllJoined, Wait, worker
<1>2. Running' = Running
  BY <1>1 DEF Running, Alive
<1>3. CASE Join
  <2>1. /\ pc = "wait" /\ pc' = "wait" /\ joined < workers /\ joined' = joined + 1
        /\ w[joined + 1] = "done"
    BY <1>3 DEF Join
  <2>2. joined + 1 \notin Running
    BY <2>1 DEF Running, Alive
  <2>3. Running \subseteq (joined + 2)..workers
    <3>1. Running \subseteq ((joined + 1)..workers) \ {joined + 1}
      BY <2>2 DEF IInv, Inside
    <3>2. ((joined + 1)..workers) \ {joined + 1} \subseteq (joined + 2)..workers
      BY DEF IInv, Typed
    <3> QED
      BY <3>1, <3>2
  <2>4. Inside'
    BY <1>1, <1>2, <2>1, <2>3 DEF Inside, IInv, Typed
  <2>5. Typed'
    BY <1>1, <2>1 DEF IInv, Typed
  <2> QED
    BY <1>1, <1>2, <2>1, <2>4, <2>5 DEF IInv, InPasses, OwnParser, Counted
<1>4. CASE AllJoined
  <2>1. pc = "wait" /\ pc' = "return" /\ joined = workers /\ joined' = joined
    BY <1>4 DEF AllJoined
  <2>2. Running = {}
    BY <2>1 DEF IInv, Inside, Typed
  <2> QED
    BY <1>1, <1>2, <2>1, <2>2 DEF IInv, Typed, InPasses, Inside, OwnParser, Counted
<1>5. CASE Wait
  <2>1. program = "go" /\ pc = "wait" /\ wg = 0 /\ pc' = "return" /\ joined' = joined
    BY <1>5 DEF Wait
  <2>2. Running = {}
    BY <2>1, NobodyRuns DEF IInv, Counted
  <2> QED
    BY <1>1, <1>2, <2>1, <2>2 DEF IInv, Typed, InPasses, Inside, OwnParser, Counted
<1> QED
  BY <1>3, <1>4, <1>5

\* Every step of a bench, a worker or the clock keeps the invariant.
LEMMA StepKeeps == IInv /\ [Next]_vars => IInv'
<1> SUFFICES ASSUME IInv, [Next]_vars PROVE IInv'
  OBVIOUS
<1>1. CASE Main
  BY <1>1, MainKeeps, SpawnKeeps, JoinKeeps DEF Main
<1>2. ASSUME NEW t \in Threads, Worker(t) PROVE IInv'
  <2>1. CASE ExitWorker(t)
    BY <2>1, ExitWorkerKeeps
  <2>2. CASE Batch(t)
    <3>1. w[t] = "run" /\ w' = [w EXCEPT ![t] = "check"]
          /\ UNCHANGED <<program, main, wg, parser>>
      BY <2>2 DEF Batch
    <3> QED
      BY <3>1, GoesOnKeeps DEF Alive
  <2>3. CASE Check(t)
    <3>1. PICK x \in {"run", "store"} :
             w[t] = "check" /\ w' = [w EXCEPT ![t] = x]
               /\ UNCHANGED <<program, main, wg, parser>>
      BY <2>3 DEF Check
    <3> QED
      BY <3>1, GoesOnKeeps DEF Alive
  <2>4. CASE Store(t)
    <3>1. w[t] = "store" /\ w' = [w EXCEPT ![t] = "sink"]
          /\ UNCHANGED <<program, main, wg, parser>>
      BY <2>4 DEF Store
    <3> QED
      BY <3>1, GoesOnKeeps DEF Alive
  <2>5. CASE AddToSink(t)
    <3>1. w[t] = "sink" /\ w' = [w EXCEPT ![t] = "exit"]
          /\ UNCHANGED <<program, main, wg, parser>>
      BY <2>5 DEF AddToSink
    <3> QED
      BY <3>1, GoesOnKeeps DEF Alive
  <2> QED
    BY <1>2, <2>1, <2>2, <2>3, <2>4, <2>5 DEF Worker
<1>3. CASE Tick \/ UNCHANGED vars
  BY <1>3 DEF Tick, vars, main, worker, IInv, Typed, InPasses, Inside, OwnParser,
              Counted, Running, Alive
<1> QED
  BY <1>1, <1>2, <1>3 DEF Next

\* A worker writes into memory of its bench and parses without a lock: it runs only
\* while that bench waits for it, with a parser nobody else uses (common.c:53-57,
\* cmd/bench/main.go:52-75).
THEOREM WorkersIsolated == Spec => []Isolated
<1>1. IInv => Isolated
  <2> SUFFICES ASSUME IInv, NEW t \in Threads, Alive(t)
               PROVE  /\ pc \in {"spawn", "wait"}
                      /\ t \in (joined + 1)..workers
                      /\ parser[t] # 0
                      /\ \A u \in Threads \ {t} : Alive(u) => parser[u] # parser[t]
    BY DEF Isolated
  <2>1. \A u \in Threads : Alive(u) => u \in (joined + 1)..workers
    BY DEF IInv, Inside, Running
  <2>2. pc \in {"spawn", "wait"}
    BY DEF IInv, Inside, Running
  <2>3. \A u \in Threads : Alive(u) => parser[u] = u /\ u # 0
    BY <2>1, <2>2 DEF IInv, OwnParser, Typed
  <2> QED
    BY <2>1, <2>2, <2>3
<1> QED
  BY <1>1, InitEstablishes, StepKeeps, PTL DEF Spec

----------------------------------------------------------------------------
(***************************************************************************)
(* Sums.  MapThenSumSet is a function defined by recursion on finite sets; *)
(* that there is such a function, and what it returns, is shown by way of  *)
(* a smallest set for which it would not be so.                            *)
(***************************************************************************)
SumOf(f, S) == MapThenSumSet(LAMBDA t : f[t], S)

First(s) == CHOOSE x \in s : TRUE

\* g has the sums of f over the subsets of S.
Sums(f, S, g) ==
  g = [s \in SUBSET S |-> IF s = {} THEN 0 ELSE f[First(s)] + g[s \ {First(s)}]]

\* A set of naturals that is not empty has a least element.
LEMMA LeastElement ==
  ASSUME NEW T, T \subseteq Nat, T # {}
  PROVE  \E x \in T : \A y \in T : x <= y
<1>1. PICK x \in T : \A y \in T : <<y, x>> \notin OpToRel(<, Nat)
  BY NatLessThanWellFounded, WFMin
<1>2. \A y \in T : ~ (y < x)
  BY <1>1 DEF OpToRel
<1> QED
  BY <1>2

\* What MapThenSumSet chooses.
LEMMA SumIsChosen ==
  ASSUME NEW f, NEW S
  PROVE  SumOf(f, S) = (CHOOSE g : Sums(f, S, g))[S]
BY DEF SumOf, MapThenSumSet, MapThenFoldSet, Sums, First

\* Without its first element a set is smaller.
LEMMA Smaller ==
  ASSUME NEW s, IsFiniteSet(s), s # {}
  PROVE  /\ First(s) \in s
         /\ IsFiniteSet(s \ {First(s)})
         /\ Cardinality(s) \in Nat \ {0}
         /\ Cardinality(s \ {First(s)}) = Cardinality(s) - 1
<1>1. First(s) \in s
  BY DEF First
<1>2. Cardinality(s) \in Nat /\ Cardinality(s) # 0
  BY FS_CardinalityType, FS_EmptySet
<1> QED
  BY <1>1, <1>2, FS_RemoveElement

\* There is a function of the sums of f over the subsets of a finite set.
LEMMA SumsExist ==
  ASSUME NEW f, NEW S, IsFiniteSet(S)
  PROVE  \E g : Sums(f, S, g)
<1> DEFINE D(n) == {s \in SUBSET S : Cardinality(s) <= n}
           R(g, n) == g = [s \in D(n) |-> IF s = {} THEN 0 ELSE f[First(s)] + g[s \ {First(s)}]]
           T == {n \in Nat : ~ \E g : R(g, n)}
<1>1. \A s \in SUBSET S : IsFiniteSet(s) /\ Cardinality(s) \in Nat
  BY FS_Subset, FS_CardinalityType
<1>2. 0 \notin T
  <2> DEFINE g == [s \in D(0) |-> 0]
  <2>1. \A s \in D(0) : s = {}
    <3> SUFFICES ASSUME NEW s \in D(0) PROVE s = {}
      OBVIOUS
    <3>1. Cardinality(s) = 0 /\ IsFiniteSet(s)
      BY <1>1
    <3> QED
      BY <3>1, FS_EmptySet
  <2>2. R(g, 0)
    BY <2>1
  <2> HIDE DEF R
  <2> QED
    BY <2>2
<1>3. ASSUME NEW n \in Nat, n \notin T
      PROVE  n + 1 \notin T
  <2>1. PICK g : R(g, n)
    BY <1>3
  <2> DEFINE h == [s \in D(n + 1) |->
                     IF s \in D(n) THEN g[s] ELSE f[First(s)] + g[s \ {First(s)}]]
  <2>2. ASSUME NEW s \in D(n + 1), s # {}
        PROVE  s \ {First(s)} \in D(n)
    <3>1. IsFiniteSet(s) /\ Cardinality(s) <= n + 1
      BY <1>1
    <3>2. Cardinality(s \ {First(s)}) = Cardinality(s) - 1 /\ Cardinality(s) \in Nat
      BY <2>2, <3>1, Smaller
    <3> QED
      BY <3>1, <3>2
  <2>3. D(n) \subseteq D(n + 1)
    <3> SUFFICES ASSUME NEW s \in D(n) PROVE s \in D(n + 1)
      OBVIOUS
    <3>1. Cardinality(s) \in Nat /\ Cardinality(s) <= n
      BY <1>1
    <3> QED
      BY <3>1
  <2>4. {} \in D(n)
    BY FS_EmptySet
  <2> HIDE DEF D
  <2>5. \A s \in D(n + 1) :
          h[s] = IF s = {} THEN 0 ELSE f[First(s)] + h[s \ {First(s)}]
    <3> SUFFICES ASSUME NEW s \in D(n + 1)
                 PROVE  h[s] = IF s = {} THEN 0 ELSE f[First(s)] + h[s \ {First(s)}]
      OBVIOUS
    <3>1. CASE s = {}
      BY <2>1, <2>4, <3>1
    <3>2. CASE s # {}
      <4>1. s \ {First(s)} \in D(n) /\ h[s \ {First(s)}] = g[s \ {First(s)}]
        BY <2>2, <2>3, <3>2
      <4>2. h[s] = f[First(s)] + g[s \ {First(s)}]
        BY <2>1, <3>2
      <4> QED
        BY <3>2, <4>1, <4>2
    <3> QED
      BY <3>1, <3>2
  <2>6. R(h, n + 1)
    BY <2>5
  <2> HIDE DEF R
  <2> QED
    BY <2>6
<1> HIDE DEF R
<1>4. T = {}
  <2> SUFFICES ASSUME T # {} PROVE FALSE
    OBVIOUS
  <2>1. PICK n \in T : \A m \in T : n <= m
    BY LeastElement
  <2>2. n \in Nat /\ n # 0
    BY <1>2, <2>1
  <2>3. n - 1 \in Nat /\ n - 1 \notin T
    BY <2>1, <2>2
  <2> HIDE DEF T
  <2>4. (n - 1) + 1 \notin T
    BY <1>3, <2>3
  <2> QED
    BY <2>1, <2>2, <2>4
<1>5. Cardinality(S) \in Nat
  BY <1>1
<1>6. PICK g : R(g, Cardinality(S))
  BY <1>4, <1>5
<1>7. D(Cardinality(S)) = SUBSET S
  BY FS_Subset
<1> QED
  BY <1>6, <1>7 DEF R, Sums

\* The sums of functions that agree on a set are the same.
LEMMA SumsAgree ==
  ASSUME NEW f, NEW e, NEW S, NEW T, NEW g, NEW h, Sums(f, S, g), Sums(e, T, h),
         NEW A, A \subseteq S, A \subseteq T, IsFiniteSet(A), \A x \in A : f[x] = e[x]
  PROVE  g[A] = h[A]
<1> DEFINE C == {Cardinality(s) : s \in {t \in SUBSET A : g[t] # h[t]}}
<1>1. SUFFICES ASSUME g[A] # h[A] PROVE FALSE
  OBVIOUS
<1>2. \A s \in SUBSET A : IsFiniteSet(s) /\ Cardinality(s) \in Nat
  BY FS_Subset, FS_CardinalityType
<1>3. C \subseteq Nat /\ C # {}
  <2>1. C \subseteq Nat
    BY <1>2
  <2>2. A \in {t \in SUBSET A : g[t] # h[t]}
    BY <1>1
  <2> QED
    BY <2>1, <2>2
<1>4. PICK n \in C : \A m \in C : n <= m
  BY <1>3, LeastElement
<1>5. PICK s \in SUBSET A : g[s] # h[s] /\ n = Cardinality(s)
  OBVIOUS
<1>6. s \in SUBSET S /\ s \in SUBSET T
  OBVIOUS
<1>7. g[s] = (IF s = {} THEN 0 ELSE f[First(s)] + g[s \ {First(s)}])
  BY <1>6 DEF Sums
<1>8. h[s] = (IF s = {} THEN 0 ELSE e[First(s)] + h[s \ {First(s)}])
  BY <1>6 DEF Sums
<1>9. s # {}
  BY <1>5, <1>7, <1>8
<1>10. /\ First(s) \in s
       /\ Cardinality(s \ {First(s)}) = Cardinality(s) - 1
       /\ Cardinality(s) \in Nat
  BY <1>2, <1>9, Smaller
<1>11. g[s \ {First(s)}] = h[s \ {First(s)}]
  <2>1. SUFFICES ASSUME g[s \ {First(s)}] # h[s \ {First(s)}] PROVE FALSE
    OBVIOUS
  <2>2. Cardinality(s \ {First(s)}) \in C
    BY <2>1
  <2> HIDE DEF C
  <2>3. Cardinality(s) <= Cardinality(s) - 1
    BY <1>4, <1>5, <1>10, <2>2
  <2> QED
    BY <1>10, <2>3
<1>12. f[First(s)] = e[First(s)]
  BY <1>10
<1> QED
  BY <1>5, <1>7, <1>8, <1>9, <1>11, <1>12

\* A sum over a finite set: that of no number, and how it is made.
LEMMA SumUnfolds ==
  ASSUME NEW f, NEW S, IsFiniteSet(S)
  PROVE  /\ S = {} => SumOf(f, S) = 0
         /\ S # {} => SumOf(f, S) = f[First(S)] + SumOf(f, S \ {First(S)})
<1> DEFINE g == CHOOSE x : Sums(f, S, x)
<1>1. Sums(f, S, g) /\ SumOf(f, S) = g[S]
  BY SumsExist, SumIsChosen
<1> HIDE DEF g
<1>2. g[S] = IF S = {} THEN 0 ELSE f[First(S)] + g[S \ {First(S)}]
  BY <1>1 DEF Sums
<1>3. CASE S # {}
  <2> DEFINE R == S \ {First(S)}
             h == CHOOSE x : Sums(f, R, x)
  <2>1. IsFiniteSet(R)
    BY <1>3, Smaller
  <2>2. Sums(f, R, h) /\ SumOf(f, R) = h[R]
    BY <2>1, SumsExist, SumIsChosen
  <2>3. R \subseteq S
    OBVIOUS
  <2> HIDE DEF h, R
  <2>4. g[R] = h[R]
    BY <1>1, <2>1, <2>2, <2>3, SumsAgree
  <2> QED
    BY <1>1, <1>2, <1>3, <2>2, <2>4 DEF R
<1> QED
  BY <1>1, <1>2, <1>3

\* Functions that agree on a set have the same sum over it.
LEMMA SumAgrees ==
  ASSUME NEW f, NEW e, NEW S, IsFiniteSet(S), \A x \in S : f[x] = e[x]
  PROVE  SumOf(f, S) = SumOf(e, S)
<1> DEFINE g == CHOOSE x : Sums(f, S, x)
           h == CHOOSE x : Sums(e, S, x)
<1>1. Sums(f, S, g) /\ SumOf(f, S) = g[S]
  BY SumsExist, SumIsChosen
<1>2. Sums(e, S, h) /\ SumOf(e, S) = h[S]
  BY SumsExist, SumIsChosen
<1> HIDE DEF g, h
<1> QED
  BY <1>1, <1>2, SumsAgree

\* The sum of integers is an integer.
LEMMA SumIsInt ==
  ASSUME NEW A, IsFiniteSet(A), NEW f, \A x \in A : f[x] \in Int
  PROVE  \A S \in SUBSET A : SumOf(f, S) \in Int
<1> DEFINE Bad == {S \in SUBSET A : SumOf(f, S) \notin Int}
           C == {Cardinality(S) : S \in Bad}
<1>1. SUFFICES ASSUME Bad # {} PROVE FALSE
  OBVIOUS
<1>2. \A S \in SUBSET A : IsFiniteSet(S) /\ Cardinality(S) \in Nat
  BY FS_Subset, FS_CardinalityType
<1>3. PICK n \in C : \A m \in C : n <= m
  <2>1. C \subseteq Nat /\ C # {}
    BY <1>1, <1>2
  <2> HIDE DEF C
  <2> QED
    BY <2>1, LeastElement
<1>4. PICK S \in Bad : n = Cardinality(S)
  OBVIOUS
<1>5. S \in SUBSET A /\ IsFiniteSet(S) /\ SumOf(f, S) \notin Int
  BY <1>2
<1>6. S # {} /\ SumOf(f, S) = f[First(S)] + SumOf(f, S \ {First(S)})
  <2>1. /\ S = {} => SumOf(f, S) = 0
        /\ S # {} => SumOf(f, S) = f[First(S)] + SumOf(f, S \ {First(S)})
    BY <1>5, SumUnfolds
  <2>2. SumOf(f, S) # 0
    BY <1>5
  <2> QED
    BY <2>1, <2>2
<1>7. /\ First(S) \in S
      /\ Cardinality(S \ {First(S)}) = Cardinality(S) - 1
      /\ Cardinality(S) \in Nat
  BY <1>5, <1>6, Smaller
<1>8. SumOf(f, S \ {First(S)}) \in Int
  <2>1. SUFFICES ASSUME S \ {First(S)} \in Bad PROVE FALSE
    BY <1>5
  <2>2. Cardinality(S \ {First(S)}) \in C
    BY <2>1
  <2> HIDE DEF C, Bad
  <2>3. Cardinality(S) <= Cardinality(S) - 1
    BY <1>3, <1>4, <1>7, <2>2
  <2> QED
    BY <1>7, <2>3
<1>9. f[First(S)] \in Int
  BY <1>5, <1>7
<1> QED
  BY <1>5, <1>6, <1>8, <1>9

\* Any element can be counted first.
LEMMA SumAdds ==
  ASSUME NEW A, IsFiniteSet(A), NEW f, \A x \in A : f[x] \in Int
  PROVE  \A S \in SUBSET A : \A x \in S : SumOf(f, S) = f[x] + SumOf(f, S \ {x})
<1> DEFINE Good(S) == \A x \in S : SumOf(f, S) = f[x] + SumOf(f, S \ {x})
           Bad == {S \in SUBSET A : ~ Good(S)}
           C == {Cardinality(S) : S \in Bad}
<1>1. SUFFICES ASSUME Bad # {} PROVE FALSE
  OBVIOUS
<1>2. \A S \in SUBSET A : IsFiniteSet(S) /\ Cardinality(S) \in Nat
  BY FS_Subset, FS_CardinalityType
<1>3. PICK n \in C : \A m \in C : n <= m
  <2>1. C \subseteq Nat /\ C # {}
    BY <1>1, <1>2
  <2> HIDE DEF C
  <2> QED
    BY <2>1, LeastElement
<1>4. PICK S \in Bad : n = Cardinality(S)
  OBVIOUS
<1>5. S \in SUBSET A /\ IsFiniteSet(S) /\ ~ Good(S)
  BY <1>2
<1>6. ASSUME NEW R \in SUBSET A, Cardinality(R) < Cardinality(S) PROVE Good(R)
  <2> HIDE DEF Good
  <2>1. SUFFICES ASSUME R \in Bad PROVE FALSE
    OBVIOUS
  <2>2. Cardinality(R) \in C
    BY <2>1
  <2> HIDE DEF C, Bad
  <2>3. Cardinality(S) <= Cardinality(R)
    BY <1>3, <1>4, <2>2
  <2> QED
    BY <1>2, <1>5, <1>6, <2>3
<1>7. PICK x \in S : SumOf(f, S) # f[x] + SumOf(f, S \ {x})
  BY <1>5
<1> DEFINE p == First(S)
           P == S \ {p}
           X == S \ {x}
           PX == (S \ {p}) \ {x}
<1>8. /\ p \in S /\ SumOf(f, S) = f[p] + SumOf(f, P)
      /\ Cardinality(P) < Cardinality(S)
      /\ Cardinality(X) < Cardinality(S)
  <2>1. S # {}
    OBVIOUS
  <2>2. SumOf(f, S) = f[p] + SumOf(f, P)
    BY <1>5, <2>1, SumUnfolds
  <2>3. p \in S /\ Cardinality(P) = Cardinality(S) - 1 /\ Cardinality(S) \in Nat
    BY <1>5, <2>1, Smaller
  <2>4. Cardinality(X) = Cardinality(S) - 1
    BY <1>5, FS_RemoveElement
  <2> QED
    BY <2>2, <2>3, <2>4
<1>9. x # p
  BY <1>7, <1>8
<1>10. P \in SUBSET A /\ X \in SUBSET A /\ PX \in SUBSET A /\ x \in P /\ p \in X /\ X \ {p} = PX
  BY <1>5, <1>8, <1>9
<1>11. SumOf(f, P) = f[x] + SumOf(f, PX)
  BY <1>6, <1>8, <1>10
<1>12. SumOf(f, X) = f[p] + SumOf(f, PX)
  <2>1. Good(X)
    BY <1>6, <1>8, <1>10
  <2>2. SumOf(f, X) = f[p] + SumOf(f, X \ {p})
    BY <1>10, <2>1
  <2> QED
    BY <1>10, <2>2
<1>13. SumOf(f, PX) \in Int /\ f[x] \in Int /\ f[p] \in Int
  BY <1>5, <1>8, <1>10, SumIsInt
<1>14. SumOf(f, S) # f[x] + SumOf(f, X)
  BY <1>7
<1> DEFINE a == SumOf(f, S)
           b == SumOf(f, P)
           c == SumOf(f, X)
           d == SumOf(f, PX)
           fx == f[x]
           fp == f[p]
<1>15. a = fp + b /\ b = fx + d /\ c = fp + d /\ a # fx + c /\ d \in Int /\ fx \in Int /\ fp \in Int
  BY <1>8, <1>11, <1>12, <1>13, <1>14
<1> HIDE DEF a, b, c, d, fx, fp
<1> QED
  BY <1>15

\* The sum up to a number is that up to the one before, and one more.
LEMMA SumUpTo ==
  ASSUME NEW f \in [Threads -> 0..MaxBatches], NEW k \in Nat, k + 1 \in Threads
  PROVE  SumOf(f, 1..(k + 1)) = f[k + 1] + SumOf(f, 1..k)
<1>1. IsFiniteSet(Threads) /\ \A x \in Threads : f[x] \in Int
  BY FS_Interval, PassesAssumption, BoundsAssumption DEF Threads
<1>2. 1..(k + 1) \in SUBSET Threads /\ k + 1 \in 1..(k + 1)
  BY PassesAssumption DEF Threads
<1>3. (1..(k + 1)) \ {k + 1} = 1..k
  OBVIOUS
<1>4. SumOf(f, 1..(k + 1)) = f[k + 1] + SumOf(f, (1..(k + 1)) \ {k + 1})
  BY <1>1, <1>2, SumAdds
<1> QED
  BY <1>3, <1>4

\* The sum of no number.
LEMMA SumOfNone ==
  ASSUME NEW f
  PROVE  SumOf(f, {}) = 0
BY SumUnfolds, FS_EmptySet

\* The batches of k workers are at most k times what one makes at most, and at
\* least k if each made one.
LEMMA SumBounds ==
  ASSUME NEW f \in [Threads -> 0..MaxBatches]
  PROVE  \A k \in 0..MaxThreads :
           /\ SumOf(f, 1..k) \in 0..(k * MaxBatches)
           /\ (\A t \in 1..k : f[t] >= 1) => SumOf(f, 1..k) >= k
<1> DEFINE Good(k) == /\ SumOf(f, 1..k) \in 0..(k * MaxBatches)
                      /\ (\A t \in 1..k : f[t] >= 1) => SumOf(f, 1..k) >= k
           Bad == {k \in 0..MaxThreads : ~ Good(k)}
<1>1. SUFFICES ASSUME Bad # {} PROVE FALSE
  OBVIOUS
<1>2. PICK k \in Bad : \A m \in Bad : k <= m
  <2>1. Bad \subseteq Nat
    BY PassesAssumption
  <2> HIDE DEF Bad
  <2> QED
    BY <1>1, <2>1, LeastElement
<1>3. k \in Nat /\ k <= MaxThreads /\ ~ Good(k)
  BY PassesAssumption
<1>4. k # 0
  <2>1. SUFFICES Good(0)
    BY <1>3
  <2>2. 1..0 = {} /\ SumOf(f, 1..0) = 0
    BY SumOfNone
  <2>3. 0 \in 0..(0 * MaxBatches)
    BY BoundsAssumption
  <2> QED
    BY <2>2, <2>3
<1> DEFINE j == k - 1
<1>5. j \in Nat /\ j \in 0..MaxThreads /\ j + 1 = k /\ k \in Threads
  BY <1>3, <1>4, PassesAssumption DEF Threads
<1>6. Good(j)
  <2> HIDE DEF Good
  <2>1. SUFFICES ASSUME j \in Bad PROVE FALSE
    BY <1>5
  <2> HIDE DEF Bad
  <2> QED
    BY <1>2, <1>3, <2>1
<1>7. SumOf(f, 1..k) = f[k] + SumOf(f, 1..j)
  BY <1>5, SumUpTo
<1>8. k * MaxBatches = j * MaxBatches + MaxBatches
  BY <1>3, <1>5, BoundsAssumption
<1> DEFINE a == SumOf(f, 1..k)
           b == SumOf(f, 1..j)
           x == f[k]
           jm == j * MaxBatches
           km == k * MaxBatches
<1>9. /\ a = x + b /\ x \in Nat /\ x <= MaxBatches /\ km = jm + MaxBatches
      /\ b \in Nat /\ b <= jm /\ jm \in Nat
  <2>1. jm \in Nat
    BY <1>5, BoundsAssumption
  <2>2. b \in 0..jm
    BY <1>6
  <2>3. x \in 0..MaxBatches
    BY <1>5
  <2> QED
    BY <1>7, <1>8, <2>1, <2>2, <2>3, BoundsAssumption
<1>10. a \in 0..km
  <2> HIDE DEF a, b, x, jm, km
  <2> QED
    BY <1>9, BoundsAssumption
<1>11. ASSUME \A t \in 1..k : f[t] >= 1 PROVE a >= k
  <2>1. x >= 1
    BY <1>5, <1>11 DEF Threads
  <2>2. b >= j
    BY <1>5, <1>6, <1>11
  <2> HIDE DEF a, b, x, jm, km
  <2> QED
    BY <1>5, <1>9, <2>1, <2>2
<1> QED
  BY <1>3, <1>10, <1>11

----------------------------------------------------------------------------
(***************************************************************************)
(* What a bench returns.                                                   *)
(*                                                                         *)
(* A worker has made a batch once it has looked at the clock, and what it  *)
(* stores is what it made; the total is the sum of what the joined workers *)
(* stored, and the sum that Go keeps lacks what the workers that have not  *)
(* added theirs made.                                                      *)
(***************************************************************************)

\* The workers that have yet to add to the sink.
Pending == {t \in Threads : w[t] \in {"run", "check", "store", "sink"}}

\* The types that the sums need.
Numbers ==
  /\ program \in Programs
  /\ pass <= Len(Passes) + 1
  /\ pc \in {"next", "warm", "add", "spawn", "wait", "return", "exit"}
  /\ total \in 0..(MaxThreads * MaxBatches)
  /\ made \in 0..(MaxThreads + 1)
  /\ left \in 0..RunTime
  /\ program = "c" => wg = 0
  /\ sink \in Nat /\ warmup \in Nat /\ work \in Nat
  /\ nn \in [Threads -> 0..MaxBatches]
  /\ count \in [Threads -> 0..MaxBatches]
  /\ parser \in [Threads -> 0..MaxThreads]

\* What a worker has made and stored at each of its steps.
BatchOf(t) ==
  /\ w[t] = "run" => nn[t] < MaxBatches
  /\ w[t] \notin {"none", "run"} => nn[t] >= 1
  /\ w[t] \in {"sink", "exit", "done"} => count[t] = nn[t]

Batched == \A t \in Threads : BatchOf(t)

\* All that were started have started, and bench waits for as many as it was to start.
Started ==
  /\ \A t \in 1..workers : w[t] # "none"
  /\ pc \in {"wait", "return"} => workers = Passes[pass]

\* Nothing is added up before bench waits; the warm-up adds to the sink as it is.
Fresh ==
  /\ pc \in {"warm", "add", "spawn"} => joined = 0 /\ total = 0
  /\ pc = "add" => warmup = sink

\* What is added up.
Summed ==
  /\ pc = "wait" => total = IF program = "c" THEN SumOf(count, 1..joined) ELSE 0
  /\ pc = "return" => total = SumOf(count, 1..workers)

\* What the sink lacks.
Sunk == program = "go" => work = sink + SumOf(nn, Pending)

WInv == Numbers /\ Batched /\ Started /\ Fresh /\ Summed /\ Sunk

\* There are finitely many workers that have yet to add to the sink, and they run.
LEMMA PendingRun ==
  /\ IsFiniteSet(Threads) /\ Pending \in SUBSET Threads /\ IsFiniteSet(Pending)
  /\ Pending \subseteq Running
<1>1. IsFiniteSet(Threads)
  BY FS_Interval, PassesAssumption DEF Threads
<1>2. Pending \in SUBSET Threads /\ Pending \subseteq Running
  BY DEF Pending, Running, Alive
<1> QED
  BY <1>1, <1>2, FS_Subset

\* What the workers make is a number.
LEMMA PendingSum ==
  ASSUME NEW f \in [Threads -> 0..MaxBatches]
  PROVE  \A S \in SUBSET Threads : SumOf(f, S) \in Int
<1>1. IsFiniteSet(Threads) /\ \A x \in Threads : f[x] \in Int
  BY PendingRun, BoundsAssumption
<1> QED
  BY <1>1, SumIsInt

\* At the start nothing was parsed.
LEMMA NothingParsed == Init => WInv
<1> SUFFICES ASSUME Init PROVE WInv
  OBVIOUS
<1>1. Pending = {}
  BY DEF Init, Pending
<1>2. SumOf(nn, Pending) = 0
  BY <1>1, SumOfNone
<1>3. MaxThreads \in Nat /\ MaxBatches \in Nat /\ RunTime \in Nat /\ Len(Passes) \in Nat
  BY PassesAssumption, BoundsAssumption
<1>4. 0 \in 0..(MaxThreads * MaxBatches)
  <2>1. MaxThreads * MaxBatches \in Nat
    BY <1>3
  <2> HIDE DEF Init
  <2> QED
    BY <2>1
<1>5. Numbers
  <2>1. /\ nn \in [Threads -> 0..MaxBatches]
        /\ count \in [Threads -> 0..MaxBatches]
        /\ parser \in [Threads -> 0..MaxThreads]
    BY <1>3 DEF Init
  <2>2. /\ program \in Programs
        /\ pc \in {"next", "warm", "add", "spawn", "wait", "return", "exit"}
        /\ total \in 0..(MaxThreads * MaxBatches)
        /\ program = "c" => wg = 0
    BY <1>4 DEF Init
  <2>3. /\ pass <= Len(Passes) + 1
        /\ made \in 0..(MaxThreads + 1)
        /\ left \in 0..RunTime
        /\ sink \in Nat /\ warmup \in Nat /\ work \in Nat
    BY <1>3 DEF Init
  <2> QED
    BY <2>1, <2>2, <2>3 DEF Numbers
<1>6. Batched
  BY DEF Init, Batched, BatchOf
<1>7. Started /\ Fresh /\ Summed
  BY DEF Init, Started, Fresh, Summed
<1>8. Sunk
  BY <1>2 DEF Init, Sunk
<1> QED
  BY <1>5, <1>6, <1>7, <1>8 DEF WInv

\* A step of one worker leaves the others as they are.
LEMMA OthersStay ==
  ASSUME NEW t \in Threads, Batched, Typed, NEW x, w' = [w EXCEPT ![t] = x], BatchOf(t)',
         \A u \in Threads \ {t} : nn'[u] = nn[u] /\ count'[u] = count[u]
  PROVE  Batched'
<1> SUFFICES ASSUME NEW u \in Threads, u # t PROVE BatchOf(u)'
  BY DEF Batched
<1>1. w'[u] = w[u] /\ nn'[u] = nn[u] /\ count'[u] = count[u]
  BY DEF Typed
<1> QED
  BY <1>1 DEF Batched, BatchOf

\* A step of one worker that was started leaves the started ones started.
LEMMA StaysStarted ==
  ASSUME NEW t \in Threads, Started, Typed, UNCHANGED main,
         NEW x, x # "none", w' = [w EXCEPT ![t] = x]
  PROVE  Started'
<1>1. \A u \in 1..workers : u \in Threads
  BY PassesAssumption DEF Typed, Threads
<1>2. \A u \in 1..workers : w'[u] # "none"
  BY <1>1 DEF Typed, Started
<1> QED
  BY <1>2 DEF Started, main

\* What a worker that runs stores is not yet added up.
LEMMA NotYetSummed ==
  ASSUME IInv, WInv, NEW t \in Running, UNCHANGED <<program, main>>,
         count' = count \/ count' = [count EXCEPT ![t] = nn[t]]
  PROVE  Summed' /\ Fresh'
<1>1. pc \in {"spawn", "wait"} /\ t \in (joined + 1)..workers
  BY DEF IInv, Inside
<1>2. SumOf(count', 1..joined) = SumOf(count, 1..joined)
  <2>1. joined \in Nat /\ workers \in Nat /\ 1..joined \subseteq Threads
    BY PassesAssumption DEF IInv, Typed, Threads
  <2>2. \A u \in 1..joined : count'[u] = count[u]
    BY <1>1, <2>1 DEF WInv, Numbers
  <2>3. IsFiniteSet(1..joined)
    BY <2>1, FS_Interval
  <2> QED
    BY <2>2, <2>3, SumAgrees
<1> QED
  BY <1>1, <1>2 DEF WInv, Summed, Fresh, main

\* A step of a worker that neither parses nor adds leaves the sums alone.
LEMMA SameSunk ==
  ASSUME WInv, UNCHANGED <<program, sink, nn, work>>, Pending' = Pending
  PROVE  Sunk'
BY DEF WInv, Sunk

\* The clock is left alone.
LEMMA NumbersStay ==
  ASSUME WInv, UNCHANGED <<program, main, left, wg, parser>>,
         sink' \in Nat, work' \in Nat,
         nn' \in [Threads -> 0..MaxBatches], count' \in [Threads -> 0..MaxBatches]
  PROVE  Numbers'
BY DEF WInv, Numbers, main

\* A batch is parsed (common.c:35, cmd/bench/main.go:63).
LEMMA BatchCounts ==
  ASSUME IInv, WInv, NEW t \in Threads, Batch(t)
  PROVE  WInv'
<1>1. /\ w[t] = "run" /\ w' = [w EXCEPT ![t] = "check"]
      /\ nn' = [nn EXCEPT ![t] = nn[t] + 1] /\ work' = work + 1
      /\ UNCHANGED <<program, main, left, wg, sink, count, parser>>
  BY DEF Batch
<1>2. Typed /\ Batched /\ Numbers /\ Sunk /\ Started
  BY DEF IInv, WInv
<1>3. nn[t] < MaxBatches /\ nn[t] \in 0..MaxBatches /\ MaxBatches \in Nat
  BY <1>1, <1>2, BoundsAssumption DEF Batched, BatchOf, Numbers
<1>4. nn' \in [Threads -> 0..MaxBatches] /\ nn'[t] = nn[t] + 1 /\ nn'[t] >= 1
  <2>1. nn[t] + 1 \in 0..MaxBatches
    BY <1>3
  <2> QED
    BY <1>1, <1>2, <1>3, <2>1 DEF Numbers
<1>5. work' \in Nat /\ sink' \in Nat
  BY <1>1, <1>2 DEF Numbers
<1>6. Numbers'
  BY <1>1, <1>2, <1>4, <1>5, NumbersStay DEF Numbers
<1>7. w'[t] = "check"
  BY <1>1, <1>2 DEF Typed
<1>8. BatchOf(t)'
  BY <1>4, <1>7 DEF BatchOf
<1>9. Batched'
  <2>1. \A u \in Threads \ {t} : nn'[u] = nn[u] /\ count'[u] = count[u]
    BY <1>1, <1>2 DEF Numbers
  <2> QED
    BY <1>1, <1>2, <1>8, <2>1, OthersStay
<1>10. Started'
  BY <1>1, <1>2, StaysStarted
<1>11. Summed' /\ Fresh'
  <2>1. t \in Running
    BY <1>1 DEF Running, Alive
  <2> QED
    BY <1>1, <2>1, NotYetSummed
<1>12. Pending' = Pending /\ t \in Pending
  BY <1>1, <1>2 DEF Pending, Typed
<1>13. SumOf(nn', Pending) = SumOf(nn, Pending) + 1
  <2>1. SumOf(nn, Pending) = nn[t] + SumOf(nn, Pending \ {t})
    <3>1. \A y \in Threads : nn[y] \in Int
      BY <1>2, <1>3 DEF Numbers
    <3> QED
      BY <1>12, <3>1, PendingRun, SumAdds
  <2>2. SumOf(nn', Pending) = nn'[t] + SumOf(nn', Pending \ {t})
    <3>1. \A y \in Threads : nn'[y] \in Int
      BY <1>3, <1>4
    <3> QED
      BY <1>12, <3>1, PendingRun, SumAdds
  <2>3. SumOf(nn', Pending \ {t}) = SumOf(nn, Pending \ {t})
    <3>1. \A y \in Pending \ {t} : nn'[y] = nn[y]
      BY <1>1, <1>2, PendingRun DEF Numbers
    <3>2. IsFiniteSet(Pending \ {t})
      BY PendingRun, FS_Subset
    <3> QED
      BY <3>1, <3>2, SumAgrees
  <2>4. SumOf(nn, Pending \ {t}) \in Int
    BY <1>2, PendingRun, PendingSum DEF Numbers
  <2> DEFINE a == SumOf(nn, Pending)
             b == SumOf(nn', Pending)
             c == SumOf(nn, Pending \ {t})
             k == nn[t]
  <2>5. a = k + c /\ b = (k + 1) + c /\ c \in Int /\ k \in Int
    BY <1>3, <1>4, <2>1, <2>2, <2>3, <2>4
  <2>6. b = a + 1
    <3> HIDE DEF a, b, c, k
    <3> QED
      BY <2>5
  <2> QED
    BY <2>6
<1>14. Sunk'
  <2>1. SumOf(nn, Pending) \in Int /\ sink \in Int
    <3>1. nn \in [Threads -> 0..MaxBatches] /\ sink \in Nat
      BY <1>2 DEF Numbers
    <3>2. SumOf(nn, Pending) \in Int
      BY <3>1, PendingRun, PendingSum
    <3> QED
      BY <3>1, <3>2
  <2>2. SUFFICES ASSUME program' = "go" PROVE work' = sink' + SumOf(nn', Pending')
    BY DEF Sunk
  <2>3. work = sink + SumOf(nn, Pending)
    BY <1>1, <1>2, <2>2 DEF Sunk
  <2> DEFINE a == SumOf(nn, Pending)
             b == SumOf(nn', Pending')
  <2>4. b = a + 1 /\ a \in Int
    BY <1>12, <1>13, <2>1
  <2>5. work = sink + a
    BY <2>3
  <2> HIDE DEF a, b
  <2>6. work' = sink' + b
    BY <1>1, <2>1, <2>4, <2>5
  <2> QED
    BY <2>6 DEF b
<1> QED
  BY <1>6, <1>9, <1>10, <1>11, <1>14 DEF WInv

\* A worker looks at the clock or stores what it made (common.c:44-47,
\* cmd/bench/main.go:69-73).
LEMMA CheckOrStoreCounts ==
  ASSUME IInv, WInv, NEW t \in Threads, Check(t) \/ Store(t)
  PROVE  WInv'
<1>1. PICK x \in {"run", "store", "sink"} :
         /\ w[t] \in {"check", "store"} /\ w' = [w EXCEPT ![t] = x]
         /\ x = "run" => nn[t] < MaxBatches
         /\ IF x = "sink" THEN count' = [count EXCEPT ![t] = nn[t]] ELSE count' = count
         /\ UNCHANGED <<program, main, left, wg, sink, nn, parser, work>>
  BY DEF Check, Store
<1>2. Typed /\ Batched /\ Numbers /\ Started
  BY DEF IInv, WInv
<1>3. nn[t] >= 1 /\ nn[t] \in 0..MaxBatches
  BY <1>1, <1>2 DEF Batched, BatchOf, Numbers
<1>4. count' \in [Threads -> 0..MaxBatches]
  BY <1>1, <1>2, <1>3 DEF Numbers
<1>5. Numbers'
  BY <1>1, <1>2, <1>4, NumbersStay DEF Numbers
<1>6. w'[t] = x
  BY <1>1, <1>2 DEF Typed
<1>7. BatchOf(t)'
  <2>1. x = "sink" => count'[t] = nn'[t]
    BY <1>1, <1>2 DEF Numbers
  <2> QED
    BY <1>1, <1>3, <1>6, <2>1 DEF BatchOf
<1>8. Batched'
  <2>1. \A u \in Threads \ {t} : nn'[u] = nn[u] /\ count'[u] = count[u]
    BY <1>1, <1>2 DEF Numbers
  <2> QED
    BY <1>1, <1>2, <1>7, <2>1, OthersStay
<1>9. Started'
  BY <1>1, <1>2, StaysStarted
<1>10. Summed' /\ Fresh'
  <2>1. t \in Running
    BY <1>1 DEF Running, Alive
  <2> QED
    BY <1>1, <2>1, NotYetSummed
<1>11. Pending' = Pending
  <2>1. \A u \in Threads : w'[u] \in {"run", "check", "store", "sink"} <=>
                           w[u] \in {"run", "check", "store", "sink"}
    BY <1>1, <1>2 DEF Typed
  <2> QED
    BY <2>1 DEF Pending
<1>12. Sunk'
  BY <1>1, <1>11, SameSunk
<1> QED
  BY <1>5, <1>8, <1>9, <1>10, <1>12 DEF WInv

\* What a goroutine adds to the sink is no longer missing there
\* (cmd/bench/main.go:74).
LEMMA AddToSinkCounts ==
  ASSUME IInv, WInv, NEW t \in Threads, AddToSink(t)
  PROVE  WInv'
<1>1. /\ w[t] = "sink" /\ w' = [w EXCEPT ![t] = "exit"]
      /\ sink' = IF program = "go" THEN sink + nn[t] ELSE sink
      /\ UNCHANGED <<program, main, left, wg, nn, count, parser, work>>
  BY DEF AddToSink
<1>2. Typed /\ Batched /\ Numbers /\ Sunk /\ Started
  BY DEF IInv, WInv
<1>3. nn[t] >= 1 /\ nn[t] \in 0..MaxBatches /\ nn[t] \in Nat /\ count[t] = nn[t]
  BY <1>1, <1>2, BoundsAssumption DEF Batched, BatchOf, Numbers
<1>4. sink' \in Nat
  BY <1>1, <1>2, <1>3 DEF Numbers
<1>5. Numbers'
  BY <1>1, <1>2, <1>4, NumbersStay DEF Numbers
<1>6. w'[t] = "exit"
  BY <1>1, <1>2 DEF Typed
<1>7. BatchOf(t)'
  BY <1>1, <1>3, <1>6 DEF BatchOf
<1>8. Batched'
  <2>1. \A u \in Threads \ {t} : nn'[u] = nn[u] /\ count'[u] = count[u]
    BY <1>1, <1>2 DEF Numbers
  <2> QED
    BY <1>1, <1>2, <1>7, <2>1, OthersStay
<1>9. Started'
  BY <1>1, <1>2, StaysStarted
<1>10. Summed' /\ Fresh'
  <2>1. t \in Running
    BY <1>1 DEF Running, Alive
  <2> QED
    BY <1>1, <2>1, NotYetSummed
<1>11. Pending' = Pending \ {t} /\ t \in Pending
  <2>1. \A u \in Threads : w'[u] \in {"run", "check", "store", "sink"} <=>
                           (w[u] \in {"run", "check", "store", "sink"} /\ u # t)
    BY <1>1, <1>2 DEF Typed
  <2> QED
    BY <1>1, <2>1 DEF Pending
<1>12. SumOf(nn, Pending) = nn[t] + SumOf(nn, Pending')
  <2>1. \A y \in Threads : nn[y] \in Int
    BY <1>2, BoundsAssumption DEF Numbers
  <2>2. SumOf(nn, Pending) = nn[t] + SumOf(nn, Pending \ {t})
    BY <1>11, <2>1, PendingRun, SumAdds
  <2> QED
    BY <1>11, <2>2
<1>13. Sunk'
  <2>1. SUFFICES ASSUME program' = "go" PROVE work' = sink' + SumOf(nn', Pending')
    BY DEF Sunk
  <2>2. work = sink + SumOf(nn, Pending) /\ sink' = sink + nn[t] /\ nn' = nn /\ work' = work
    BY <1>1, <1>2, <2>1 DEF Sunk
  <2>3. SumOf(nn, Pending') \in Int /\ sink \in Int
    <3>1. Pending' \in SUBSET Threads
      BY <1>11, PendingRun
    <3>2. nn \in [Threads -> 0..MaxBatches] /\ sink \in Nat
      BY <1>2 DEF Numbers
    <3>3. SumOf(nn, Pending') \in Int
      BY <3>1, <3>2, PendingSum
    <3> QED
      BY <3>2, <3>3
  <2> DEFINE a == SumOf(nn, Pending)
             b == SumOf(nn, Pending')
             k == nn[t]
  <2>4. a = k + b /\ b \in Int /\ k \in Int
    BY <1>3, <1>12, <2>3
  <2>5. work = sink + a /\ sink' = sink + k
    BY <2>2
  <2> HIDE DEF a, b, k
  <2>6. work' = sink' + b
    BY <2>2, <2>3, <2>4, <2>5
  <2> QED
    BY <2>2, <2>6 DEF b
<1> QED
  BY <1>5, <1>8, <1>9, <1>10, <1>13 DEF WInv

\* The end of a worker (cmd/bench/main.go:59).
LEMMA ExitWorkerCounts ==
  ASSUME IInv, WInv, NEW t \in Threads, ExitWorker(t)
  PROVE  WInv'
<1>1. /\ w[t] = "exit" /\ w' = [w EXCEPT ![t] = "done"]
      /\ wg' = IF program = "go" THEN wg - 1 ELSE wg
      /\ UNCHANGED <<program, main, left, sink, nn, count, parser, work>>
  BY DEF ExitWorker
<1>2. Typed /\ Batched /\ Numbers /\ Started
  BY DEF IInv, WInv
<1>3. program = "c" => wg' = 0
  BY <1>1, <1>2 DEF Numbers
<1>4. Numbers'
  BY <1>1, <1>2, <1>3 DEF Numbers, main
<1>5. w'[t] = "done"
  BY <1>1, <1>2 DEF Typed
<1>6. BatchOf(t)'
  BY <1>1, <1>2, <1>5 DEF Batched, BatchOf
<1>7. Batched'
  <2>1. \A u \in Threads \ {t} : nn'[u] = nn[u] /\ count'[u] = count[u]
    BY <1>1, <1>2 DEF Numbers
  <2> QED
    BY <1>1, <1>2, <1>6, <2>1, OthersStay
<1>8. Started'
  BY <1>1, <1>2, StaysStarted
<1>9. Summed' /\ Fresh'
  <2>1. t \in Running
    BY <1>1 DEF Running, Alive
  <2> QED
    BY <1>1, <2>1, NotYetSummed
<1>10. Pending' = Pending
  <2>1. \A u \in Threads : w'[u] \in {"run", "check", "store", "sink"} <=>
                           w[u] \in {"run", "check", "store", "sink"}
    BY <1>1, <1>2 DEF Typed
  <2> QED
    BY <2>1 DEF Pending
<1>11. Sunk'
  BY <1>1, <1>10, SameSunk
<1> QED
  BY <1>4, <1>7, <1>8, <1>9, <1>11 DEF WInv

\* A worker is started with nothing made (common.c:55, cmd/bench/main.go:56-62).
LEMMA SpawnCounts ==
  ASSUME IInv, WInv, Spawn
  PROVE  WInv'
<1> DEFINE t == workers + 1
<1>1. /\ pc = "spawn" /\ workers < Passes[pass] /\ workers' = t /\ made' = made + 1
      /\ w' = [w EXCEPT ![t] = "run"] /\ nn' = [nn EXCEPT ![t] = 0]
      /\ count' = [count EXCEPT ![t] = 0] /\ parser' = [parser EXCEPT ![t] = made]
      /\ wg' = IF program = "go" THEN wg + 1 ELSE wg
      /\ UNCHANGED <<program, pass, pc, joined, total, warmup, left, sink, work>>
  BY DEF Spawn, FirstStep, NextParser, Added
<1>2. Typed /\ Batched /\ Numbers /\ Started /\ Fresh /\ Summed /\ Sunk
  BY DEF IInv, WInv
<1>3. pass \in 1..Len(Passes) /\ Passes[pass] \in 1..MaxThreads
  <2>1. pass \in 1..Len(Passes)
    BY <1>1, PassesAssumption DEF IInv, Typed, InPasses
  <2> QED
    BY <2>1, PassesAssumption DEF Threads
<1>4. t \in Threads /\ t \in Nat /\ made = t /\ workers \in Nat /\ t <= MaxThreads
      /\ MaxThreads \in Nat /\ MaxBatches \in Nat /\ MaxBatches > 0
  BY <1>1, <1>3, PassesAssumption, BoundsAssumption DEF IInv, Typed, OwnParser, Threads
<1>5. nn'[t] = 0 /\ w'[t] = "run"
  BY <1>1, <1>2, <1>4 DEF Numbers, Typed
<1>6. Numbers'
  <2>1. /\ nn' \in [Threads -> 0..MaxBatches] /\ count' \in [Threads -> 0..MaxBatches]
    BY <1>1, <1>2, <1>4 DEF Numbers
  <2>2. parser' \in [Threads -> 0..MaxThreads]
    BY <1>1, <1>2, <1>4 DEF Numbers
  <2>3. made' \in 0..(MaxThreads + 1)
    BY <1>1, <1>4
  <2> QED
    BY <1>1, <1>2, <2>1, <2>2, <2>3 DEF Numbers
<1>7. Batched'
  <2>1. PICK v \in Threads : v = t
    BY <1>4
  <2>2. BatchOf(v)'
    BY <1>4, <1>5, <2>1 DEF BatchOf
  <2>3. \A u \in Threads \ {v} : nn'[u] = nn[u] /\ count'[u] = count[u]
    BY <1>1, <1>2, <2>1 DEF Numbers
  <2>4. w' = [w EXCEPT ![v] = "run"]
    BY <1>1, <2>1
  <2> QED
    BY <1>2, <2>2, <2>3, <2>4, OthersStay
<1>8. Started'
  <2>1. \A u \in 1..workers : u \in Threads /\ u # t /\ w'[u] = w[u] /\ w[u] # "none"
    BY <1>1, <1>2, <1>4 DEF Typed, Threads, Started
  <2>2. \A u \in 1..t : u \in 1..workers \/ u = t
    BY <1>4
  <2>3. \A u \in 1..t : w'[u] # "none"
    BY <1>5, <2>1, <2>2
  <2> QED
    BY <1>1, <2>3 DEF Started
<1>9. Fresh' /\ Summed'
  BY <1>1, <1>2 DEF Fresh, Summed
<1>10. Sunk'
  <2>1. t \notin Running
    BY <1>4 DEF IInv, Inside, Typed
  <2>2. t \notin Pending
    BY <2>1, PendingRun
  <2>3. Pending' = Pending \cup {t}
    <3>1. \A u \in Threads : w'[u] \in {"run", "check", "store", "sink"} <=>
                             (w[u] \in {"run", "check", "store", "sink"} \/ u = t)
      BY <1>1, <1>2, <1>4 DEF Typed
    <3> HIDE DEF t
    <3> QED
      BY <1>4, <3>1 DEF Pending
  <2>4. SumOf(nn', Pending') = nn'[t] + SumOf(nn', Pending' \ {t})
    <3>1. \A y \in Threads : nn'[y] \in Int
      BY <1>4, <1>6 DEF Numbers
    <3>2. Pending' \in SUBSET Threads /\ t \in Pending'
      BY <1>4, <2>3, PendingRun
    <3> HIDE DEF t
    <3> QED
      BY <3>1, <3>2, PendingRun, SumAdds
  <2>5. Pending' \ {t} = Pending
    BY <2>2, <2>3
  <2>6. SumOf(nn', Pending) = SumOf(nn, Pending)
    <3>1. \A y \in Pending : nn'[y] = nn[y]
      BY <1>1, <1>2, <2>2, PendingRun DEF Numbers
    <3> QED
      BY <3>1, PendingRun, SumAgrees
  <2>7. SumOf(nn, Pending) \in Int
    <3>1. nn \in [Threads -> 0..MaxBatches]
      BY <1>2 DEF Numbers
    <3> QED
      BY <3>1, PendingRun, PendingSum
  <2>8. SumOf(nn', Pending') = SumOf(nn, Pending)
    <3>1. SumOf(nn', Pending') = 0 + SumOf(nn, Pending)
      BY <1>5, <2>4, <2>5, <2>6
    <3> DEFINE a == SumOf(nn, Pending)
    <3>2. a \in Int /\ SumOf(nn', Pending') = 0 + a
      BY <2>7, <3>1
    <3> HIDE DEF a
    <3>3. SumOf(nn', Pending') = a
      BY <3>2
    <3> QED
      BY <3>3 DEF a
  <2> QED
    BY <1>1, <1>2, <2>8 DEF Sunk
<1> QED
  BY <1>6, <1>7, <1>8, <1>9, <1>10 DEF WInv

\* A step of the main thread that starts nobody leaves the workers as they are.
LEMMA WorkersStay ==
  ASSUME WInv, UNCHANGED worker
  PROVE  /\ Batched' /\ Pending' = Pending
         /\ \A t \in 1..workers : w'[t] # "none"
BY DEF WInv, worker, Batched, BatchOf, Pending, Started

\* A bench is called or the benchmark ends (common.c:50, cmd/bench/main.go:43).
LEMMA BenchCounts ==
  ASSUME IInv, WInv, Bench \/ Exit \/ Return
  PROVE  WInv'
<1>1. /\ UNCHANGED <<program, warmup, left, wg, sink, worker, work>>
      /\ \/ /\ pc = "next" /\ pc' = "warm" /\ pass' = pass
            /\ workers' = 0 /\ joined' = 0 /\ total' = 0 /\ made' = 1
         \/ /\ pc = "next" /\ pc' = "exit" /\ UNCHANGED <<pass, workers, joined, total, made>>
         \/ /\ pc = "return" /\ pc' = "next" /\ pass' = pass + 1
            /\ UNCHANGED <<workers, joined, total, made>>
  BY DEF Bench, Exit, Return
<1>2. Typed /\ InPasses /\ Numbers /\ Sunk
  BY DEF IInv, WInv
<1>3. Batched' /\ Pending' = Pending /\ \A t \in 1..workers : w'[t] # "none"
  BY <1>1, WorkersStay
<1>4. Numbers'
  <2>1. pass' <= Len(Passes) + 1 /\ made' \in 0..(MaxThreads + 1)
    BY <1>1, <1>2, PassesAssumption, SMTT(30) DEF Numbers, InPasses, Typed
  <2>2. total' \in 0..(MaxThreads * MaxBatches)
    <3>1. MaxThreads * MaxBatches \in Nat
      BY PassesAssumption, BoundsAssumption
    <3>2. 0 \in 0..(MaxThreads * MaxBatches)
      BY <3>1
    <3> QED
      BY <1>1, <1>2, <3>2 DEF Numbers
  <2>3. pc' \in {"next", "warm", "add", "spawn", "wait", "return", "exit"}
    BY <1>1
  <2> QED
    BY <1>1, <1>2, <2>1, <2>2, <2>3 DEF Numbers, worker
<1>5. Started'
  <2>1. \A t \in 1..0 : w'[t] # "none"
    OBVIOUS
  <2> QED
    BY <1>1, <1>3, <2>1 DEF Started
<1>6. Fresh' /\ Summed'
  BY <1>1 DEF Fresh, Summed
<1>7. Sunk'
  BY <1>1, <1>2, <1>3 DEF Sunk, worker
<1> QED
  BY <1>3, <1>4, <1>5, <1>6, <1>7 DEF WInv

\* The warm-up adds to the sink while nobody else does (cmd/bench/main.go:46-50).
LEMMA WarmUpCounts ==
  ASSUME IInv, WInv, WarmUp \/ AddWarmUp
  PROVE  WInv'
<1>1. /\ UNCHANGED <<program, pass, workers, joined, total, made, wg, worker>>
      /\ left' = RunTime
      /\ \/ /\ pc = "warm" /\ pc' = (IF program = "go" THEN "add" ELSE "spawn")
            /\ warmup' = sink /\ UNCHANGED <<sink, work>>
         \/ /\ pc = "add" /\ pc' = "spawn" /\ sink' = warmup + 1 /\ work' = work + 1
            /\ warmup' = warmup
  BY DEF WarmUp, AddWarmUp
<1>2. Typed /\ InPasses /\ Numbers /\ Sunk /\ Fresh /\ Started
  BY DEF IInv, WInv
<1>3. Batched' /\ Pending' = Pending /\ \A t \in 1..workers : w'[t] # "none"
  BY <1>1, WorkersStay
<1>4. Numbers'
  <2>1. left' \in 0..RunTime
    BY <1>1, BoundsAssumption
  <2>2. pc' \in {"next", "warm", "add", "spawn", "wait", "return", "exit"}
    BY <1>1
  <2>3. sink' \in Nat /\ warmup' \in Nat /\ work' \in Nat
    BY <1>1, <1>2 DEF Numbers
  <2> QED
    BY <1>1, <1>2, <2>1, <2>2, <2>3 DEF Numbers, worker
<1>5. Started'
  BY <1>1, <1>3 DEF Started
<1>6. Fresh' /\ Summed'
  BY <1>1, <1>2 DEF Fresh, Summed
<1>7. Sunk'
  <2>1. SUFFICES ASSUME program = "go" PROVE work' = sink' + SumOf(nn', Pending')
    BY <1>1 DEF Sunk
  <2>2. Running = {}
    BY <1>1 DEF IInv, Inside
  <2>3. SumOf(nn, Pending) = 0 /\ SumOf(nn', Pending') = 0
    <3>1. Pending = {} /\ Pending' = {}
      BY <1>3, <2>2, PendingRun
    <3> QED
      BY <3>1, SumOfNone
  <2>4. work = sink + 0 /\ sink \in Nat /\ work \in Nat
    BY <1>2, <2>1, <2>3 DEF Sunk, Numbers
  <2>5. work' = sink' + 0
    BY <1>1, <1>2, <2>4 DEF Fresh
  <2> QED
    BY <2>3, <2>5
<1> QED
  BY <1>3, <1>4, <1>5, <1>6, <1>7 DEF WInv

\* The counts are added up, one by one in C (common.c:57), at once in Go
\* (cmd/bench/main.go:75-80).
LEMMA JoinCounts ==
  ASSUME IInv, WInv, AllSpawned \/ Join \/ AllJoined \/ Wait
  PROVE  WInv'
<1>1. /\ UNCHANGED <<program, pass, workers, made, warmup, left, wg, sink, worker, work>>
      /\ pc' \in {"wait", "return"}
  BY DEF AllSpawned, Join, AllJoined, Wait
<1>2. Typed /\ InPasses /\ Numbers /\ Sunk /\ Fresh /\ Started /\ Summed
  BY DEF IInv, WInv
<1>3. Batched' /\ Pending' = Pending /\ \A t \in 1..workers : w'[t] # "none"
  BY <1>1, WorkersStay
<1>4. Started' /\ Fresh'
  <2>1. workers = Passes[pass]
    BY <1>2 DEF AllSpawned, Join, AllJoined, Wait, Started
  <2> QED
    BY <1>1, <1>3, <2>1 DEF Started, Fresh
<1>5. Sunk'
  BY <1>1, <1>2, <1>3 DEF Sunk, worker
<1>6. count \in [Threads -> 0..MaxBatches] /\ count' = count
  BY <1>1, <1>2 DEF Numbers, worker
<1>7. \A k \in 0..MaxThreads : SumOf(count, 1..k) \in 0..(MaxThreads * MaxBatches)
  <2> SUFFICES ASSUME NEW k \in 0..MaxThreads
               PROVE  SumOf(count, 1..k) \in 0..(MaxThreads * MaxBatches)
    OBVIOUS
  <2>1. SumOf(count, 1..k) \in 0..(k * MaxBatches)
    BY <1>6, SumBounds
  <2>2. k * MaxBatches <= MaxThreads * MaxBatches
    BY PassesAssumption, BoundsAssumption
  <2>3. k * MaxBatches \in Nat /\ MaxThreads * MaxBatches \in Nat
    BY PassesAssumption, BoundsAssumption
  <2> DEFINE a == k * MaxBatches
             b == MaxThreads * MaxBatches
             s == SumOf(count, 1..k)
  <2>4. s \in 0..a /\ a <= b /\ a \in Nat /\ b \in Nat
    BY <2>1, <2>2, <2>3
  <2> HIDE DEF a, b, s
  <2>5. s \in 0..b
    BY <2>4
  <2> QED
    BY <2>5 DEF s, b
<1>8. Summed' /\ total' \in 0..(MaxThreads * MaxBatches)
  <2>1. CASE AllSpawned
    <3>1. total' = 0 /\ joined' = 0 /\ pc' = "wait" /\ total = 0
      BY <1>2, <2>1 DEF AllSpawned, Fresh
    <3>2. SumOf(count', 1..joined') = 0
      <4>1. 1..joined' = {}
        BY <3>1
      <4> QED
        BY <4>1, SumOfNone
    <3> QED
      BY <1>2, <3>1, <3>2 DEF Summed, Numbers
  <2>2. CASE Join
    <3>1. /\ program = "c" /\ pc = "wait" /\ pc' = "wait" /\ joined < workers
          /\ joined' = joined + 1 /\ total' = total + count[joined + 1]
      BY <2>2 DEF Join
    <3>2. joined \in Nat /\ joined + 1 \in Threads /\ joined + 1 \in 0..MaxThreads
      BY <1>2, <3>1, PassesAssumption DEF Typed, Threads
    <3>3. total = SumOf(count, 1..joined)
      BY <1>2, <3>1 DEF Summed
    <3>4. SumOf(count, 1..(joined + 1)) = count[joined + 1] + SumOf(count, 1..joined)
      BY <1>6, <3>2, SumUpTo
    <3>5. total \in Int /\ count[joined + 1] \in Int
      <4>1. total \in 0..(MaxThreads * MaxBatches)
        BY <1>2 DEF Numbers
      <4>2. MaxThreads * MaxBatches \in Int
        BY PassesAssumption, BoundsAssumption
      <4> DEFINE b == MaxThreads * MaxBatches
      <4>3. total \in 0..b /\ b \in Int
        BY <4>1, <4>2
      <4> HIDE DEF b
      <4>4. total \in Int
        BY <4>3
      <4>5. count[joined + 1] \in 0..MaxBatches
        BY <1>6, <3>2
      <4> QED
        BY <4>4, <4>5, BoundsAssumption
    <3>6. total' = SumOf(count, 1..(joined + 1))
      <4> DEFINE c == count[joined + 1]
      <4>1. total' = total + c /\ total \in Int /\ c \in Int
        BY <3>1, <3>5
      <4>2. SumOf(count, 1..(joined + 1)) = c + total
        BY <3>3, <3>4
      <4> HIDE DEF c
      <4>3. total + c = c + total
        BY <4>1
      <4> QED
        BY <4>1, <4>2, <4>3
    <3>7. total' \in 0..(MaxThreads * MaxBatches)
      BY <1>7, <3>2, <3>6
    <3>8. Summed'
      BY <1>1, <1>6, <3>1, <3>6 DEF Summed
    <3> QED
      BY <3>7, <3>8
  <2>3. CASE AllJoined
    <3>1. program = "c" /\ pc = "wait" /\ pc' = "return" /\ joined = workers /\ total' = total
      BY <2>3 DEF AllJoined
    <3> QED
      BY <1>1, <1>2, <1>6, <3>1 DEF Summed, Numbers
  <2>4. CASE Wait
    <3>1. pc' = "return" /\ total' = SumOf(count, Counts)
      BY <2>4 DEF Wait, SumOf
    <3>2. workers \in 0..MaxThreads /\ Counts = 1..workers
      BY <1>2, PassesAssumption DEF Typed, Counts, Threads
    <3>3. total' = SumOf(count, 1..workers)
      BY <3>1, <3>2
    <3>4. Summed'
      BY <1>1, <1>6, <3>1, <3>3 DEF Summed
    <3> QED
      BY <1>7, <3>2, <3>3, <3>4
  <2> QED
    BY <2>1, <2>2, <2>3, <2>4
<1>9. Numbers'
  BY <1>1, <1>2, <1>8 DEF Numbers, worker
<1> QED
  BY <1>3, <1>4, <1>5, <1>8, <1>9 DEF WInv

\* Every step of a bench, a worker or the clock keeps what the sums need.
LEMMA StepCounts == IInv /\ WInv /\ [Next]_vars => WInv'
<1> SUFFICES ASSUME IInv, WInv, [Next]_vars PROVE WInv'
  OBVIOUS
<1>1. CASE Main
  BY <1>1, BenchCounts, WarmUpCounts, SpawnCounts, JoinCounts DEF Main
<1>2. ASSUME NEW t \in Threads, Worker(t) PROVE WInv'
  BY <1>2, BatchCounts, CheckOrStoreCounts, AddToSinkCounts, ExitWorkerCounts DEF Worker
<1>3. CASE Tick \/ UNCHANGED vars
  <2>1. /\ UNCHANGED <<program, main, wg, sink, worker, work>>
        /\ left' = left \/ (left > 0 /\ left' = left - 1)
    BY <1>3 DEF Tick, vars
  <2>2. Batched' /\ Pending' = Pending
    BY <2>1, WorkersStay
  <2>3. Numbers'
    <3>1. left' \in 0..RunTime
      BY <2>1, BoundsAssumption DEF WInv, Numbers
    <3> QED
      BY <2>1, <3>1 DEF WInv, Numbers, main, worker
  <2> QED
    BY <2>1, <2>2, <2>3 DEF WInv, Started, Fresh, Summed, Sunk, main, worker
<1> QED
  BY <1>1, <1>2, <1>3 DEF Next

\* Both invariants hold of every run of the benchmarks.
LEMMA BothHold == Spec => [](IInv /\ WInv)
<1>1. Init => IInv /\ WInv
  BY InitEstablishes, NothingParsed
<1>2. IInv /\ WInv /\ [Next]_vars => (IInv /\ WInv)'
  BY StepKeeps, StepCounts
<1> QED
  BY <1>1, <1>2, PTL DEF Spec

\* The variables of the benchmarks keep their types: no index passes the end of
\* th and args when no bench starts more workers than they hold, the total stays
\* a count and the wait group never goes below zero (common.c:53-57,
\* cmd/bench/main.go:52-80).
THEOREM TypeCorrect == Spec => []TypeOK
<1>1. IInv /\ WInv => TypeOK
  <2> SUFFICES ASSUME IInv, WInv PROVE TypeOK
    OBVIOUS
  <2>1. Typed /\ Numbers /\ Counted
    BY DEF IInv, WInv
  <2>2. wg \in 0..MaxThreads
    <3>1. program \in {"c", "go"} /\ MaxThreads \in Nat
      BY <2>1, ProgramsAssumption, PassesAssumption DEF Numbers
    <3>2. CASE program = "c"
      BY <2>1, <3>1, <3>2 DEF Numbers
    <3>3. CASE program = "go"
      <4>1. wg = Cardinality(Running)
        BY <2>1, <3>3 DEF Counted
      <4>2. IsFiniteSet(Threads) /\ Cardinality(Threads) = MaxThreads
        <5>1. IsFiniteSet(1..MaxThreads) /\ Cardinality(1..MaxThreads) =
                IF 1 > MaxThreads THEN 0 ELSE MaxThreads - 1 + 1
          BY <3>1, FS_Interval
        <5> QED
          BY <3>1, <5>1 DEF Threads
      <4>3. Cardinality(Running) <= Cardinality(Threads)
        <5>1. Running \in SUBSET Threads
          BY DEF Running
        <5> QED
          BY <4>2, <5>1, FS_Subset
      <4>4. Cardinality(Running) \in Nat
        BY RunningIsFinite, FS_CardinalityType
      <4> QED
        BY <3>1, <4>1, <4>2, <4>3, <4>4
    <3> QED
      BY <3>1, <3>2, <3>3
  <2>3. pass \in 1..(Len(Passes) + 1)
    BY <2>1, PassesAssumption DEF Typed, Numbers
  <2> QED
    BY <2>1, <2>2, <2>3 DEF TypeOK, Typed, Numbers
<1> QED
  BY <1>1, BothHold, PTL

\* What a bench returns is what its workers parsed, every batch counted once and one
\* at least of each; the sum that Go keeps loses no update (common.c:44-57,
\* cmd/bench/main.go:46-80).
THEOREM EveryBatchIsCounted == Spec => []TotalIsWork
<1>1. IInv /\ WInv => TotalIsWork
  <2> SUFFICES ASSUME IInv, WInv, pc = "return"
               PROVE  /\ total = SumOf(nn, 1..Passes[pass])
                      /\ total >= Passes[pass]
                      /\ program = "go" => sink = work
    BY DEF TotalIsWork, SumOf
  <2>1. Typed /\ Numbers /\ Batched /\ Started /\ Summed /\ Sunk /\ Running = {}
    BY DEF IInv, WInv, Inside
  <2>2. workers = Passes[pass] /\ total = SumOf(count, 1..workers)
    BY <2>1 DEF Started, Summed
  <2>3. workers \in 0..MaxThreads /\ workers \in Nat
    BY <2>1, PassesAssumption DEF Typed
  <2>4. \A t \in 1..workers : count[t] = nn[t] /\ nn[t] >= 1
    <3> SUFFICES ASSUME NEW t \in 1..workers PROVE count[t] = nn[t] /\ nn[t] >= 1
      OBVIOUS
    <3>1. t \in Threads
      BY <2>3, PassesAssumption DEF Threads
    <3>2. w[t] # "none" /\ t \notin Running
      BY <2>1 DEF Started
    <3>3. w[t] = "done"
      BY <2>1, <3>1, <3>2 DEF Running, Alive, Typed
    <3> QED
      BY <2>1, <3>1, <3>3 DEF Batched, BatchOf
  <2>5. SumOf(count, 1..workers) = SumOf(nn, 1..workers)
    <3>1. IsFiniteSet(1..workers)
      BY <2>3, FS_Interval
    <3> QED
      BY <2>4, <3>1, SumAgrees
  <2>6. total >= workers
    <3>1. \A t \in 1..workers : nn[t] >= 1
      BY <2>4
    <3>2. nn \in [Threads -> 0..MaxBatches]
      BY <2>1 DEF Numbers
    <3>3. SumOf(nn, 1..workers) >= workers
      BY <2>3, <3>1, <3>2, SumBounds
    <3> QED
      BY <2>2, <2>5, <3>3
  <2>7. ASSUME program = "go" PROVE sink = work
    <3>1. Pending = {}
      BY <2>1, PendingRun
    <3>2. work = sink + 0
      BY <2>1, <2>7, <3>1, SumOfNone DEF Sunk
    <3> QED
      BY <2>1, <3>2 DEF Numbers
  <2> QED
    BY <2>2, <2>5, <2>6, <2>7
<1> QED
  BY <1>1, BothHold, PTL

=============================================================================
