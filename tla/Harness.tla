------------------------------- MODULE Harness -------------------------------
(***************************************************************************)
(* The benchmarks: bench and worker of cfast/common.c and of               *)
(* pico-neon/bench_neon.c, which are the same, and benchN of               *)
(* go-approach/cmd/bench/main.go.  A bench starts its workers, each of     *)
(* which parses in batches until the time is over and then stores how many *)
(* parses it made in memory of the bench; the bench waits for them and     *)
(* adds the counts.  In C the memory is on the stack of bench.             *)
(***************************************************************************)
EXTENDS Integers, Sequences, FiniteSetsExt

CONSTANTS
  Programs,     \* "c" or "go"
  Passes,       \* the benches of a run: a sequence of numbers of workers
  MaxThreads,   \* th[256] and args[256] have room for
  RunTime,      \* how long a bench takes, in ticks of the clock
  MaxBatches    \* bound on the batches of a worker

Threads == 1..MaxThreads

\* More processors than MaxThreads would overrun the arrays.
ASSUME ProgramsAssumption == Programs \subseteq {"c", "go"}
ASSUME PassesAssumption == MaxThreads \in Nat /\ Passes \in Seq(Threads)
ASSUME BoundsAssumption == RunTime \in Nat \ {0} /\ MaxBatches \in Nat \ {0}

VARIABLES
  program,
  pass,       \* the number of the bench
  pc,         \* where the main thread is
  workers,    \* how many it has started
  joined,     \* how many it has joined
  total,      \* the parses it has added up, in batches
  made,       \* how many parsers (C: messages) were made for this bench
  left,       \* ticks to the deadline
  wg,         \* the wait group of Go
  sink,       \* Go: the global sum of what was parsed
  warmup,     \* the value of sink it adds to
  w,          \* where each worker is
  nn,         \* the batches it has made
  count,      \* what it has stored
  parser,     \* the parser it uses
  work        \* history: all that was ever parsed

main == <<pass, pc, workers, joined, total, made, warmup>>
worker == <<w, nn, count, parser>>
vars == <<program, main, left, wg, sink, worker, work>>

TypeOK ==
  /\ program \in Programs
  /\ pass \in 1..(Len(Passes) + 1)
  /\ pc \in {"next", "warm", "add", "spawn", "wait", "return", "exit"}
  /\ workers \in 0..MaxThreads
  /\ joined \in 0..workers
  /\ total \in 0..(MaxThreads * MaxBatches)
  /\ made \in 0..(MaxThreads + 1)
  /\ left \in 0..RunTime
  /\ wg \in 0..MaxThreads
  /\ sink \in Nat /\ warmup \in Nat /\ work \in Nat
  /\ w \in [Threads -> {"none", "run", "check", "store", "sink", "exit", "done"}]
  /\ nn \in [Threads -> 0..MaxBatches]
  /\ count \in [Threads -> 0..MaxBatches]
  /\ parser \in [Threads -> 0..MaxThreads]

Init ==
  /\ program \in Programs
  /\ pass = 1
  /\ pc = "next"
  /\ workers = 0 /\ joined = 0 /\ total = 0 /\ made = 0
  /\ left = 0 /\ wg = 0 /\ sink = 0 /\ warmup = 0 /\ work = 0
  /\ w = [t \in Threads |-> "none"]
  /\ nn = [t \in Threads |-> 0]
  /\ count = [t \in Threads |-> 0]
  /\ parser = [t \in Threads |-> 0]

----------------------------------------------------------------------------
(***************************************************************************)
(* The main thread.                                                        *)
(***************************************************************************)

\* bench is called; parser 0 is its own, for the warm-up.
Bench ==
  /\ pc = "next"
  /\ pass <= Len(Passes)
  /\ pc' = "warm"
  /\ workers' = 0 /\ joined' = 0 /\ total' = 0 /\ made' = 1
  /\ UNCHANGED <<program, pass, warmup, left, wg, sink, worker, work>>

Exit ==
  /\ pc = "next"
  /\ pass > Len(Passes)
  /\ pc' = "exit"
  /\ UNCHANGED <<program, pass, workers, joined, total, made, warmup, left, wg, sink,
                 worker, work>>

\* The warm-up parses; Go adds to the sink without a lock.
WarmUp ==
  /\ pc = "warm"
  /\ pc' = IF program = "go" THEN "add" ELSE "spawn"
  /\ warmup' = sink
  /\ left' = RunTime
  /\ UNCHANGED <<program, pass, workers, joined, total, made, wg, sink, worker, work>>

AddWarmUp ==
  /\ pc = "add"
  /\ pc' = "spawn"
  /\ sink' = warmup + 1
  /\ work' = work + 1
  /\ left' = RunTime
  /\ UNCHANGED <<program, pass, workers, joined, total, made, warmup, wg, worker>>

\* Mutant of NextParser: one parser for all workers, made before the loop.
NextParser_Shared == 1

NextParser == made

\* Mutant of FirstStep: while (...) in place of do ... while.
FirstStep_While == "check"

FirstStep == "run"

\* Mutant of Added: the goroutine was to join the group when it runs, and does not.
Added_Not == wg

Added == wg + 1

\* A worker is started: its arguments are new and so is its parser; Go has the
\* group wait for it before it runs.
Spawn ==
  LET t == workers + 1 IN
  /\ pc = "spawn"
  /\ workers < Passes[pass]
  /\ workers' = t
  /\ made' = made + 1
  /\ w' = [w EXCEPT ![t] = FirstStep]
  /\ nn' = [nn EXCEPT ![t] = 0]
  /\ count' = [count EXCEPT ![t] = 0]
  /\ parser' = [parser EXCEPT ![t] = NextParser]
  /\ wg' = IF program = "go" THEN Added ELSE wg
  /\ UNCHANGED <<program, pass, pc, joined, total, warmup, left, sink, work>>

AllSpawned ==
  /\ pc = "spawn"
  /\ workers = Passes[pass]
  /\ pc' = "wait"
  /\ UNCHANGED <<program, pass, workers, joined, total, made, warmup, left, wg, sink,
                 worker, work>>

\* C joins one thread after another, and adds its count.
Join ==
  LET t == joined + 1 IN
  /\ program = "c"
  /\ pc = "wait"
  /\ joined < workers
  /\ w[t] = "done"
  /\ joined' = t
  /\ total' = total + count[t]
  /\ UNCHANGED <<program, pass, pc, workers, made, warmup, left, wg, sink, worker, work>>

AllJoined ==
  /\ program = "c"
  /\ pc = "wait"
  /\ joined = workers
  /\ pc' = "return"
  /\ UNCHANGED <<program, pass, workers, joined, total, made, warmup, left, wg, sink,
                 worker, work>>

\* Mutant of Counts: the counts of all but the last worker.
Counts_OneLess == {t \in Threads : t < workers}

Counts == {t \in Threads : t <= workers}

\* Go waits for the group, then adds all counts.
Wait ==
  /\ program = "go"
  /\ pc = "wait"
  /\ wg = 0
  /\ pc' = "return"
  /\ total' = MapThenSumSet(LAMBDA t : count[t], Counts)
  /\ UNCHANGED <<program, pass, workers, joined, made, warmup, left, wg, sink, worker, work>>

Return ==
  /\ pc = "return"
  /\ pc' = "next"
  /\ pass' = pass + 1
  /\ UNCHANGED <<program, workers, joined, total, made, warmup, left, wg, sink, worker, work>>

Main ==
  \/ Bench \/ Exit \/ WarmUp \/ AddWarmUp \/ Spawn \/ AllSpawned
  \/ Join \/ AllJoined \/ Wait \/ Return

----------------------------------------------------------------------------
(***************************************************************************)
(* A worker.                                                               *)
(***************************************************************************)

Batch(t) ==
  /\ w[t] = "run"
  /\ nn' = [nn EXCEPT ![t] = @ + 1]
  /\ w' = [w EXCEPT ![t] = "check"]
  /\ work' = work + 1
  /\ UNCHANGED <<program, main, left, wg, sink, count, parser>>

\* Mutant of Late: the deadline is never passed.
Late_Never == left < 0

Late == left = 0

\* A worker that has made MaxBatches waits here for the deadline: the bound.
Check(t) ==
  /\ w[t] = "check"
  /\ Late \/ nn[t] < MaxBatches
  /\ w' = [w EXCEPT ![t] = IF Late THEN "store" ELSE "run"]
  /\ UNCHANGED <<program, main, left, wg, sink, nn, count, parser, work>>

Store(t) ==
  /\ w[t] = "store"
  /\ count' = [count EXCEPT ![t] = nn[t]]
  /\ w' = [w EXCEPT ![t] = "sink"]
  /\ UNCHANGED <<program, main, left, wg, sink, nn, parser, work>>

\* Go adds what was parsed to the global sum, atomically.
AddToSink(t) ==
  /\ w[t] = "sink"
  /\ w' = [w EXCEPT ![t] = "exit"]
  /\ sink' = IF program = "go" THEN sink + nn[t] ELSE sink
  /\ UNCHANGED <<program, main, left, wg, nn, count, parser, work>>

ExitWorker(t) ==
  /\ w[t] = "exit"
  /\ w' = [w EXCEPT ![t] = "done"]
  /\ wg' = IF program = "go" THEN wg - 1 ELSE wg
  /\ UNCHANGED <<program, main, left, sink, nn, count, parser, work>>

Worker(t) == Batch(t) \/ Check(t) \/ Store(t) \/ AddToSink(t) \/ ExitWorker(t)

Tick ==
  /\ left > 0
  /\ left' = left - 1
  /\ UNCHANGED <<program, main, wg, sink, worker, work>>

Next == Main \/ (\E t \in Threads : Worker(t)) \/ Tick

\* Every thread is scheduled, and time passes.
Spec ==
  /\ Init /\ [][Next]_vars
  /\ WF_vars(Main)
  /\ \A t \in Threads : WF_vars(Worker(t))
  /\ WF_vars(Tick)

----------------------------------------------------------------------------
Alive(t) == w[t] \notin {"none", "done"}

\* A worker writes into args, which is on the stack of bench (common.c:53), and
\* uses its parser without a lock: it runs only while the bench that started it
\* has not returned, and nobody else uses its parser, not even for the warm-up.
Isolated ==
  \A t \in Threads :
    Alive(t) => /\ pc \in {"spawn", "wait"}
                /\ t \in (joined + 1)..workers
                /\ parser[t] # 0
                /\ \A u \in Threads \ {t} : Alive(u) => parser[u] # parser[t]

\* What a bench returns is the work of its workers: every batch is counted once,
\* and each worker made one at least, so that the rate is not zero and the time
\* per parse is defined.  The sum that Go keeps to have nothing optimised away
\* loses no update, although the warm-up adds to it without a lock.
TotalIsWork ==
  pc = "return" =>
    /\ total = MapThenSumSet(LAMBDA t : nn[t], 1..Passes[pass])
    /\ total >= Passes[pass]
    /\ program = "go" => sink = work

\* The benchmark ends, however the workers and the clock interleave.
MainReturns == <>(pc = "exit")
=============================================================================
