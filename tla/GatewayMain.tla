---------------------------- MODULE GatewayMain ----------------------------
(***************************************************************************)
(* The executable built from main.cpp, around the engine of module         *)
(* StorageEngine: the main thread initializes the engine, starts the       *)
(* workers, joins them and destroys the engine; each worker inserts one    *)
(* row.  systemd starts the executable again after it ends or dies         *)
(* (Restart=always); the database file outlives each run.                  *)
(***************************************************************************)
EXTENDS StorageEngine

CONSTANTS Main,      \* the main thread
          MaxRuns    \* bound on the starts of the executable

Workers == Threads \ {Main}

ASSUME MainAssumption == /\ Main \in Threads
                         /\ MaxRuns \in Nat \ {0}

VARIABLES mainPc,    \* where main() is
          waiting,   \* workers whose insertion has still to be called
          runs       \* starts of the executable so far

mainVars == <<mainPc, waiting, runs>>
allVars == <<vars, mainVars>>

ProgramInit == /\ Init
               /\ mainPc = "start"
               /\ waiting = {}
               /\ runs = 1

\* storage.init()
MainInit == /\ mainPc = "start"
            /\ Call(Main, "init", 0)
            /\ mainPc' = "initializing"
            /\ UNCHANGED <<waiting, runs>>

\* init() failed: return 1, which destroys the engine on the way out.
MainHalts == /\ mainPc = "initializing"
             /\ ret[Main] = "false"
             /\ Call(Main, "close", 0)
             /\ mainPc' = "destroying"
             /\ UNCHANGED <<waiting, runs>>

\* init() succeeded: emplace the worker threads.
MainSpawns == /\ mainPc = "initializing"
              /\ ret[Main] = "true"
              /\ mainPc' = "joining"
              /\ waiting' = Workers
              /\ UNCHANGED <<vars, runs>>

\* workerThreadFunction
WorkerInserts(w) == /\ w \in waiting
                    /\ Call(w, "insert", 1)
                    /\ waiting' = waiting \ {w}
                    /\ UNCHANGED <<mainPc, runs>>

\* Mutant: main leaves without joining.
MainLeaves == /\ mainPc = "joining"
              /\ Call(Main, "close", 0)
              /\ mainPc' = "destroying"
              /\ UNCHANGED <<waiting, runs>>

\* Every join has returned; leaving main destroys the engine.
MainJoins == /\ mainPc = "joining"
             /\ waiting = {}
             /\ \A w \in Workers : pc[w] = "idle"
             /\ Call(Main, "close", 0)
             /\ mainPc' = "destroying"
             /\ UNCHANGED <<waiting, runs>>

MainExits == /\ mainPc = "destroying"
             /\ pc[Main] = "idle"
             /\ mainPc' = "exited"
             /\ UNCHANGED <<vars, waiting, runs>>

Restart == /\ mainPc = "exited"
           /\ runs < MaxRuns
           /\ runs' = runs + 1
           /\ ProcessDies
           /\ mainPc' = "start"
           /\ UNCHANGED waiting

\* The process is killed; systemd starts it again.
Killed == /\ mainPc # "exited"
          /\ runs < MaxRuns
          /\ runs' = runs + 1
          /\ Crash
          /\ mainPc' = "start"
          /\ waiting' = {}

\* Here no thread meets a null statement (NoNullStatement), so that step of the
\* engine is not taken over.
EngineStep(t) == Engine(t) /\ UNCHANGED mainVars

MainThread == MainInit \/ MainHalts \/ MainSpawns \/ MainJoins \/ MainExits

ProgramNext == \/ MainThread
               \/ \E t \in Threads : WorkerInserts(t) \/ EngineStep(t)
               \/ Restart
               \/ Killed

ProgramSpec == ProgramInit /\ [][ProgramNext]_allVars

\* Every thread that can run does.  Nothing is promised about kills and restarts.
ProgramFairness == /\ WF_allVars(MainThread)
                   /\ \A t \in Threads : /\ WF_allVars(WorkerInserts(t))
                                         /\ WF_allVars(Running(t) /\ UNCHANGED mainVars)
                                         /\ SF_allVars(Locking(t) /\ UNCHANGED mainVars)

FairProgram == ProgramSpec /\ ProgramFairness
-----------------------------------------------------------------------------
(* Properties *)

\* A run that is not killed comes to its end: no worker and no join hangs.
RunEnds == mainPc = "start" ~> mainPc = "exited"
=============================================================================
