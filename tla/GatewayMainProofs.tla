------------------------- MODULE GatewayMainProofs -------------------------
(***************************************************************************)
(* Proofs about the executable of main.cpp, for every number of workers    *)
(* and of starts and every choice of failing SQLite calls.  They reuse the *)
(* engine's step lemmas: what remains is that main closes the engine only  *)
(* after the workers have left it, and that nobody calls insert_batch.     *)
(***************************************************************************)
EXTENDS GatewayMain, StorageEngineProofs

\* Workers are in the engine only while main waits in join, close is called
\* only while the engine is destroyed, and no call is a batch.
MainInv ==
    /\ waiting \subseteq Workers
    /\ mainPc # "joining" => waiting = {} /\ \A w \in Workers : pc[w] = "idle"
    /\ \A t \in Threads : pc[t] \in ClosePlaces => mainPc = "destroying"
    /\ NoBatch

\* What the engine's lemmas say, and MainInv.
ProgramInv == RowsInv /\ HandleInv /\ OnceInv /\ ReadyInv /\ TxnInv /\ MainInv
-----------------------------------------------------------------------------
\* To the engine, every step of the program is a call, a step of its own, a
\* death of the process or nothing.
LEMMA ProgramUsesEngine == [ProgramNext]_allVars => [Step]_vars
<1> SUFFICES ASSUME [ProgramNext]_allVars PROVE [Step]_vars
    OBVIOUS
<1> USE MainAssumption DEF Step, Calling, AllOps, Inserting
<1>1. CASE MainInit \/ MainHalts \/ MainJoins
    BY <1>1 DEF MainInit, MainHalts, MainJoins
<1>2. CASE MainSpawns \/ MainExits
    BY <1>2 DEF MainSpawns, MainExits
<1>3. CASE \E t \in Threads : WorkerInserts(t) \/ EngineStep(t)
    BY <1>3 DEF WorkerInserts, EngineStep
<1>4. CASE Restart \/ Killed
    BY <1>4 DEF Restart, Killed, Crash
<1>5. CASE UNCHANGED allVars
    BY <1>5 DEF allVars
<1> QED BY <1>1, <1>2, <1>3, <1>4, <1>5 DEF ProgramNext, MainThread

\* The destructor's close meets nobody behind ReadyCheck.
LEMMA MainClosesAlone == MainInv => ClosesAlone
<1> SUFFICES ASSUME MainInv, NEW t \in Threads, pc[t] = "close", NEW u \in Threads
             PROVE  pc[u] \notin Behind
    BY DEF ClosesAlone
<1>1. \A w \in Workers : pc[w] = "idle"
    BY DEF MainInv, ClosePlaces
<1> QED BY <1>1 DEF Workers, Behind, Initialized

\* join, the order of main's steps and the workers' single insertion keep it so.
LEMMA MainStep == RowsInv /\ MainInv /\ [ProgramNext]_allVars => MainInv'
<1> SUFFICES ASSUME RowsInv, MainInv, [ProgramNext]_allVars
             PROVE  MainInv'
    OBVIOUS
<1>0. /\ pc \in [Threads -> Labels] /\ op \in [Threads -> AllOps \cup {"none"}]
      /\ Main \in Threads
    BY MainAssumption DEF RowsInv, TypeOK
<1> USE DEF MainInv, NoBatch, Workers, ClosePlaces, Goto
<1>1. CASE MainInit
    BY <1>0, <1>1 DEF MainInit, Call
<1>2. CASE MainHalts \/ MainJoins
    BY <1>0, <1>2 DEF MainHalts, MainJoins, Call
<1>3. CASE MainSpawns
    BY <1>3 DEF MainSpawns, vars, caller
<1>4. CASE MainExits
    BY <1>0, <1>4 DEF MainExits, vars, caller
<1>5. ASSUME NEW w \in Threads, WorkerInserts(w)
      PROVE  MainInv'
    BY <1>0, <1>5 DEF WorkerInserts, Call
<1>6. ASSUME NEW t \in Threads, EngineStep(t)
      PROVE  MainInv'
  <2>1. pc[t] # "idle" /\ op' = op
      BY <1>6, OwnCallOnly DEF EngineStep, RowsInv, caller
  <2>2. /\ \A u \in Threads \ {t} : pc'[u] = pc[u]
        /\ pc'[t] \in ClosePlaces => pc[t] \in ClosePlaces
      BY <1>6, OnlyCallersClose DEF EngineStep, RowsInv
  <2> QED BY <1>6, <2>1, <2>2 DEF EngineStep, mainVars
<1>7. CASE Restart \/ Killed
    BY <1>7 DEF Restart, Killed, Crash, ProcessDies
<1>8. CASE UNCHANGED allVars
    BY <1>8 DEF allVars, mainVars, vars, caller
<1> QED BY <1>1, <1>2, <1>3, <1>4, <1>5, <1>6, <1>7, <1>8 DEF ProgramNext, MainThread

\* The program's invariant, through restarts and kills at any moment.
LEMMA ProgramInvariant == ProgramSpec => []ProgramInv
<1>1. ProgramInit => ProgramInv
  <2>1. ProgramInit => MainInv
      BY DEF ProgramInit, Init, MainInv, NoBatch, Workers, ClosePlaces
  <2> QED BY <2>1, InitRows, InitReady, InitTxn DEF ProgramInit, ProgramInv
<1>2. ProgramInv /\ [ProgramNext]_allVars => ProgramInv'
  <2>1. MainInv => NoBatch
      BY DEF MainInv
  <2> QED BY <2>1, ProgramUsesEngine, MainClosesAlone, MainStep, RowsStep, HandleStep, OnceStep,
             ReadyStep, TxnStep DEF ProgramInv
<1> QED BY <1>1, <1>2, PTL DEF ProgramSpec

\* No worker of main.cpp ever binds to a statement that the destructor's close
\* has finalized, in this run or after a restart.
THEOREM ProgramNeverBindsNull == ProgramSpec => []NoNullStatement
<1>1. ProgramInv => NoNullStatement
    BY ReadyMeansPrepared DEF ProgramInv
<1> QED BY <1>1, ProgramInvariant, PTL

\* Every row a worker was told is stored is in the file after any number of
\* restarts and kills, whatever SQLite call fails: main.cpp never calls
\* insert_batch, and only a batch can leave a transaction open.
THEOREM ProgramKeepsAcknowledged == ProgramSpec => []AckedIsDurable
<1>1. ProgramInv => AckedIsDurable
    BY TxnIsDurable DEF ProgramInv
<1> QED BY <1>1, ProgramInvariant, PTL

\* To its workers the program's engine is a durable store without exception,
\* across restarts and kills and whatever SQLite call fails.
THEOREM ProgramIsSoundStore == ProgramSpec => ImplementsSoundStore
<1>1. ProgramInit => Durable!StoreInit
    BY InitStore DEF ProgramInit
<1>2. ProgramInv /\ [ProgramNext]_allVars => [Durable!SoundNext]_Durable!storeVars
    BY ProgramUsesEngine, StoreStep DEF ProgramInv
<1> QED BY <1>1, <1>2, ProgramInvariant, PTL DEF ProgramSpec, ImplementsSoundStore, Durable!SoundSpec
=============================================================================
