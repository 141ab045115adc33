------------------------------- MODULE Logger -------------------------------
(***************************************************************************)
(* utils::Logger, used by every other component through the LOG_ macros:   *)
(* a static shared_ptr that get_logger() tests, initializes on first use   *)
(* and returns by reference, without a lock.  The shared_ptr is two words, *)
(* the logger and the control block that counts its owners; assigning it   *)
(* writes one after the other, and two threads that assign race on both.   *)
(* Loggers are numbered in the order they are made; 0 is the null pointer. *)
(* What sinks, levels and patterns do is left out.                         *)
(***************************************************************************)
EXTENDS Integers, FiniteSets

CONSTANTS Threads,
          Starter,           \* the thread that starts the others
          InitiallyRunning,  \* the threads that run from the beginning
          SinksMayFail,      \* the log file may be impossible to open
          MaxInits           \* bound on the explicit calls of init

ASSUME LoggerAssumption == /\ IsFiniteSet(Threads)
                           /\ Starter \in InitiallyRunning
                           /\ InitiallyRunning \subseteq Threads
                           /\ SinksMayFail \in BOOLEAN
                           /\ MaxInits \in Nat

VARIABLES ptr, owner,   \* the two words of logger_instance_
          refs,         \* shared_ptrs that own each logger
          made,         \* loggers made so far
          registered,   \* what spdlog's registry holds under the default name
          pc, then,     \* per thread: place, and where init returns to
          mine, old,    \* per thread: the logger it made, the one it replaces
          using,        \* per thread: the logger a call of it runs on, or 0
          running,      \* threads that were started
          logged,       \* a call on the logger has returned
          inits

words == <<ptr, owner, refs, made, registered>>
locals == <<then, mine, old, using>>
control == <<running, logged, inits>>
loggerVars == <<words, pc, locals, control>>

Loggers == 1 .. Cardinality(Threads) + MaxInits
Goto(t, label) == pc' = [pc EXCEPT ![t] = label]

LoggerInit == /\ ptr = 0 /\ owner = 0
              /\ refs = [l \in Loggers |-> 0]
              /\ made = 0 /\ registered = 0
              /\ pc = [t \in Threads |-> "idle"]
              /\ then = [t \in Threads |-> "idle"]
              /\ mine = [t \in Threads |-> 0]
              /\ old = [t \in Threads |-> 0]
              /\ using = [t \in Threads |-> 0]
              /\ running = InitiallyRunning
              /\ logged = FALSE
              /\ inits = 0
-----------------------------------------------------------------------------
(* Calls *)

Enter(t, label, back) == /\ pc[t] = "idle" /\ t \in running
                         /\ Goto(t, label)
                         /\ then' = [then EXCEPT ![t] = back]
                         /\ UNCHANGED <<words, mine, old, using>>

\* A LOG_ macro: get_logger() and a call on what it refers to.
Log(t) == Enter(t, "test", "use") /\ UNCHANGED control

\* flush() tests the pointer and does not initialize.
Flush(t) == Enter(t, IF ptr = 0 THEN "idle" ELSE "use", "idle") /\ UNCHANGED control

\* init() called by itself.  Nothing in the repository does so; who does is taken
\* to know that the other threads have not been started, since beside them init
\* is one more writer in the race that lazy initialization is in.
InitCall(t) == /\ running = {t} /\ running # Threads
               /\ inits < MaxInits
               /\ inits' = inits + 1
               /\ Enter(t, "sinks", "idle")
               /\ UNCHANGED <<running, logged>>

\* Mutant: threads are started before anything was logged.
StartThreadsEarly == /\ running' = Threads
                     /\ UNCHANGED <<words, pc, locals, logged, inits>>

\* The owner of the process, or of the node, has logged before it starts
\* threads: storage.init() and the node's constructor do.
StartThreads == /\ pc[Starter] = "idle" /\ logged /\ running # Threads
                /\ running' = Threads
                /\ UNCHANGED <<words, pc, locals, logged, inits>>
-----------------------------------------------------------------------------
(* get_logger and init, by thread t *)

Test(t) == /\ pc[t] = "test"
           /\ Goto(t, IF ptr = 0 THEN "sinks" ELSE "use")
           /\ UNCHANGED <<words, locals, control>>

\* The sinks are made, or the exception is caught and init returns.
Sinks(t) == /\ pc[t] = "sinks"
            /\ \/ Goto(t, "make")
               \/ SinksMayFail /\ Goto(t, then[t])
            /\ UNCHANGED <<words, locals, control>>

Make(t) == /\ pc[t] = "make"
           /\ made' = made + 1
           /\ refs' = [refs EXCEPT ![made + 1] = 1]
           /\ mine' = [mine EXCEPT ![t] = made + 1]
           /\ Goto(t, "assign_ptr")
           /\ UNCHANGED <<ptr, owner, registered, then, old, using, control>>

\* logger_instance_ = make_shared(...): the first word, then the second, whose
\* old value is read, replaced and in the end released.
AssignPtr(t) == /\ pc[t] = "assign_ptr"
                /\ ptr' = mine[t]
                /\ Goto(t, "read_owner")
                /\ UNCHANGED <<owner, refs, made, registered, locals, control>>

ReadOwner(t) == /\ pc[t] = "read_owner"
                /\ old' = [old EXCEPT ![t] = owner]
                /\ Goto(t, "write_owner")
                /\ UNCHANGED <<words, then, mine, using, control>>

WriteOwner(t) == /\ pc[t] = "write_owner"
                 /\ owner' = mine[t]
                 /\ Goto(t, "release")
                 /\ UNCHANGED <<ptr, refs, made, registered, locals, control>>

Released(l) == IF l = 0 THEN refs ELSE [refs EXCEPT ![l] = @ - 1]

Release(t) == /\ pc[t] = "release"
              /\ refs' = Released(old[t])
              /\ old' = [old EXCEPT ![t] = 0]
              /\ Goto(t, "set_pattern")
              /\ UNCHANGED <<ptr, owner, made, registered, then, mine, using, control>>

\* What follows each call on the logger: init makes three, a message or flush() one.
Following == [set_pattern |-> "set_level", set_level |-> "flush_on",
              flush_on |-> "register", use |-> "idle"]

\* logger_instance_->...: the pointer is read, and the call runs on what it
\* points to.
Deref(t) == /\ pc[t] \in DOMAIN Following /\ using[t] = 0
            /\ ptr # 0
            /\ using' = [using EXCEPT ![t] = ptr]
            /\ UNCHANGED <<words, pc, then, mine, old, control>>

\* init failed and left the pointer null: the call is made all the same, and
\* the process dies.
NullDereference(t) == /\ pc[t] = "use" /\ using[t] = 0 /\ ptr = 0
                      /\ pc' = [u \in Threads |-> "dead"]
                      /\ UNCHANGED <<words, locals, control>>

CallReturns(t) == /\ pc[t] \in DOMAIN Following /\ using[t] # 0
                  /\ using' = [using EXCEPT ![t] = 0]
                  /\ logged' = (logged \/ pc[t] = "use")
                  /\ Goto(t, Following[pc[t]])
                  /\ UNCHANGED <<words, then, mine, old, running, inits>>

\* spdlog::register_logger keeps a copy, unless the name is taken: then it
\* throws, init returns, and the new logger stays unregistered.  An explicit init
\* may have been given another name than the default.
Register(t) == /\ pc[t] = "register"
               /\ \/ /\ registered = 0
                     /\ registered' = owner
                     /\ refs' = [refs EXCEPT ![owner] = @ + 1]
                  \/ /\ registered # 0
                     /\ UNCHANGED <<refs, registered>>
                  \/ /\ then[t] = "idle"
                     /\ refs' \in {refs, [refs EXCEPT ![owner] = @ + 1]}
                     /\ UNCHANGED registered
               /\ Goto(t, then[t])
               /\ UNCHANGED <<ptr, owner, made, locals, control>>
-----------------------------------------------------------------------------
LoggerStep(t) == \/ Test(t) \/ Sinks(t) \/ Make(t)
                 \/ AssignPtr(t) \/ ReadOwner(t) \/ WriteOwner(t) \/ Release(t)
                 \/ Deref(t) \/ NullDereference(t) \/ CallReturns(t) \/ Register(t)
-----------------------------------------------------------------------------
(* Properties *)

\* Every variable of the logger keeps its type: a logger is never released by
\* more owners than it has.
LoggerTypeOK == /\ {ptr, owner, registered} \cup {using[t] : t \in Threads}
                       \subseteq 0 .. made
                /\ refs \in [Loggers -> Nat]
                /\ pc \in [Threads -> {"test", "sinks", "make", "assign_ptr",
                                       "read_owner", "write_owner", "release", "register",
                                       "idle", "dead"} \cup DOMAIN Following]

\* A logger on which a call runs, or whose control block register_logger
\* copies, has an owner: nobody destroys it under the caller, although
\* get_logger() hands out a reference and takes no share of it.
NoDestroyedLogger == \A t \in Threads :
    /\ using[t] # 0 => refs[using[t]] > 0
    /\ pc[t] = "register" => refs[owner] > 0
=============================================================================
