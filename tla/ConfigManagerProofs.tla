------------------------ MODULE ConfigManagerProofs ------------------------
(***************************************************************************)
(* Proofs about utils::ConfigManager and, under it, utils::Logger, for     *)
(* every set of threads, every set of documents and every number of        *)
(* explicit initializations of the logger.                                 *)
(***************************************************************************)
EXTENDS ConfigManager, FiniteSetTheorems, TLAPS

\* mutex_ belongs to the thread inside load_file that has read its file.
LoadInv ==
    /\ cfgPc \in [Threads -> {"out", "load_lock", "get_lock", "loaded", "failed"}]
    /\ mutex_ \in Threads \cup {NoThread}
    /\ \A t \in Threads : cfgPc[t] \in {"loaded", "failed"} <=> mutex_ = t

\* The tree and the flag are those of the last load once mutex_ is free; a
\* failed load still has to clear the flag.
CurrentInv ==
    /\ is_loaded_ \in BOOLEAN
    /\ root_node_ \in Documents \cup {Empty}
    /\ lastLoad \in Documents \cup {NoDocument}
    /\ lastLoad # NoDocument => is_loaded_ /\ root_node_ = lastLoad
    /\ mutex_ = NoThread => (is_loaded_ <=> lastLoad # NoDocument)
    /\ \A t \in Threads : /\ cfgPc[t] = "loaded" => lastLoad # NoDocument
                          /\ cfgPc[t] = "failed" => lastLoad = NoDocument

ConfigInv == LoadInv /\ CurrentInv /\ AnswersFromLastLoad

\* The places of Logger::init, those where the two words of logger_instance_
\* are being assigned, and all.
InitPlaces == {"sinks", "make", "assign_ptr", "read_owner", "write_owner", "release",
               "set_pattern", "set_level", "flush_on", "register"}
Assigning == {"assign_ptr", "read_owner", "write_owner", "release"}
Places == InitPlaces \cup {"idle", "test", "use", "dead"}

\* Only the thread that starts the others runs before it has logged.
StarterAlone == InitiallyRunning = {Starter}

\* Whoever is inside init is alone, and nobody comes to it once a call on the
\* logger has returned.
AloneInv ==
    /\ pc \in [Threads -> Places] /\ then \in [Threads -> {"idle", "use"}]
    /\ running \in {{Starter}, Threads} /\ logged \in BOOLEAN
    /\ running # {Starter} => logged
    /\ logged => ptr # 0
    /\ \A t \in Threads : /\ t \notin running => pc[t] \in {"idle", "dead"}
                          /\ pc[t] \in InitPlaces => running = {t}

\* Loggers are numbered, and there are no more than refs counts.
CountInv ==
    /\ made \in Nat /\ inits \in 0 .. MaxInits /\ made <= inits + 1
    /\ ptr \in 0 .. made /\ owner \in 0 .. made /\ registered \in 0 .. made
    /\ mine \in [Threads -> 0 .. made] /\ old \in [Threads -> 0 .. made]
    /\ using \in [Threads -> 0 .. made]
    /\ refs \in [Loggers -> Nat]
    /\ ptr = 0 /\ (\A t \in Threads : pc[t] # "assign_ptr") => made = 0
    /\ \A t \in Threads : pc[t] \in {"sinks", "make"} => made <= inits \/ made = 0

\* Whose share of a logger the two words hold, while they are assigned and
\* otherwise.
Owned(l) == l \in Loggers /\ refs[l] > 0
SharesInv ==
    /\ (\A t \in Threads : pc[t] \notin Assigning) => ptr = owner /\ (ptr # 0 => Owned(ptr))
    /\ \A t \in Threads :
         /\ pc[t] \in Assigning => mine[t] # 0 /\ Owned(mine[t])
         /\ pc[t] = "assign_ptr" => ptr = owner
         /\ pc[t] \in {"read_owner", "write_owner", "release"} => ptr = mine[t]
         /\ pc[t] \in {"assign_ptr", "read_owner", "write_owner"} =>
                owner # mine[t] /\ (owner # 0 => Owned(owner))
         /\ pc[t] = "write_owner" => old[t] = owner
         /\ pc[t] = "release" => /\ owner = mine[t] /\ old[t] # mine[t]
                                 /\ old[t] # 0 => Owned(old[t])
         /\ pc[t] \in {"set_pattern", "set_level", "flush_on", "register"} => ptr # 0
         /\ using[t] # 0 => using[t] = ptr /\ pc[t] \in DOMAIN Following

LoggerInv == AloneInv /\ CountInv /\ SharesInv
-----------------------------------------------------------------------------
\* Walking a well-formed tree key by key finds what stands at the path.
LEMMA NavigateFinds ==
    ASSUME NEW document \in Documents, NEW path \in DOMAIN document
    PROVE  navigate_path(document, path) = document[path]
BY DocumentsAssumption DEF navigate_path

\* Where nothing stands at the path, no conversion finds a value.
LEMMA NavigateMisses ==
    ASSUME NEW document, NEW path, path \notin DOMAIN document, NEW type
    PROVE  Converted(navigate_path(document, path), type) = "default"
<1>1. navigate_path(document, path) \in {[kind |-> "null"], [kind |-> "undefined"]}
    BY DEF navigate_path
<1>2. navigate_path(document, path).kind # "scalar"
    BY <1>1
<1> QED BY <1>2 DEF Converted

\* The answer of get under mutex_ is the reference's.
LEMMA AnswerIsCurrent ==
    ASSUME ConfigInv, mutex_ = NoThread, NEW path, NEW type, answer' = Answer(path, type)
    PROVE  AnswersFromLastLoad'
<1>1. /\ answer'.load = lastLoad /\ answer'.path = path /\ answer'.type = type
      /\ answer'.value = IF is_loaded_ THEN Converted(navigate_path(root_node_, path), type)
                                       ELSE "default"
    BY DEF Answer
<1>2. CASE lastLoad = NoDocument
    BY <1>1, <1>2 DEF ConfigInv, CurrentInv, AnswersFromLastLoad
<1>3. CASE lastLoad # NoDocument
  <2>1. lastLoad \in Documents /\ is_loaded_ /\ root_node_ = lastLoad
      BY <1>3 DEF ConfigInv, CurrentInv
  <2>2. answer'.value = Converted(navigate_path(lastLoad, path), type)
      BY <1>1, <2>1
  <2>3. CASE path \in DOMAIN lastLoad
    <3>1. navigate_path(lastLoad, path) = lastLoad[path]
        BY <2>1, <2>3, NavigateFinds
    <3> QED BY <1>1, <1>3, <2>2, <2>3, <3>1 DEF Converted, AnswersFromLastLoad
  <2>4. CASE path \notin DOMAIN lastLoad
      BY <1>1, <2>2, <2>4, NavigateMisses DEF AnswersFromLastLoad
  <2> QED BY <2>3, <2>4
<1> QED BY <1>2, <1>3

\* load_file and get keep the invariant, with the logging under mutex_ in between.
LEMMA ConfigStep == ConfigInv /\ [ServicesNext]_allVars => ConfigInv'
<1> SUFFICES ASSUME ConfigInv, [ServicesNext]_allVars
             PROVE  ConfigInv'
    OBVIOUS
<1>0. /\ cfgPc \in [Threads -> {"out", "load_lock", "get_lock", "loaded", "failed"}]
      /\ NoThread \notin Threads /\ NoDocument \notin Documents
    BY ConfigAssumption DEF ConfigInv, LoadInv
<1>1. CASE UNCHANGED configVars
    BY <1>1 DEF configVars, ConfigInv, LoadInv, CurrentInv, AnswersFromLastLoad
<1>2. ASSUME NEW t \in Threads, NEW label \in {"load_lock", "get_lock"}, Enters(t, label)
      PROVE  ConfigInv'
  <2>1. UNCHANGED <<mutex_, root_node_, is_loaded_, lastLoad, answer>>
      BY <1>2 DEF Enters
  <2>2. cfgPc' = [cfgPc EXCEPT ![t] = label] /\ cfgPc[t] = "out"
      BY <1>2 DEF Enters
  <2>3. LoadInv' /\ CurrentInv'
      BY <1>0, <1>2, <2>1, <2>2 DEF ConfigInv, LoadInv, CurrentInv
  <2> QED BY <2>1, <2>3 DEF ConfigInv, AnswersFromLastLoad
<1>3. ASSUME NEW t \in Threads, NEW document \in Documents \cup {NoDocument},
             LoadBody(t, document)
      PROVE  ConfigInv'
  <2>1. LoadInv'
      BY <1>0, <1>3 DEF LoadBody, ConfigInv, LoadInv
  <2>2. \A u \in Threads \ {t} : cfgPc'[u] \notin {"loaded", "failed"}
      BY <1>0, <1>3 DEF LoadBody, ConfigInv, LoadInv
  <2>3. CurrentInv'
      BY <1>0, <1>3, <2>2 DEF LoadBody, ConfigInv, CurrentInv
  <2> QED BY <1>3, <2>1, <2>3 DEF LoadBody, ConfigInv, AnswersFromLastLoad
<1>4. ASSUME NEW t \in Threads, LoadEnd(t)
      PROVE  ConfigInv'
  <2>1. LoadInv' /\ \A u \in Threads : cfgPc'[u] \notin {"loaded", "failed"}
      BY <1>0, <1>4 DEF LoadEnd, ConfigInv, LoadInv
  <2>2. CurrentInv'
      BY <1>0, <1>4, <2>1 DEF LoadEnd, ConfigInv, CurrentInv
  <2> QED BY <1>4, <2>1, <2>2 DEF LoadEnd, ConfigInv, AnswersFromLastLoad
<1>5. ASSUME NEW t \in Threads, NEW path \in Paths, NEW type \in Types, GetBody(t, path, type)
      PROVE  ConfigInv'
  <2>1. UNCHANGED <<mutex_, root_node_, is_loaded_, lastLoad>>
      BY <1>5 DEF GetBody
  <2>2. LoadInv' /\ CurrentInv'
      BY <1>0, <1>5, <2>1 DEF GetBody, ConfigInv, LoadInv, CurrentInv
  <2>3. AnswersFromLastLoad'
      BY <1>5, AnswerIsCurrent DEF GetBody
  <2> QED BY <2>2, <2>3 DEF ConfigInv
<1> QED BY <1>1, <1>2, <1>3, <1>4, <1>5
        DEF ServicesNext, LoggerCalls, LoadCall, GetCall, Locking, Running, allVars

\* What get answers is what the last load_file found at the path, for every
\* set of well-formed documents and every interleaving of loads and gets.
THEOREM AnswersAreFromLastLoad == Services => []AnswersFromLastLoad
<1>1. ServicesInit => ConfigInv
    BY ConfigAssumption DEF ServicesInit, ConfigInv, LoadInv, CurrentInv, AnswersFromLastLoad
<1>2. ConfigInv => AnswersFromLastLoad
    BY DEF ConfigInv
<1> QED BY <1>1, <1>2, ConfigStep, PTL DEF Services
-----------------------------------------------------------------------------
\* What a step of the two services may do to the logger.
LoggerMove == \/ StartThreads
              \/ \E t \in Threads : Log(t) \/ Flush(t) \/ InitCall(t) \/ LoggerStep(t)

\* The configuration manager touches the logger by its own operations only.
LEMMA ServicesMove == [ServicesNext]_allVars => [LoggerMove]_loggerVars
BY DEF ServicesNext, LoggerMove, LoggerCalls, LoadCall, GetCall, Enters, Locking, LoadBody,
       GetBody, Running, LoadEnd, allVars

\* There is a number for every logger that can be made.
LEMMA LoggersSuffice == ASSUME NEW n \in Nat, n <= MaxInits PROVE n + 1 \in Loggers
<1>1. Threads # {} /\ IsFiniteSet(Threads) /\ MaxInits \in Nat
    BY LoggerAssumption
<1>2. Cardinality(Threads) \in Nat /\ Cardinality(Threads) # 0
    BY <1>1, FS_CardinalityType, FS_EmptySet
<1> QED BY <1>1, <1>2 DEF Loggers

\* Nobody is inside init beside another thread that logs.
LEMMA AloneStep == LoggerInv /\ [LoggerMove]_loggerVars => AloneInv'
<1> SUFFICES ASSUME LoggerInv, [LoggerMove]_loggerVars
             PROVE  AloneInv'
    OBVIOUS
<1>0. /\ pc \in [Threads -> Places] /\ then \in [Threads -> {"idle", "use"}]
      /\ running \in {{Starter}, Threads} /\ Starter \in Threads
    BY LoggerAssumption DEF LoggerInv, AloneInv
<1> USE DEF words, locals, control, Places, InitPlaces, Following
<1>1. CASE UNCHANGED loggerVars
    BY <1>1 DEF loggerVars, LoggerInv, AloneInv
<1>2. CASE StartThreads
    BY <1>0, <1>2 DEF StartThreads, LoggerInv, AloneInv
<1>3. ASSUME NEW t \in Threads, Log(t) \/ Flush(t) \/ InitCall(t)
      PROVE  AloneInv'
    BY <1>0, <1>3 DEF Log, Flush, InitCall, Enter, Goto, LoggerInv, AloneInv
<1>4. ASSUME NEW t \in Threads, LoggerStep(t)
      PROVE  AloneInv'
  <2>1. ASSUME NEW label \in Places, pc' = [pc EXCEPT ![t] = label], t \in running,
               UNCHANGED <<then, running>>, logged' \in BOOLEAN, running # {Starter} => logged',
               (logged => ptr # 0) => (logged' => ptr' # 0),
               label \in InitPlaces => running = {t}
        PROVE  AloneInv'
      BY <1>0, <2>1 DEF LoggerInv, AloneInv
  <2>2. \A u \in Threads : pc[u] \notin {"idle", "dead"} => u \in running
      BY DEF LoggerInv, AloneInv
  <2>3. logged \in BOOLEAN /\ (running # {Starter} => logged) /\ (logged => ptr # 0)
      BY DEF LoggerInv, AloneInv
  <2>4. CASE Test(t)
      BY <1>0, <2>1, <2>2, <2>3, <2>4 DEF Test, Goto
  <2>5. CASE Sinks(t) \/ Make(t)
      BY <1>0, <2>1, <2>2, <2>3, <2>5 DEF Sinks, Make, Goto, LoggerInv, AloneInv
  <2>6. CASE AssignPtr(t)
      BY <1>0, <2>1, <2>2, <2>3, <2>6 DEF AssignPtr, Goto, LoggerInv, AloneInv, SharesInv, Assigning
  <2>7. CASE ReadOwner(t) \/ WriteOwner(t) \/ Release(t)
      BY <1>0, <2>1, <2>2, <2>3, <2>7 DEF ReadOwner, WriteOwner, Release, Goto, LoggerInv, AloneInv
  <2>8. CASE Deref(t)
      BY <1>0, <2>1, <2>2, <2>3, <2>8 DEF Deref, Goto, LoggerInv, AloneInv
  <2>9. CASE NullDereference(t)
      BY <1>0, <2>3, <2>9 DEF NullDereference, AloneInv
  <2>10. CASE CallReturns(t)
      BY <1>0, <2>1, <2>2, <2>3, <2>10 DEF CallReturns, Goto, LoggerInv, AloneInv, SharesInv
  <2>11. CASE Register(t)
      BY <1>0, <2>1, <2>2, <2>3, <2>11 DEF Register, Goto, LoggerInv, AloneInv
  <2> QED BY <1>4, <2>4, <2>5, <2>6, <2>7, <2>8, <2>9, <2>10, <2>11 DEF LoggerStep
<1> QED BY <1>1, <1>2, <1>3, <1>4 DEF LoggerMove

\* get_logger makes a logger only where there is none, so that explicit calls
\* of init and one more bound the number of loggers.
LEMMA CountStep == LoggerInv /\ [LoggerMove]_loggerVars => CountInv'
<1> SUFFICES ASSUME LoggerInv, [LoggerMove]_loggerVars
             PROVE  CountInv'
    OBVIOUS
<1>0. /\ pc \in [Threads -> Places] /\ then \in [Threads -> {"idle", "use"}]
      /\ MaxInits \in Nat
    BY LoggerAssumption DEF LoggerInv, AloneInv
<1>a. ASSUME NEW t \in Threads, NEW u \in Threads, pc[t] \in InitPlaces,
             pc[u] \notin {"idle", "dead"}
      PROVE  t = u
    BY <1>a DEF LoggerInv, AloneInv
<1>c. CountInv
    BY DEF LoggerInv
<1> USE DEF words, locals, control, Places, InitPlaces, Following
<1>1. CASE UNCHANGED loggerVars
    BY <1>1, <1>c DEF loggerVars, CountInv
<1>2. CASE StartThreads
    BY <1>2, <1>c DEF StartThreads, CountInv
<1>3. ASSUME NEW t \in Threads, Log(t) \/ Flush(t)
      PROVE  CountInv'
    BY <1>0, <1>3, <1>c DEF Log, Flush, Enter, Goto, CountInv
<1>4. ASSUME NEW t \in Threads, InitCall(t)
      PROVE  CountInv'
  <2>1. /\ inits' = inits + 1 /\ inits' \in 0 .. MaxInits /\ pc' = [pc EXCEPT ![t] = "sinks"]
        /\ UNCHANGED <<words, mine, old, using>> /\ pc[t] = "idle"
      BY <1>0, <1>4, <1>c DEF InitCall, Enter, Goto, CountInv
  <2>2. ASSUME \A u \in Threads : pc'[u] # "assign_ptr"
        PROVE  \A u \in Threads : pc[u] # "assign_ptr"
      BY <1>0, <2>1, <2>2
  <2> QED BY <1>0, <1>c, <2>1, <2>2 DEF CountInv
<1>5. ASSUME NEW t \in Threads, LoggerStep(t)
      PROVE  CountInv'
  <2>1. ASSUME NEW label \in Places \ {"sinks", "make"}, pc' = [pc EXCEPT ![t] = label],
               pc[t] # "assign_ptr", UNCHANGED <<ptr, owner, made, registered, mine, inits>>,
               old' \in [Threads -> 0 .. made], using' \in [Threads -> 0 .. made],
               refs' \in [Loggers -> Nat]
        PROVE  CountInv'
      BY <1>0, <1>c, <2>1 DEF CountInv
  <2>2. CASE Test(t)
    <3>1. CASE ptr = 0
      <4>1. \A u \in Threads : pc[u] # "assign_ptr"
          BY <1>a, <2>2 DEF Test
      <4>2. made = 0
          BY <1>c, <3>1, <4>1 DEF CountInv
      <4> QED BY <1>0, <1>c, <2>2, <3>1, <4>2 DEF Test, Goto, CountInv
    <3>2. CASE ptr # 0
        BY <1>0, <1>c, <2>2, <3>2 DEF Test, Goto, CountInv
    <3> QED BY <3>1, <3>2
  <2>3. CASE Sinks(t)
    <3>1. /\ UNCHANGED <<words, mine, old, using, inits>> /\ pc[t] = "sinks"
          /\ pc' = [pc EXCEPT ![t] = "make"] \/ pc' = [pc EXCEPT ![t] = then[t]]
        BY <2>3 DEF Sinks, Goto
    <3>2. \A u \in Threads : pc[u] # "assign_ptr"
        BY <1>a, <3>1
    <3> QED BY <1>0, <1>c, <3>1, <3>2 DEF CountInv
  <2>4. CASE Make(t)
    <3>1. made <= inits \/ made = 0
        BY <1>c, <2>4 DEF Make, CountInv
    <3>2. made' = made + 1 /\ made \in Nat /\ made <= MaxInits /\ made + 1 <= inits + 1
        BY <1>0, <1>c, <2>4, <3>1 DEF Make, CountInv
    <3>3. refs' \in [Loggers -> Nat]
        BY <1>c, <2>4 DEF Make, CountInv
    <3>4. mine' \in [Threads -> 0 .. made'] /\ old' \in [Threads -> 0 .. made']
          /\ using' \in [Threads -> 0 .. made']
        BY <1>c, <2>4, <3>2 DEF Make, CountInv
    <3>5. \A u \in Threads : pc'[u] \notin {"sinks", "make"} /\ pc'[t] = "assign_ptr"
        BY <1>0, <1>a, <2>4 DEF Make, Goto
    <3> QED BY <1>c, <2>4, <3>2, <3>3, <3>4, <3>5 DEF Make, CountInv
  <2>5. CASE AssignPtr(t)
    <3>1. mine[t] # 0
        BY <2>5 DEF AssignPtr, LoggerInv, SharesInv, Assigning
    <3> QED BY <1>0, <1>c, <2>5, <3>1 DEF AssignPtr, Goto, CountInv
  <2>6. CASE ReadOwner(t)
    <3>1. old' \in [Threads -> 0 .. made]
        BY <1>c, <2>6 DEF ReadOwner, CountInv
    <3> QED BY <1>c, <2>1, <2>6, <3>1 DEF ReadOwner, Goto, CountInv
  <2>7. CASE WriteOwner(t)
      BY <1>0, <1>c, <2>7 DEF WriteOwner, Goto, CountInv
  <2>8. CASE Release(t)
    <3>1. old' \in [Threads -> 0 .. made]
        BY <1>c, <2>8 DEF Release, CountInv
    <3>2. refs' \in [Loggers -> Nat]
        BY <1>c, <2>8 DEF Release, Released, CountInv, LoggerInv, SharesInv, Owned
    <3> QED BY <1>c, <2>1, <2>8, <3>1, <3>2 DEF Release, Goto, CountInv
  <2>9. CASE Deref(t)
    <3>1. using' \in [Threads -> 0 .. made]
        BY <1>c, <2>9 DEF Deref, CountInv
    <3> QED BY <1>c, <2>1, <2>9, <3>1 DEF Deref, Goto, CountInv
  <2>10. CASE NullDereference(t)
    <3>1. \A u \in Threads : pc[u] # "assign_ptr"
        BY <1>a, <2>10 DEF NullDereference
    <3> QED BY <1>c, <2>10, <3>1 DEF NullDereference, CountInv
  <2>11. CASE CallReturns(t)
    <3>1. using' \in [Threads -> 0 .. made]
        BY <1>c, <2>11 DEF CallReturns, CountInv
    <3> QED BY <1>c, <2>1, <2>11, <3>1 DEF CallReturns, Goto, CountInv
  <2>12. CASE Register(t)
    <3>1. refs' \in [Loggers -> Nat]
        BY <1>c, <2>12 DEF Register, CountInv
    <3> QED BY <1>0, <1>c, <2>12, <3>1 DEF Register, Goto, CountInv
  <2> QED BY <1>5, <2>2, <2>3, <2>4, <2>5, <2>6, <2>7, <2>8, <2>9, <2>10, <2>11, <2>12
          DEF LoggerStep
<1> QED BY <1>1, <1>2, <1>3, <1>4, <1>5 DEF LoggerMove

\* The assignment of logger_instance_ keeps the new logger owned and gives up
\* the old one last; nobody else looks meanwhile.
LEMMA SharesStep == LoggerInv /\ [LoggerMove]_loggerVars => SharesInv'
<1> SUFFICES ASSUME LoggerInv, [LoggerMove]_loggerVars
             PROVE  SharesInv'
    OBVIOUS
<1>0. /\ pc \in [Threads -> Places] /\ then \in [Threads -> {"idle", "use"}]
      /\ mine \in [Threads -> 0 .. made] /\ old \in [Threads -> 0 .. made]
      /\ using \in [Threads -> 0 .. made] /\ refs \in [Loggers -> Nat]
      /\ made \in Nat /\ ptr \in 0 .. made /\ owner \in 0 .. made
    BY DEF LoggerInv, AloneInv, CountInv
<1>a. ASSUME NEW t \in Threads, NEW u \in Threads, pc[t] \in InitPlaces,
             pc[u] \notin {"idle", "dead"}
      PROVE  t = u
    BY <1>a DEF LoggerInv, AloneInv
<1>s. SharesInv
    BY DEF LoggerInv
<1>u. /\ DOMAIN Following = {"set_pattern", "set_level", "flush_on", "use"}
      /\ \A t \in Threads : pc[t] \notin DOMAIN Following => using[t] = 0
    BY <1>s DEF SharesInv, Following
<1> USE DEF words, locals, control, Places, InitPlaces
<1>1. CASE UNCHANGED loggerVars
    BY <1>1, <1>s DEF loggerVars, SharesInv, Owned
<1>2. CASE StartThreads
    BY <1>2, <1>s DEF StartThreads, SharesInv, Owned
<1>3. ASSUME NEW t \in Threads, NEW label \in Places \ Assigning,
             pc' = [pc EXCEPT ![t] = label], pc[t] \notin Assigning,
             UNCHANGED <<ptr, owner, mine, old>>,
             \A l \in Loggers : refs[l] > 0 => refs'[l] > 0,
             label \in {"set_pattern", "set_level", "flush_on", "register"} => ptr # 0,
             using'[t] # 0 => using'[t] = ptr /\ label \in DOMAIN Following,
             \A u \in Threads \ {t} : using'[u] = using[u]
      PROVE  SharesInv'
    BY <1>0, <1>3, <1>s DEF SharesInv, Assigning, Owned
<1>4. ASSUME NEW t \in Threads, Log(t) \/ Flush(t) \/ InitCall(t)
      PROVE  SharesInv'
    BY <1>0, <1>3, <1>4, <1>u DEF Log, Flush, InitCall, Enter, Goto, Assigning
<1>5. ASSUME NEW t \in Threads, LoggerStep(t)
      PROVE  SharesInv'
  <2>1. CASE Test(t) \/ Sinks(t)
      BY <1>0, <1>3, <1>u, <2>1 DEF Test, Sinks, Goto, Assigning
  <2>2. CASE Make(t)
    <3>1. \A u \in Threads \ {t} : pc[u] \in {"idle", "dead"} /\ pc'[u] = pc[u]
        BY <1>0, <1>a, <2>2 DEF Make, Goto
    <3>2. ptr = owner /\ (ptr # 0 => Owned(ptr))
        BY <1>s, <2>2, <3>1 DEF Make, SharesInv, Assigning
    <3>3. made + 1 \in Loggers
        BY <2>2, LoggersSuffice, LoggerAssumption DEF Make, LoggerInv, CountInv
    <3>4. refs'[made + 1] = 1 /\ \A l \in Loggers : l # made + 1 => refs'[l] = refs[l]
        BY <1>0, <2>2, <3>3 DEF Make
    <3>5. pc'[t] = "assign_ptr" /\ mine'[t] = made + 1 /\ ptr' = ptr /\ owner' = owner
        BY <1>0, <2>2 DEF Make, Goto
    <3>6. \A u \in Threads : using'[u] = 0
        BY <1>u, <2>2, <3>1 DEF Make
    <3> QED BY <1>0, <3>1, <3>2, <3>3, <3>4, <3>5, <3>6 DEF SharesInv, Owned, Assigning
  <2>3. CASE AssignPtr(t) \/ ReadOwner(t) \/ WriteOwner(t)
    <3>1. \A u \in Threads \ {t} : pc[u] \in {"idle", "dead"} /\ pc'[u] = pc[u]
        BY <1>0, <1>a, <2>3 DEF AssignPtr, ReadOwner, WriteOwner, Goto
    <3>2. \A u \in Threads : using'[u] = 0
        BY <1>u, <2>3, <3>1 DEF AssignPtr, ReadOwner, WriteOwner
    <3> QED BY <1>0, <1>s, <2>3, <3>1, <3>2
            DEF AssignPtr, ReadOwner, WriteOwner, Goto, SharesInv, Owned, Assigning
  <2>4. CASE Release(t)
    <3>1. \A u \in Threads \ {t} : pc[u] \in {"idle", "dead"} /\ pc'[u] = pc[u]
        BY <1>0, <1>a, <2>4 DEF Release, Goto
    <3>2. /\ ptr = mine[t] /\ owner = mine[t] /\ old[t] # mine[t] /\ mine[t] # 0
          /\ Owned(mine[t])
        BY <1>s, <2>4 DEF Release, SharesInv, Assigning
    <3>3. Owned(mine[t])'
        BY <1>0, <2>4, <3>2 DEF Release, Released, Owned
    <3>4. pc'[t] = "set_pattern" /\ ptr' = ptr /\ owner' = owner /\ mine' = mine
        BY <1>0, <2>4 DEF Release, Goto
    <3>5. \A u \in Threads : using'[u] = 0
        BY <1>u, <2>4, <3>1 DEF Release
    <3> QED BY <3>1, <3>2, <3>3, <3>4, <3>5 DEF SharesInv, Assigning
  <2>5. CASE Deref(t)
    <3>1. using'[t] = ptr /\ ptr # 0 /\ \A u \in Threads \ {t} : using'[u] = using[u]
        BY <1>0, <2>5 DEF Deref
    <3>2. pc' = [pc EXCEPT ![t] = pc[t]]
        BY <1>0, <2>5 DEF Deref
    <3>3. pc[t] \in {"set_pattern", "set_level", "flush_on"} => ptr # 0
        BY <1>s DEF SharesInv
    <3> QED BY <1>0, <1>3, <1>u, <2>5, <3>1, <3>2, <3>3 DEF Deref, Assigning
  <2>6. CASE NullDereference(t)
    <3>1. \A u \in Threads : pc[u] \notin Assigning
        BY <1>a, <2>6 DEF NullDereference, Assigning
    <3>2. \A u \in Threads : using[u] = 0
        BY <1>s, <2>6 DEF NullDereference, SharesInv
    <3> QED BY <1>s, <2>6, <3>1, <3>2 DEF NullDereference, SharesInv, Owned, Assigning
  <2>7. CASE CallReturns(t)
    <3>1. \A u \in Threads \ {t} : using'[u] = using[u]
        BY <1>0, <2>7 DEF CallReturns
    <3>2. ptr # 0
        BY <1>s, <2>7 DEF CallReturns, SharesInv
    <3>3. Following[pc[t]] \in {"set_level", "flush_on", "register", "idle"} /\ using'[t] = 0
        BY <1>0, <2>7 DEF CallReturns, Following
    <3> QED BY <1>0, <1>3, <1>u, <2>7, <3>1, <3>2, <3>3 DEF CallReturns, Goto, Assigning
  <2>8. CASE Register(t)
    <3>1. \A l \in Loggers : refs[l] > 0 => refs'[l] > 0
        BY <1>0, <2>8 DEF Register
    <3> QED BY <1>0, <1>3, <1>u, <2>8, <3>1 DEF Register, Goto, Assigning
  <2> QED BY <1>5, <2>1, <2>2, <2>3, <2>4, <2>5, <2>6, <2>7, <2>8 DEF LoggerStep
<1> QED BY <1>1, <1>2, <1>4, <1>5 DEF LoggerMove

\* The invariant holds when only the starter runs, and nobody leaves it.
LEMMA LoggerInvariant ==
    ASSUME StarterAlone
    PROVE  Services => []LoggerInv
<1>1. ServicesInit => LoggerInv
  <2> SUFFICES ASSUME ServicesInit PROVE LoggerInv
      OBVIOUS
  <2>1. AloneInv
      BY LoggerAssumption DEF ServicesInit, LoggerInit, AloneInv, Places, InitPlaces, StarterAlone
  <2>2. CountInv
      BY LoggerAssumption DEF ServicesInit, LoggerInit, CountInv
  <2>3. SharesInv
      BY DEF ServicesInit, LoggerInit, SharesInv, Assigning
  <2> QED BY <2>1, <2>2, <2>3 DEF LoggerInv
<1>2. LoggerInv /\ [ServicesNext]_allVars => LoggerInv'
    BY ServicesMove, AloneStep, CountStep, SharesStep DEF LoggerInv
<1> QED BY <1>1, <1>2, PTL DEF Services

\* A thread that has logged before it starts the others keeps every logger
\* alive that a call runs on, although get_logger() takes no lock and no share.
THEOREM LoggersOutliveCalls ==
    ASSUME StarterAlone
    PROVE  Services => []NoDestroyedLogger
<1>1. LoggerInv => NoDestroyedLogger
  <2> SUFFICES ASSUME LoggerInv, NEW t \in Threads,
                      using[t] # 0 \/ pc[t] = "register"
               PROVE  /\ using[t] # 0 => refs[using[t]] > 0
                      /\ pc[t] = "register" => refs[owner] > 0
      BY DEF NoDestroyedLogger
  <2>1. \A u \in Threads : pc[u] \notin Assigning
      BY DEF LoggerInv, AloneInv, SharesInv, Assigning, InitPlaces, Following
  <2>2. ptr = owner /\ ptr # 0 /\ Owned(ptr)
      BY <2>1 DEF LoggerInv, SharesInv
  <2> QED BY <2>2 DEF LoggerInv, SharesInv, Owned
<1> QED BY <1>1, LoggerInvariant, PTL

\* The variables of the two services keep their types under the same
\* condition: no logger is released by more owners than it has.
THEOREM ServicesTypeCorrect ==
    ASSUME StarterAlone
    PROVE  Services => []ServicesTypeOK
<1>1. ServicesInit => ConfigInv
    BY ConfigAssumption DEF ServicesInit, ConfigInv, LoadInv, CurrentInv, AnswersFromLastLoad
<1>2. LoggerInv => LoggerTypeOK
    BY DEF LoggerInv, AloneInv, CountInv, LoggerTypeOK, Places, InitPlaces, Following
<1>3. LoggerInv /\ ConfigInv => ServicesTypeOK
    BY <1>2 DEF ConfigInv, LoadInv, CurrentInv, ServicesTypeOK
<1> QED BY <1>1, <1>3, ConfigStep, LoggerInvariant, PTL DEF Services
=============================================================================
