--------------------------- MODULE ConfigManager ---------------------------
(***************************************************************************)
(* utils::ConfigManager, the process-wide configuration: one mutex over a  *)
(* YAML tree and a flag.  load_file logs its outcome while it holds the    *)
(* mutex, by the steps of module Logger, so that the two singletons meet.  *)
(* A document is a function from its paths (sequences of keys, with the    *)
(* root <<>>) to nodes; get walks such a path and converts what it finds.  *)
(* is_loaded() reads the flag under the mutex and is left out.             *)
(***************************************************************************)
EXTENDS Logger, Sequences, TLC

CONSTANTS NoThread,     \* mutex_ is free
          Documents,    \* what a configuration file may hold
          NoDocument,   \* no such file, or not YAML
          Paths, Types  \* the arguments of get

ASSUME ConfigAssumption == NoThread \notin Threads /\ NoDocument \notin Documents

Prefix(path, n) == SubSeq(path, 1, n)

\* What the YAML parser builds is a tree: a node hangs under maps only.
ASSUME DocumentsAssumption ==
    \A document \in Documents : \A path \in DOMAIN document : \A n \in 0 .. Len(path) - 1 :
        Prefix(path, n) \in DOMAIN document /\ document[Prefix(path, n)].kind = "map"

VARIABLES mutex_, root_node_, is_loaded_,
          cfgPc,      \* per thread: where it is in load_file or get
          lastLoad,   \* history: what the last load_file read
          answer      \* history: the last get and the load it came after

configVars == <<mutex_, root_node_, is_loaded_, cfgPc, lastLoad, answer>>
allVars == <<loggerVars, configVars>>

\* A default YAML::Node is null.
Empty == <<>> :> [kind |-> "null"]

ServicesInit == /\ LoggerInit
                /\ mutex_ = NoThread
                /\ root_node_ = Empty
                /\ is_loaded_ = FALSE
                /\ cfgPc = [t \in Threads |-> "out"]
                /\ lastLoad = NoDocument
                /\ answer = <<>>

\* Thread t enters load_file or get.
Enters(t, label) == /\ pc[t] = "idle" /\ t \in running
                    /\ cfgPc[t] = "out"
                    /\ cfgPc' = [cfgPc EXCEPT ![t] = label]
                    /\ UNCHANGED <<loggerVars, mutex_, root_node_, is_loaded_, lastLoad, answer>>

LoadCall(t) == Enters(t, "load_lock")
GetCall(t) == Enters(t, "get_lock")
-----------------------------------------------------------------------------
(* load_file *)

\* The lock, the file, the tree if it could be read, and the call of LOG_.
LoadBody(t, document) ==
    /\ cfgPc[t] = "load_lock" /\ mutex_ = NoThread
    /\ mutex_' = t
    /\ IF document = NoDocument
       THEN UNCHANGED <<root_node_, is_loaded_>>
       ELSE root_node_' = document /\ is_loaded_' = TRUE
    /\ cfgPc' = [cfgPc EXCEPT ![t] = IF document = NoDocument THEN "failed" ELSE "loaded"]
    /\ lastLoad' = document
    /\ Log(t)
    /\ UNCHANGED answer

\* Mutant: mutex_ stays locked when the load failed.
LoadEndLocked(t) ==
    /\ cfgPc[t] \in {"loaded", "failed"} /\ pc[t] = "idle"
    /\ is_loaded_' = (cfgPc[t] = "loaded")
    /\ mutex_' = IF cfgPc[t] = "loaded" THEN NoThread ELSE t
    /\ cfgPc' = [cfgPc EXCEPT ![t] = "out"]
    /\ UNCHANGED <<loggerVars, root_node_, lastLoad, answer>>

\* Mutant: a failed load leaves the flag set.
LoadEndKeepsFlag(t) ==
    /\ cfgPc[t] \in {"loaded", "failed"} /\ pc[t] = "idle"
    /\ mutex_' = NoThread
    /\ cfgPc' = [cfgPc EXCEPT ![t] = "out"]
    /\ UNCHANGED <<loggerVars, is_loaded_, root_node_, lastLoad, answer>>

\* LOG_ has returned; a failure clears the flag and keeps the old tree.
LoadEnd(t) ==
    /\ cfgPc[t] \in {"loaded", "failed"} /\ pc[t] = "idle"
    /\ is_loaded_' = (cfgPc[t] = "loaded")
    /\ mutex_' = NoThread
    /\ cfgPc' = [cfgPc EXCEPT ![t] = "out"]
    /\ UNCHANGED <<loggerVars, root_node_, lastLoad, answer>>
-----------------------------------------------------------------------------
(* get *)

\* A null node when some key is looked up in what is not a map, an undefined
\* one when the last key is missing.
navigate_path(root, path) ==
    IF \E n \in 0 .. Len(path) - 1 :
          \/ Prefix(path, n) \notin DOMAIN root
          \/ root[Prefix(path, n)].kind # "map"
    THEN [kind |-> "null"]
    ELSE IF path \in DOMAIN root THEN root[path] ELSE [kind |-> "undefined"]

\* node.as<T>() of a scalar that reads as a T; everything else throws.
Converted(node, type) ==
    IF node.kind = "scalar" /\ type \in node.types THEN node.value ELSE "default"

Answer(path, type) == [load |-> lastLoad, path |-> path, type |-> type,
                       value |-> IF is_loaded_
                                 THEN Converted(navigate_path(root_node_, path), type)
                                 ELSE "default"]

\* Mutant: the path is walked in root_node_ and not in a clone of it; assigning
\* a YAML::Node rebinds what the assigned one refers to.
GetBodyUncloned(t, path, type) ==
    /\ cfgPc[t] = "get_lock" /\ pc[t] = "idle" /\ mutex_ = NoThread
    /\ answer' = Answer(path, type)
    /\ root_node_' = IF is_loaded_ /\ path \in DOMAIN root_node_
                     THEN <<>> :> root_node_[path] ELSE root_node_
    /\ cfgPc' = [cfgPc EXCEPT ![t] = "out"]
    /\ UNCHANGED <<loggerVars, mutex_, is_loaded_, lastLoad>>

GetBody(t, path, type) ==
    /\ cfgPc[t] = "get_lock" /\ pc[t] = "idle" /\ mutex_ = NoThread
    /\ answer' = Answer(path, type)
    /\ cfgPc' = [cfgPc EXCEPT ![t] = "out"]
    /\ UNCHANGED <<loggerVars, mutex_, root_node_, is_loaded_, lastLoad>>
-----------------------------------------------------------------------------
\* What a thread outside the manager does with the logger.
LoggerCalls(t) == /\ cfgPc[t] = "out"
                  /\ Log(t) \/ Flush(t) \/ InitCall(t)
                  /\ UNCHANGED configVars

Locking(t) == \/ \E document \in Documents \cup {NoDocument} : LoadBody(t, document)
              \/ \E path \in Paths, type \in Types : GetBody(t, path, type)

Running(t) == (LoggerStep(t) /\ UNCHANGED configVars) \/ LoadEnd(t)

ServicesNext == \/ \E t \in Threads : \/ LoggerCalls(t) \/ LoadCall(t) \/ GetCall(t)
                                      \/ Locking(t) \/ Running(t)
                \/ StartThreads /\ UNCHANGED configVars

\* A thread inside a call runs and gets mutex_ in the end; nobody has to call.
Services == /\ ServicesInit
            /\ [][ServicesNext]_allVars
            /\ \A t \in Threads : /\ WF_allVars(Running(t))
                                  /\ SF_allVars(Locking(t))
-----------------------------------------------------------------------------
(* Properties *)

\* The manager's variables and the logger's keep their types.
ServicesTypeOK == /\ LoggerTypeOK
                  /\ mutex_ \in Threads \cup {NoThread}
                  /\ is_loaded_ \in BOOLEAN
                  /\ root_node_ \in Documents \cup {Empty}
                  /\ cfgPc \in [Threads -> {"out", "load_lock", "get_lock", "loaded", "failed"}]

\* What get answered is what the last load_file found at the path, if that is a
\* scalar of the asked type, and the default otherwise: no reader sees a tree
\* that a later load replaced or failed to replace, and no reading disturbs it.
AnswersFromLastLoad ==
    answer # <<>> =>
        LET found == answer.load # NoDocument /\ answer.path \in DOMAIN answer.load
                     /\ answer.load[answer.path].kind = "scalar"
                     /\ answer.type \in answer.load[answer.path].types
        IN answer.value = IF found THEN answer.load[answer.path].value ELSE "default"

\* A call of load_file or get returns, the logging under mutex_ included,
\* unless the process dies of a logger that could not be made.
ConfigCallsReturn == \A t \in Threads : cfgPc[t] # "out" ~> cfgPc[t] = "out" \/ pc[t] = "dead"
=============================================================================
