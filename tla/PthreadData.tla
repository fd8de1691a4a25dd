---------------------------------- MODULE PthreadData ----------------------------------
(* What the pthread library keeps for each thread beside its scheduling: the data under  *)
(* the keys of the program (PthreadTLSManager), the cleanup handlers                     *)
(* (PthreadCleanupManager), the once controls, and the thread that is inside a routine   *)
(* that allocates memory, during which no other one may run (PthreadMalloc).             *)
EXTENDS Naturals, FiniteSets, SequencesExt

CONSTANTS
    PTHREAD_KEYS_MAX,
    Data, NULL,         \* what a thread keeps under a key, NULL before it does
    Handler, Once,
    MaxKeys,            \* bound: keys ever asked for
    MaxHandlers,        \* bound: handlers of one thread
    MaxDepth            \* bound: nested calls, and locks of a mutex its holder takes again

ASSUME PthreadDataAssumption ==
    /\ PTHREAD_KEYS_MAX \in Nat /\ NULL \in Data
    /\ MaxKeys \in Nat /\ MaxHandlers \in Nat /\ MaxDepth \in Nat \ {0}

VARIABLES
    newkey,         \* the next key
    destr,          \* the keys there are
    tls,            \* tls[t][k]: what thread t keeps under key k
    handlers,       \* handlers[t]: its cleanup handlers, the newest last
    done,           \* the once controls whose routine was called
    depth,          \* calls deep inside a routine that allocates (0: switching is enabled)
    allocating      \* the thread that entered it

keys == <<newkey, destr, tls>>
malloc == <<depth, allocating>>
data == <<keys, handlers, done, malloc>>

DataInit(t) ==
    /\ newkey = 1 /\ destr = {} /\ tls = [u \in {t} |-> [k \in {} |-> NULL]]
    /\ handlers = <<>> /\ done = {} /\ depth = 0 /\ allocating = t
-----------------------------------------------------------------------------------------
(* Keys *)

\* AddThread: a new thread has all the keys there are.
NoKey == [k \in {} |-> NULL]                \* mutant of AllKeys: only those created later
AllKeys == [k \in destr |-> NULL]
AddThread(t) == tls' = [u \in DOMAIN tls \cup {t} |-> IF u = t THEN AllKeys ELSE tls[u]]

\* KillThread calls the destructors, which the model leaves out.
KillThread(t) == tls' = Restrict(tls, DOMAIN tls \ {t})

\* A key is refused when there are as many threads as there may be keys.
KeyCreate ==
    /\ newkey < MaxKeys
    /\ newkey' = newkey + 1
    /\ IF Cardinality(DOMAIN tls) >= PTHREAD_KEYS_MAX THEN UNCHANGED <<destr, tls>>
       ELSE /\ destr' = destr \cup {newkey}
            /\ tls' = [u \in DOMAIN tls |->
                  [k \in DOMAIN tls[u] \cup {newkey} |-> IF k = newkey THEN NULL ELSE tls[u][k]]]
    /\ UNCHANGED <<handlers, done, malloc>>

\* Every thread loses what it kept under the key, one the program may have made up.
KeyDelete(k) ==
    /\ destr' = destr \ {k}
    /\ tls' = [u \in DOMAIN tls |-> Restrict(tls[u], DOMAIN tls[u] \ {k})]
    /\ UNCHANGED <<newkey, handlers, done, malloc>>

\* Key 0 is always accepted, and any other one that the thread has.
SetSpecific(t, k, d) ==
    /\ k \in DOMAIN tls[t] \cup {0}
    /\ tls' = [tls EXCEPT ![t] = [j \in DOMAIN @ \cup {k} |-> IF j = k THEN d ELSE @[j]]]
    /\ UNCHANGED <<newkey, destr, handlers, done, malloc>>
-----------------------------------------------------------------------------------------
(* Cleanup handlers and once controls *)

HandlersOf(t) == IF t \in DOMAIN handlers THEN handlers[t] ELSE <<>>
Handlers(t, s) ==
    handlers' = [u \in DOMAIN handlers \cup {t} |-> IF u = t THEN s ELSE handlers[u]]

CleanupPush(t, h) ==
    /\ Len(HandlersOf(t)) < MaxHandlers
    /\ Handlers(t, Append(HandlersOf(t), h))
    /\ UNCHANGED <<keys, done, malloc>>

\* pthread_cleanup_pop(0).
CleanupPop(t) ==
    /\ HandlersOf(t) # <<>>
    /\ Handlers(t, Front(HandlersOf(t)))
    /\ UNCHANGED <<keys, done, malloc>>

\* A handler is run by jumping to StartThreadFunc, which does not call what it is given
\* but pthread_exit, which pops the next one: none runs, and the thread ends.
Drained(t) == IF HandlersOf(t) = <<>> THEN UNCHANGED handlers ELSE Handlers(t, <<>>)

PthreadOnce(o) ==
    /\ o \notin done
    /\ done' = done \cup {o}
    /\ UNCHANGED <<keys, handlers, malloc>>
-----------------------------------------------------------------------------------------
(* Memory allocation *)

Always == TRUE                              \* mutant of CanSwitchThreads
CanSwitchThreads == depth = 0

\* Analyze: the call of such a routine, or any call made inside one.
AnalyzeCall(t) ==
    /\ depth < MaxDepth
    /\ depth' = depth + 1
    /\ allocating' = IF depth = 0 THEN t ELSE allocating
    /\ UNCHANGED <<keys, handlers, done>>

\* A return inside one, or the tail call that leaves it.
AnalyzeReturn ==
    /\ depth > 0
    /\ depth' = depth - 1
    /\ UNCHANGED <<keys, handlers, done, allocating>>
=========================================================================================
