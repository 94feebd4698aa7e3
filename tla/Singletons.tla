----------------------------- MODULE Singletons -----------------------------
(***************************************************************************)
(* Objects made on first use (turbo/memory): Singleton with each of its    *)
(* traits, LazyInstance, leaky or not, and get_leaky_singleton, which is   *)
(* built on std::call_once.  What is to be destroyed is registered with    *)
(* the AtExitManager (turbo/base/at_exit.cc), whose callbacks run when no  *)
(* thread is using the object.  Which kind it is is chosen initially.      *)
(***************************************************************************)
EXTENDS Naturals, FiniteSets

CONSTANTS
  Threads,
  Kinds,          \* of object, a subset of AllKinds
  WeakMayFail,    \* compare_exchange_weak fails at times for no reason (LL/SC machines)
  MaxGets,        \* bound: calls of get() by a thread
  MaxExits        \* bound: calls of ProcessCallbacksNow

AllKinds ==
  {"Singleton", "LeakySingleton", "StaticMemory", "LazyInstance", "LeakyLazyInstance",
   "get_leaky_singleton"}

\* kRegisterAtExit, kRegisterOnExit
Registered == {"Singleton", "StaticMemory", "LazyInstance"}
Lazy == {"LazyInstance", "LeakyLazyInstance"}

null == 0
Creating == 1           \* kBeingCreatedMarker, kLazyInstanceStateCreating
Objects == Nat \ {null, Creating}

VARIABLES
  kind,
  instance,       \* instance_, private_instance_, g_leaky_singleton_untyped
  flag,           \* the std::once_flag: "new", "running" or "done"
  dead,           \* StaticMemorySingletonTraits::dead_
  stack,          \* callbacks the AtExitManager holds
  alive,          \* objects constructed and not destroyed
  made,           \* objects ever constructed
  pc, mine, gets, \* per thread: place in get(), the object it made, calls
  got,            \* per thread: what its last get() returned since the last exit
  exits,
  spurious        \* history: whether an exchange has failed for no reason

vars == <<kind, instance, flag, dead, stack, alive, made, pc, mine, gets, got, exits, spurious>>

Init ==
  /\ kind \in Kinds
  /\ instance = null /\ flag = "new" /\ dead = FALSE
  /\ stack = 0 /\ alive = {} /\ made = 0 /\ exits = 0 /\ spurious = FALSE
  /\ pc = [t \in Threads |-> "idle"] /\ mine = [t \in Threads |-> null]
  /\ gets = [t \in Threads |-> 0] /\ got = [t \in Threads |-> {}]

object == <<kind, dead, stack, alive, made, exits>>
others == <<object, spurious>>

Goto(t, where) == pc' = [pc EXCEPT ![t] = where]
Return(t, value) == got' = [got EXCEPT ![t] = {value}] /\ Goto(t, "idle")

\* get() and Pointer(): the object if it is there.
Load(t) ==
  /\ pc[t] = "idle" /\ gets[t] < MaxGets
  /\ gets' = [gets EXCEPT ![t] = @ + 1]
  /\ IF instance \in {null, Creating} THEN Goto(t, "create") /\ UNCHANGED got
     ELSE Return(t, instance)
  /\ UNCHANGED <<others, instance, flag, mine>>

\* What compare_exchange_weak may do.
CompareExchangeWeak(equal) == IF WeakMayFail THEN {equal, FALSE} ELSE {equal}

\* (wrong) read and written in two steps
MarkCreating(t) ==
  /\ pc[t] = "create" /\ kind # "get_leaky_singleton"
  /\ IF instance = Creating THEN Goto(t, "wait") ELSE Goto(t, "new")
  /\ UNCHANGED <<others, instance, flag, mine, gets, got>>

\* The thread that finds nothing creates the object.  Singleton::get goes by the value it
\* found, NeedsLazyInstance by the success of the exchange.
TryCreate(t) ==
  /\ pc[t] = "create" /\ kind # "get_leaky_singleton"
  /\ \E done \in CompareExchangeWeak(instance = null) :
       /\ instance' = IF done THEN Creating ELSE instance
       /\ IF kind \in Lazy THEN Goto(t, IF done THEN "new" ELSE "wait")
          ELSE Goto(t, IF instance = null THEN "new" ELSE "wait")
       /\ spurious' = (spurious \/ (instance = null /\ ~done))
  /\ UNCHANGED <<object, flag, mine, gets, got>>

\* std::call_once (external): the first caller runs the function, the others block.
CallOnce(t) ==
  /\ pc[t] = "create" /\ kind = "get_leaky_singleton"
  /\ \/ flag = "new" /\ flag' = "running" /\ Goto(t, "new")
     \/ flag = "done" /\ UNCHANGED flag /\ Goto(t, "reload")
  /\ UNCHANGED <<others, instance, mine, gets, got>>

\* WaitForInstance, and the loop of NeedsLazyInstance: until it is not being created.
Wait(t) ==
  /\ pc[t] = "wait" /\ instance # Creating
  /\ IF kind \in Lazy THEN Goto(t, "reload") /\ UNCHANGED got ELSE Return(t, instance)
  /\ UNCHANGED <<others, instance, flag, mine, gets>>

\* Traits::New().  The object in static memory is made at most once.
New(t) ==
  /\ pc[t] = "new"
  /\ Goto(t, "store")
  /\ dead' = (dead \/ kind = "StaticMemory")
  /\ IF kind = "StaticMemory" /\ dead
     THEN mine' = [mine EXCEPT ![t] = null] /\ UNCHANGED <<alive, made>>
     ELSE /\ made' = made + 1
          /\ mine' = [mine EXCEPT ![t] = Creating + made']
          /\ alive' = alive \cup {mine'[t]}
  /\ UNCHANGED <<kind, instance, flag, stack, gets, got, exits, spurious>>

\* The object is published; create_leaky_singleton returns to call_once after this.
Store(t) ==
  /\ pc[t] = "store"
  /\ instance' = mine[t]
  /\ flag' = IF flag = "running" THEN "done" ELSE flag
  /\ Goto(t, "register")
  /\ UNCHANGED <<others, mine, gets, got>>

\* RegisterCallback, for the kinds that are destroyed at exit.
Register(t) ==
  /\ pc[t] = "register"
  /\ stack' = IF kind \in Registered /\ mine[t] # null THEN stack + 1 ELSE stack
  /\ IF kind \in Lazy \cup {"get_leaky_singleton"} THEN Goto(t, "reload") /\ UNCHANGED got
     ELSE Return(t, mine[t])
  /\ UNCHANGED <<kind, dead, alive, made, instance, flag, mine, gets, exits, spurious>>

\* LazyInstance::instance(), and the last load of get_leaky_singleton.
Reload(t) ==
  /\ pc[t] = "reload"
  /\ Return(t, instance)
  /\ UNCHANGED <<others, instance, flag, mine, gets>>

\* ProcessCallbacksNow: each OnExit deletes the object and forgets it.  By then no thread
\* uses it: "Calling OnExit while singleton is in use by other threads is a mistake".
ProcessCallbacksNow ==
  /\ \A t \in Threads : pc[t] = "idle"
  /\ exits < MaxExits /\ exits' = exits + 1
  /\ stack' = 0
  /\ alive' = IF stack > 0 THEN alive \ {instance} ELSE alive
  /\ instance' = IF stack > 0 THEN null ELSE instance
  /\ got' = [t \in Threads |-> {}]
  /\ UNCHANGED <<kind, flag, dead, made, pc, mine, gets, spurious>>

Step(t) ==
  TryCreate(t) \/ CallOnce(t) \/ Wait(t) \/ New(t) \/ Store(t) \/ Register(t) \/ Reload(t)

Next == (\E t \in Threads : Load(t) \/ Step(t)) \/ ProcessCallbacksNow

\* Threads in get() are scheduled and constructors end.
Spec == Init /\ [][Next]_vars /\ \A t \in Threads : WF_vars(Step(t))

-----------------------------------------------------------------------------
\* "Only one thread will ever get here" (singleton.h:248): there is at most one object, every
\* get() returns "the one true instance" (singleton.h:234), constructed and not destroyed,
\* and it is registered once for destruction at exit.  Only an object in static memory that
\* was destroyed is not made again.  Once a compare_exchange_weak has failed for no reason,
\* Singleton::get, which goes by old == 0, may make two objects, though not in static
\* memory; a LazyInstance is still made by one thread, but another may return without it.
\* Nobody ever gets an object that was destroyed.
OneTrueInstance ==
  /\ ~spurious \/ kind \in Lazy \cup {"StaticMemory", "get_leaky_singleton"} =>
       Cardinality(alive) <= 1
  /\ \A t \in Threads :
       got[t] \subseteq alive \cup (IF kind = "StaticMemory" /\ exits > 0 THEN {null} ELSE {})
                              \cup (IF spurious THEN {null, Creating} ELSE {})
  /\ ~spurious /\ (\A t \in Threads : pc[t] = "idle") =>
       stack = IF kind \in Registered THEN Cardinality(alive) ELSE 0

\* Every get() returns: the threads that spin are released by the one that creates.
GetsReturn == \A t \in Threads : pc[t] # "idle" ~> pc[t] = "idle"
=============================================================================
