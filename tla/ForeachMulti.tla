---------------------------- MODULE ForeachMulti ----------------------------
(***************************************************************************)
(* flappy_array_foreach_cb_multi (lib/plist.c): threads call a function    *)
(* for the objects of an array.  Thread t starts with the slice that       *)
(* begins at t * SliceCount; a thread that is through with its slice       *)
(* reserves the next one from a counter under a mutex.  The caller creates *)
(* the threads, joins those it could create and returns the first error.   *)
(* (With one core or fewer than two objects there are no threads at all.)  *)
(***************************************************************************)
EXTENDS Integers

CONSTANTS
  ArrayCount,   \* objects in the array
  Cores,        \* sysconf(_SC_NPROCESSORS_ONLN)
  SliceLimit,   \* the longest slice (32)
  Internal      \* the objects whose key marks them as internal to flappy

ASSUME CountAssumption == ArrayCount \in Nat \ {0, 1}
ASSUME CoresAssumption == Cores \in Nat \ {0, 1}
ASSUME SliceLimitAssumption == SliceLimit \in Nat \ {0}

MaxThreads == IF Cores >= ArrayCount THEN ArrayCount ELSE Cores

SliceCount ==
  IF Cores >= ArrayCount THEN 1
  ELSE IF ArrayCount \div Cores > SliceLimit THEN SliceLimit
  ELSE ArrayCount \div Cores

Object == 0..(ArrayCount - 1)

ASSUME InternalAssumption == Internal \subseteq Object

Thread == 0..(MaxThreads - 1)

VARIABLES
  created,    \* the number of threads created
  main,       \* "create", "join", "single" or "return"
  joined,     \* the number of threads joined
  ret,        \* the value returned: 0, or 1 for any error
  state,      \* per thread: "none", "run" or "ended"
  i, end,     \* per thread: next object, end of the slice
  r,          \* per thread: thd->r
  reserved,   \* the first object not reserved by a thread
  calls,      \* per object: how often the function was called for it
  done        \* a call asked for the end of the loop, or failed

threadVars == <<state, i, end, r, reserved, calls, done>>
vars == <<created, main, joined, ret, state, i, end, r, reserved, calls, done>>

Init ==
  /\ created = 0 /\ main = "create" /\ joined = 0 /\ ret = 0
  /\ state = [t \in Thread |-> "none"]
  /\ i = [t \in Thread |-> t * SliceCount]
  /\ end = [t \in Thread |-> (t + 1) * SliceCount]
  /\ r = [t \in Thread |-> 0]
  /\ reserved = SliceCount * MaxThreads
  /\ calls = [o \in Object |-> 0]
  /\ done = FALSE

-----------------------------------------------------------------------------
Create ==
  /\ main = "create" /\ created < MaxThreads
  /\ created' = created + 1
  /\ state' = [state EXCEPT ![created] = "run"]
  /\ UNCHANGED <<main, joined, ret, i, end, r, reserved, calls, done>>

(* pthread_create fails: no more threads, or none at all. *)
CreateFails ==
  /\ main = "create" /\ created < MaxThreads
  /\ main' = IF created = 0 THEN "single" ELSE "join"
  /\ UNCHANGED <<created, joined, ret, threadVars>>

CreateEnd ==
  /\ main = "create" /\ created = MaxThreads
  /\ main' = "join"
  /\ UNCHANGED <<created, joined, ret, threadVars>>

Join ==
  /\ main = "join" /\ joined < created /\ state[joined] = "ended"
  /\ joined' = joined + 1
  /\ UNCHANGED <<created, main, ret, threadVars>>

(* Bug: the first thread's result stands for all. *)
ReturnFirst ==
  /\ main = "join" /\ joined = created
  /\ ret' = r[0]
  /\ main' = "return"
  /\ UNCHANGED <<created, joined, threadVars>>

Return ==
  /\ main = "join" /\ joined = created
  /\ ret' = IF \E t \in 0..(created - 1) : r[t] # 0 THEN 1 ELSE 0
  /\ main' = "return"
  /\ UNCHANGED <<created, joined, threadVars>>

(* flappy_array_foreach_cb, when there is no thread: one call after the    *)
(* other, in the caller (i[0] is its index).                               *)
Single ==
  /\ main = "single"
  /\ \/ /\ i[0] \in Internal
        /\ i' = [i EXCEPT ![0] = @ + 1] /\ UNCHANGED <<main, ret, calls, done>>
     \/ /\ i[0] \in Object \ Internal
        /\ calls' = [calls EXCEPT ![i[0]] = @ + 1]
        /\ \/ i' = [i EXCEPT ![0] = @ + 1] /\ UNCHANGED <<main, ret, done>>
           \/ main' = "return" /\ ret' \in {0, 1} /\ done' = TRUE /\ UNCHANGED i
     \/ /\ i[0] = ArrayCount
        /\ main' = "return" /\ UNCHANGED <<ret, i, calls, done>>
  /\ UNCHANGED <<created, joined, state, end, r, reserved>>

-----------------------------------------------------------------------------
(* array_foreach_thread *)

InSlice(t) == state[t] = "run" /\ i[t] < end[t] /\ i[t] < ArrayCount

(* Bug: the loop goes on to the same internal object for ever. *)
SkipStuck(t) ==
  /\ InSlice(t) /\ i[t] \in Internal
  /\ UNCHANGED vars

(* An internal object is passed over. *)
Skip(t) ==
  /\ InSlice(t) /\ i[t] \in Internal
  /\ i' = [i EXCEPT ![t] = @ + 1]
  /\ UNCHANGED <<created, main, joined, ret, state, end, r, reserved, calls, done>>

(* The function is called for the next object; it may fail or ask for the  *)
(* end of the loop, which ends this thread only.                           *)
Visit(t) ==
  /\ InSlice(t) /\ i[t] \notin Internal
  /\ calls' = [calls EXCEPT ![i[t]] = @ + 1]
  /\ \/ i' = [i EXCEPT ![t] = @ + 1] /\ UNCHANGED <<state, r, done>>
     \/ /\ state' = [state EXCEPT ![t] = "ended"]
        /\ \E code \in {0, 1} : r' = [r EXCEPT ![t] = code]
        /\ done' = TRUE
        /\ UNCHANGED i
  /\ UNCHANGED <<created, main, joined, ret, end, reserved>>

(* Bug: the slice is not reserved, two threads may take the same one. *)
ReserveUnlocked(t) ==
  /\ state[t] = "run" /\ ~InSlice(t)
  /\ i' = [i EXCEPT ![t] = reserved]
  /\ end' = [end EXCEPT ![t] = reserved + SliceCount]
  /\ reserved' \in {reserved, reserved + SliceCount}
  /\ state' = [state EXCEPT ![t] = IF reserved < ArrayCount THEN "run" ELSE "ended"]
  /\ UNCHANGED <<created, main, joined, ret, r, calls, done>>

(* Bug: a thread ends with its first slice. *)
ReserveNothing(t) ==
  /\ state[t] = "run" /\ ~InSlice(t)
  /\ state' = [state EXCEPT ![t] = "ended"]
  /\ UNCHANGED <<created, main, joined, ret, i, end, r, reserved, calls, done>>

(* Under the mutex; the loop ends when there is nothing left to reserve. *)
Reserve(t) ==
  /\ state[t] = "run" /\ ~InSlice(t)
  /\ i' = [i EXCEPT ![t] = reserved]
  /\ end' = [end EXCEPT ![t] = reserved + SliceCount]
  /\ reserved' = reserved + SliceCount
  /\ state' = [state EXCEPT ![t] = IF reserved < ArrayCount THEN "run" ELSE "ended"]
  /\ UNCHANGED <<created, main, joined, ret, r, calls, done>>

Step(t) == Skip(t) \/ Visit(t) \/ Reserve(t)

Main == Create \/ CreateEnd \/ Join \/ Return \/ Single

Next ==
  \/ Main \/ CreateFails
  \/ \E t \in Thread : Step(t)
  \/ main = "return" /\ UNCHANGED vars

(* The caller and every thread are scheduled, and every call returns. *)
Spec == Init /\ [][Next]_vars /\ WF_vars(Main)
             /\ \A t \in Thread : WF_vars(Step(t))

-----------------------------------------------------------------------------
(* Every variable has its type. *)
TypeOK ==
  /\ created \in 0..MaxThreads /\ joined \in 0..created
  /\ main \in {"create", "join", "single", "return"}
  /\ ret \in {0, 1}
  /\ state \in [Thread -> {"none", "run", "ended"}]
  /\ i \in [Thread -> Nat] /\ end \in [Thread -> Nat]
  /\ r \in [Thread -> {0, 1}]
  /\ reserved \in Nat
  /\ calls \in [Object -> Nat]
  /\ done \in BOOLEAN

(* No object is given to two threads, whichever threads there are. *)
AtMostOnce == \A o \in Object : calls[o] <= 1

(* "0 on success (all objects were processed)": true if every thread could *)
(* be created, or none, and no call ended the loop.                        *)
AllProcessed ==
  main = "return" /\ ~done /\ created \in {0, MaxThreads} =>
    ret = 0 /\ \A o \in Object \ Internal : calls[o] = 1

(* An error that ended a thread is not lost among those that went well.    *)
ErrorReturned ==
  main = "return" /\ (\E t \in Thread : r[t] # 0) => ret # 0

(* The call returns. *)
Returns == <>(main = "return")

=============================================================================
