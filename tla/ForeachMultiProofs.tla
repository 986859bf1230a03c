------------------------- MODULE ForeachMultiProofs -------------------------
(***************************************************************************)
(* Proofs about ForeachMulti: whatever the array, the cores and the length *)
(* of the slices, no object is given to the function twice, and without an *)
(* error or a request to stop none is left out.                            *)
(***************************************************************************)
EXTENDS ForeachMulti, TLAPS

-----------------------------------------------------------------------------
(* The slices of the threads at the start.                                 *)

(* There is a thread, and slices are not empty (lib/plist.c, the division  *)
(* of the array among the cores).                                          *)
LEMMA Parameters ==
  /\ MaxThreads \in Nat \ {0}
  /\ SliceCount \in Nat \ {0}
<1>1. MaxThreads \in Nat \ {0}
  BY CountAssumption, CoresAssumption DEF MaxThreads
<1>2. CASE Cores >= ArrayCount
  BY <1>1, <1>2 DEF SliceCount
<1>3. CASE ~(Cores >= ArrayCount)
  <2> DEFINE q == ArrayCount \div Cores
  <2>1. q \in Nat \ {0}
    BY <1>3, CountAssumption, CoresAssumption
  <2> HIDE DEF q
  <2>2. SliceCount = IF q > SliceLimit THEN SliceLimit ELSE q
    BY <1>3 DEF SliceCount, q
  <2> QED
    BY <1>1, <2>1, <2>2, SliceLimitAssumption
<1> QED
  BY <1>2, <1>3

(* The starts of the slices: slice t ends where slice t + 1 begins.        *)
LEMMA SlicesOrdered ==
  ASSUME NEW s \in Nat, NEW t \in Nat, NEW u \in Nat, t < u
  PROVE  (t + 1) * s <= u * s
<1>1. PICK d \in Nat : u = t + 1 + d
  <2>1. u - (t + 1) \in Nat /\ u = t + 1 + (u - (t + 1))
    OBVIOUS
  <2> QED
    BY <2>1
<1>2. d * s \in Nat /\ (t + 1) * s \in Nat
  OBVIOUS
<1>3. u * s = (t + 1) * s + d * s
  BY <1>1
<1> QED
  BY <1>2, <1>3

(* Every number below n slices is in one of them.                          *)
LEMMA SlicesCover ==
  ASSUME NEW s \in Nat \ {0}, NEW n \in Nat, NEW o \in Nat, o < n * s
  PROVE  \E t \in 0..(n - 1) : t * s <= o /\ o < (t + 1) * s
<1> DEFINE q == o \div s
<1>1. q \in Nat
  <2>1. q \in Int /\ q >= 0
    OBVIOUS
  <2> QED
    BY <2>1
<1>2. q * s <= o /\ o < q * s + s
  <2>1. q * s <= o
    OBVIOUS
  <2>2. o < q * s + s
    OBVIOUS
  <2> QED
    BY <2>1, <2>2
<1> HIDE DEF q
<1>3. q * s + s = (q + 1) * s
  BY <1>1
<1>4. q < n
  <2> SUFFICES ASSUME ~(q < n) PROVE FALSE
    OBVIOUS
  <2>1. n <= q
    BY <1>1
  <2>2. n * s <= q * s
    BY <2>1, <1>1
  <2> QED
    BY <2>2, <1>2, <1>1
<1> QED
  BY <1>1, <1>2, <1>3, <1>4

-----------------------------------------------------------------------------
(* The inductive invariant.                                                *)

(* The threads are used: some could be created, or may still be. *)
Threaded == created > 0 \/ main = "create"

(* The caller and the threads: the ones created run or have ended, the     *)
(* ones joined have ended, and the caller returns after the last of them.  *)
Lifetimes ==
  /\ \A t \in Thread : state[t] = "none" <=> t >= created
  /\ \A t \in Thread : t < joined => state[t] = "ended"
  /\ main = "join" => created > 0
  /\ main = "single" => created = 0
  /\ main = "return" => joined = created
  /\ joined > 0 => main \in {"join", "return"}
  /\ main = "create" /\ created = 0 =>
       i[0] = 0 /\ ~done /\ \A o \in Object : calls[o] = 0

(* Slices end below the counter, and no two of them overlap. *)
Slices ==
  Threaded => /\ \A t \in Thread : i[t] <= end[t] /\ end[t] <= reserved
              /\ \A t, u \in Thread : t # u => end[t] <= i[u] \/ end[u] <= i[t]

(* An object that was visited is in no thread's remaining slice. *)
Visited ==
  \A o \in Object : calls[o] # 0 =>
    /\ calls[o] = 1
    /\ Threaded => o < reserved
    /\ Threaded => \A t \in Thread : state[t] # "ended" => o < i[t] \/ end[t] <= o
    /\ main = "single" => o < i[0]

(* Without an early end, an object that is not an internal one was visited,*)
(* is in the remaining slice of a thread or is not reserved; and a thread  *)
(* only ends when everything is reserved.                                  *)
Covered ==
  ~done =>
    /\ \A t \in Thread : r[t] = 0
    /\ ret = 0
    /\ Threaded => \A t \in Thread : state[t] = "ended" => i[t] >= ArrayCount
    /\ Threaded => \A o \in Object \ Internal :
         \/ calls[o] = 1
         \/ o >= reserved
         \/ \E t \in Thread : i[t] <= o /\ o < end[t]
    /\ ~Threaded => /\ main = "return" => i[0] >= ArrayCount
                    /\ \A o \in Object \ Internal : calls[o] = 1 \/ o >= i[0]

IInv == TypeOK /\ Lifetimes /\ Slices /\ Visited /\ Covered

(* The slices the caller deals out before it creates the first thread. *)
LEMMA InitIInv == Init => IInv
<1> SUFFICES ASSUME Init PROVE IInv
  OBVIOUS
<1> DEFINE S == SliceCount
           M == MaxThreads
<1>0. S \in Nat \ {0} /\ M \in Nat \ {0} /\ Thread = 0..(M - 1) /\ 0 \in Thread
  BY Parameters DEF Thread
<1>1. /\ i = [t \in Thread |-> t * S] /\ end = [t \in Thread |-> (t + 1) * S]
      /\ reserved = S * M
  BY DEF Init
<1> HIDE DEF S, M
<1>2. reserved = M * S /\ reserved \in Nat
  BY <1>0, <1>1
<1>3. \A t \in Thread : /\ i[t] \in Nat /\ end[t] \in Nat
                        /\ i[t] = t * S /\ end[t] = (t + 1) * S /\ i[t] <= end[t]
  <2> SUFFICES ASSUME NEW t \in Thread
               PROVE  t * S \in Nat /\ (t + 1) * S \in Nat /\ t * S <= (t + 1) * S
    BY <1>1
  <2>1. t \in Nat /\ t * S \in Nat /\ (t + 1) * S = t * S + S
    BY <1>0
  <2> QED
    BY <2>1, <1>0
<1>4. TypeOK
  <2>1. 0 \in 0..MaxThreads /\ 0 \in 0..0
    BY Parameters
  <2>2. /\ i \in [Thread -> Nat] /\ end \in [Thread -> Nat] /\ reserved \in Nat
    BY <1>1, <1>2, <1>3
  <2> QED
    BY <2>1, <2>2 DEF Init, TypeOK
<1>5. Lifetimes
  <2>1. \A t \in Thread : t >= 0 /\ ~(t < 0)
    BY <1>0
  <2>2. i[0] = 0
    BY <1>0, <1>3
  <2> QED
    BY <2>1, <2>2, <1>0 DEF Init, Lifetimes
<1>6. Slices
  <2>1. ASSUME NEW t \in Thread PROVE end[t] <= reserved
    <3>1. t \in Nat /\ M \in Nat /\ S \in Nat /\ t < M
      BY <1>0
    <3>2. (t + 1) * S <= M * S
      BY <3>1, SlicesOrdered
    <3> QED
      BY <3>2, <1>2, <1>3
  <2>2. ASSUME NEW t \in Thread, NEW u \in Thread, t < u PROVE end[t] <= i[u]
    <3>1. t \in Nat /\ u \in Nat /\ S \in Nat
      BY <1>0
    <3>2. (t + 1) * S <= u * S
      BY <2>2, <3>1, SlicesOrdered
    <3> QED
      BY <3>2, <1>3
  <2>3. \A t, u \in Thread : t # u => t < u \/ u < t
    BY <1>0
  <2> QED
    BY <1>3, <2>1, <2>2, <2>3 DEF Slices
<1>7. Visited
  BY DEF Init, Visited
<1>8. Covered
  <2>1. ASSUME NEW o \in Object, ~(o >= reserved)
        PROVE  \E t \in Thread : i[t] <= o /\ o < end[t]
    <3>1. o \in Nat /\ o < M * S
      BY <2>1, <1>2, CountAssumption DEF Object
    <3>2. PICK t \in 0..(M - 1) : t * S <= o /\ o < (t + 1) * S
      BY <3>1, <1>0, SlicesCover
    <3> QED
      BY <3>2, <1>0, <1>3
  <2> QED
    BY <2>1 DEF Init, Covered, Threaded
<1> QED
  BY <1>4, <1>5, <1>6, <1>7, <1>8 DEF IInv

(* What the steps below use of the sets of threads and objects. *)
LEMMA Sets ==
  /\ MaxThreads \in Nat /\ Thread = 0..(MaxThreads - 1) /\ 0 \in Thread
  /\ ArrayCount \in Nat /\ Object = 0..(ArrayCount - 1)
  /\ SliceCount \in Nat \ {0} /\ Internal \subseteq Object
BY Parameters, CountAssumption, InternalAssumption DEF Thread, Object

(* A thread that goes on to the next object of its slice only makes the    *)
(* rest of the slice shorter.                                              *)
LEMMA Advance ==
  ASSUME TypeOK, Slices, Threaded, NEW t \in Thread, i[t] < end[t],
         i' = [i EXCEPT ![t] = @ + 1], end' = end, reserved' = reserved
  PROVE  Slices'
<1>1. \A u \in Thread : i[u] \in Nat /\ end[u] \in Nat
  BY DEF TypeOK
<1>2. \A u \in Thread : i'[u] \in Nat /\ i[u] <= i'[u] /\ i'[u] <= end[u]
  <2> TAKE u \in Thread
  <2>1. i'[u] = IF u = t THEN i[u] + 1 ELSE i[u]
    BY DEF TypeOK
  <2>2. i[u] <= end[u]
    BY DEF Slices
  <2> QED
    BY <1>1, <2>1, <2>2
<1>3. \A u, v \in Thread : u # v => end[u] <= i'[v] \/ end[v] <= i'[u]
  <2> SUFFICES ASSUME NEW u \in Thread, NEW v \in Thread, u # v
               PROVE  end[u] <= i'[v] \/ end[v] <= i'[u]
    OBVIOUS
  <2>1. end[u] <= i[v] \/ end[v] <= i[u]
    BY DEF Slices
  <2> QED
    BY <1>1, <1>2, <2>1
<1> QED
  BY <1>2, <1>3 DEF Slices

(* Every step of the caller and of array_foreach_thread keeps it. *)
LEMMA NextIInv == IInv /\ [Next]_vars => IInv'
<1> SUFFICES ASSUME IInv, [Next]_vars PROVE IInv'
  OBVIOUS
<1> USE Sets
<1> USE DEF IInv
<1>1. CASE Create
  <2>1. TypeOK'
    BY <1>1 DEF Create, TypeOK, threadVars
  <2>2. Lifetimes'
    BY <1>1 DEF Create, TypeOK, Lifetimes, threadVars
  <2>3. Slices'
    BY <1>1 DEF Create, TypeOK, Lifetimes, Slices, Threaded, threadVars
  <2>4. Visited'
    BY <1>1 DEF Create, TypeOK, Lifetimes, Visited, Threaded, threadVars
  <2>5. Covered'
    BY <1>1 DEF Create, TypeOK, Lifetimes, Covered, Threaded, threadVars
  <2> QED
    BY <2>1, <2>2, <2>3, <2>4, <2>5
<1>2. CASE CreateFails
  <2>1. TypeOK'
    BY <1>2 DEF CreateFails, TypeOK, threadVars
  <2>2. Lifetimes'
    BY <1>2 DEF CreateFails, TypeOK, Lifetimes, threadVars
  <2>3. Slices'
    BY <1>2 DEF CreateFails, TypeOK, Lifetimes, Slices, Threaded, threadVars
  <2>4. Visited'
    BY <1>2 DEF CreateFails, TypeOK, Lifetimes, Visited, Threaded, threadVars
  <2>5. Covered'
    BY <1>2 DEF CreateFails, TypeOK, Lifetimes, Covered, Threaded, threadVars
  <2> QED
    BY <2>1, <2>2, <2>3, <2>4, <2>5
<1>3. CASE CreateEnd
  <2>1. TypeOK'
    BY <1>3 DEF CreateEnd, TypeOK, threadVars
  <2>2. Lifetimes'
    BY <1>3 DEF CreateEnd, TypeOK, Lifetimes, threadVars
  <2>3. Slices'
    BY <1>3 DEF CreateEnd, TypeOK, Lifetimes, Slices, Threaded, threadVars
  <2>4. Visited'
    BY <1>3 DEF CreateEnd, TypeOK, Lifetimes, Visited, Threaded, threadVars
  <2>5. Covered'
    BY <1>3 DEF CreateEnd, TypeOK, Lifetimes, Covered, Threaded, threadVars
  <2> QED
    BY <2>1, <2>2, <2>3, <2>4, <2>5
<1>4. CASE Join
  <2>1. TypeOK'
    BY <1>4 DEF Join, TypeOK, threadVars
  <2>2. Lifetimes'
    BY <1>4 DEF Join, TypeOK, Lifetimes, threadVars
  <2>3. Slices'
    BY <1>4 DEF Join, TypeOK, Lifetimes, Slices, Threaded, threadVars
  <2>4. Visited'
    BY <1>4 DEF Join, TypeOK, Lifetimes, Visited, Threaded, threadVars
  <2>5. Covered'
    BY <1>4 DEF Join, TypeOK, Lifetimes, Covered, Threaded, threadVars
  <2> QED
    BY <2>1, <2>2, <2>3, <2>4, <2>5
<1>5. CASE Return
  <2>1. TypeOK'
    BY <1>5 DEF Return, TypeOK, threadVars
  <2>2. Lifetimes'
    BY <1>5 DEF Return, TypeOK, Lifetimes, threadVars
  <2>3. Slices'
    BY <1>5 DEF Return, TypeOK, Lifetimes, Slices, Threaded, threadVars
  <2>4. Visited'
    BY <1>5 DEF Return, TypeOK, Lifetimes, Visited, Threaded, threadVars
  <2>5. Covered'
    BY <1>5 DEF Return, TypeOK, Lifetimes, Covered, Threaded, threadVars
  <2> QED
    BY <2>1, <2>2, <2>3, <2>4, <2>5
<1>6. CASE Single
  <2>0. /\ main = "single" /\ created = 0 /\ joined = 0 /\ ~Threaded /\ ~Threaded'
        /\ UNCHANGED <<created, joined, state, end, r, reserved>>
        /\ i[0] \in Nat
    BY <1>6 DEF Single, TypeOK, Lifetimes, Threaded
  <2>1. CASE i[0] \in Internal /\ i' = [i EXCEPT ![0] = @ + 1] /\ UNCHANGED <<main, ret, calls, done>>
    <3>1. TypeOK'
      BY <2>0, <2>1 DEF TypeOK
    <3>2. Lifetimes' /\ Slices'
      BY <2>0, <2>1 DEF Lifetimes, Slices
    <3>3. Visited'
      BY <2>0, <2>1 DEF TypeOK, Visited
    <3>4. Covered'
      BY <2>0, <2>1 DEF TypeOK, Covered
    <3> QED
      BY <3>1, <3>2, <3>3, <3>4
  <2>2. CASE /\ i[0] \in Object \ Internal
             /\ calls' = [calls EXCEPT ![i[0]] = @ + 1]
             /\ i' = [i EXCEPT ![0] = @ + 1] /\ UNCHANGED <<main, ret, done>>
    <3>1. TypeOK'
      BY <2>0, <2>2 DEF TypeOK
    <3>2. Lifetimes' /\ Slices'
      BY <2>0, <2>2 DEF Lifetimes, Slices
    <3>3. calls[i[0]] = 0
      BY <2>0, <2>2 DEF TypeOK, Visited
    <3>4. Visited'
      BY <2>0, <2>2, <3>3 DEF TypeOK, Visited
    <3>5. Covered'
      BY <2>0, <2>2, <3>3 DEF TypeOK, Covered
    <3> QED
      BY <3>1, <3>2, <3>4, <3>5
  <2>3. CASE /\ i[0] \in Object \ Internal
             /\ calls' = [calls EXCEPT ![i[0]] = @ + 1]
             /\ main' = "return" /\ ret' \in {0, 1} /\ done' = TRUE /\ UNCHANGED i
    <3>1. TypeOK'
      BY <2>0, <2>3 DEF TypeOK
    <3>2. Lifetimes' /\ Slices'
      BY <2>0, <2>3 DEF Lifetimes, Slices
    <3>3. calls[i[0]] = 0
      BY <2>0, <2>3 DEF TypeOK, Visited
    <3>4. Visited'
      BY <2>0, <2>3, <3>3 DEF TypeOK, Visited
    <3>5. Covered'
      BY <2>3 DEF Covered
    <3> QED
      BY <3>1, <3>2, <3>4, <3>5
  <2>4. CASE i[0] = ArrayCount /\ main' = "return" /\ UNCHANGED <<ret, i, calls, done>>
    BY <2>0, <2>4 DEF TypeOK, Lifetimes, Slices, Visited, Covered
  <2> QED
    BY <1>6, <2>1, <2>2, <2>3, <2>4 DEF Single
<1>7. ASSUME NEW t \in Thread, Skip(t) PROVE IInv'
  <2>0. t < created /\ created > 0 /\ Threaded /\ Threaded' /\ state[t] = "run"
    BY <1>7 DEF Skip, InSlice, TypeOK, Lifetimes, Threaded
  <2>1. TypeOK'
    <3>1. i' \in [Thread -> Nat]
      BY <1>7 DEF Skip, TypeOK
    <3> QED
      BY <1>7, <3>1 DEF Skip, TypeOK
  <2>2. Lifetimes'
    BY <1>7, <2>0 DEF Skip, InSlice, TypeOK, Lifetimes
  <2>3. Slices'
    BY <1>7, <2>0, Advance DEF Skip, InSlice
  <2>4. Visited'
    BY <1>7, <2>0 DEF Skip, InSlice, TypeOK, Lifetimes, Slices, Visited
  <2>5. Covered'
    <3> SUFFICES ASSUME ~done' PROVE Covered'
      BY DEF Covered
    <3>1. ASSUME NEW o \in Object \ Internal, NEW u \in Thread, i[u] <= o, o < end[u]
          PROVE  i'[u] <= o
      BY <1>7, <3>1 DEF Skip, InSlice, TypeOK
    <3>2. ~done /\ UNCHANGED <<r, ret, state, calls, reserved, end>>
      BY <1>7 DEF Skip
    <3>3. \A u \in Thread : state[u] = "ended" => i'[u] = i[u]
      BY <1>7, <2>0 DEF Skip, TypeOK
    <3> QED
      BY <2>0, <3>1, <3>2, <3>3 DEF Covered
  <2> QED
    BY <2>1, <2>2, <2>3, <2>4, <2>5
<1>8. ASSUME NEW t \in Thread, Visit(t) PROVE IInv'
  <2>0. /\ t < created /\ created > 0 /\ Threaded /\ Threaded'
        /\ state[t] = "run" /\ i[t] < end[t] /\ i[t] \in Object \ Internal
        /\ calls' = [calls EXCEPT ![i[t]] = @ + 1]
        /\ UNCHANGED <<created, main, joined, ret, end, reserved>>
    BY <1>8 DEF Visit, InSlice, TypeOK, Lifetimes, Threaded
  <2>1. calls[i[t]] = 0
    <3>1. i[t] \in Object /\ i[t] \in Nat /\ end[t] \in Nat
      BY <2>0 DEF TypeOK
    <3>2. calls[i[t]] # 0 => i[t] < i[t] \/ end[t] <= i[t]
      BY <2>0, <3>1 DEF Visited
    <3> QED
      BY <2>0, <3>1, <3>2
  <2>2. \A u \in Thread : u # t => i[t] < i[u] \/ end[u] <= i[t]
    BY <2>0 DEF TypeOK, Slices
  <2>3. CASE i' = [i EXCEPT ![t] = @ + 1] /\ UNCHANGED <<state, r, done>>
    <3>1. TypeOK'
      <4>1. i' \in [Thread -> Nat]
        BY <2>3 DEF TypeOK
      <4>2. calls' \in [Object -> Nat]
        BY <2>0, <2>1 DEF TypeOK
      <4> QED
        BY <2>0, <2>3, <4>1, <4>2 DEF TypeOK
    <3>2. Lifetimes'
      BY <2>0, <2>3 DEF TypeOK, Lifetimes
    <3>3. Slices'
      BY <2>0, <2>3, Advance
    <3>4. Visited'
      BY <2>0, <2>1, <2>2, <2>3 DEF TypeOK, Lifetimes, Slices, Visited
    <3>5. Covered'
      <4> SUFFICES ASSUME ~done' PROVE Covered'
        BY DEF Covered
      <4>1. \A o \in Object : calls'[o] = IF o = i[t] THEN 1 ELSE calls[o]
        BY <2>0, <2>1 DEF TypeOK
      <4>2. \A u \in Thread : i[u] \in Nat /\ i'[u] = IF u = t THEN i[u] + 1 ELSE i[u]
        BY <2>3 DEF TypeOK
      <4>3. ASSUME NEW o \in Object, o # i[t], NEW u \in Thread, i[u] <= o
            PROVE  i'[u] <= o
        BY <4>2, <4>3
      <4>4. \A u \in Thread : state[u] = "ended" => i'[u] = i[u]
        BY <2>0, <4>2
      <4> QED
        BY <2>0, <2>3, <4>1, <4>3, <4>4 DEF Covered
    <3> QED
      BY <3>1, <3>2, <3>3, <3>4, <3>5
  <2>4. CASE /\ state' = [state EXCEPT ![t] = "ended"]
             /\ \E code \in {0, 1} : r' = [r EXCEPT ![t] = code]
             /\ done' = TRUE
             /\ UNCHANGED i
    <3>1. TypeOK'
      BY <2>0, <2>4 DEF TypeOK
    <3>2. Lifetimes'
      BY <2>0, <2>4 DEF TypeOK, Lifetimes
    <3>3. Slices'
      BY <2>0, <2>4 DEF TypeOK, Slices
    <3>4. Visited'
      BY <2>0, <2>1, <2>2, <2>4 DEF TypeOK, Lifetimes, Slices, Visited
    <3>5. Covered'
      BY <2>4 DEF Covered
    <3> QED
      BY <3>1, <3>2, <3>3, <3>4, <3>5
  <2> QED
    BY <1>8, <2>3, <2>4 DEF Visit
<1>9. ASSUME NEW t \in Thread, Reserve(t) PROVE IInv'
  <2>0. t < created /\ created > 0 /\ Threaded /\ Threaded' /\ state[t] = "run"
    BY <1>9 DEF Reserve, InSlice, TypeOK, Lifetimes, Threaded
  <2>1. TypeOK'
    BY <1>9 DEF Reserve, InSlice, TypeOK
  <2>2. Lifetimes'
    BY <1>9, <2>0 DEF Reserve, InSlice, TypeOK, Lifetimes
  <2>3. Slices'
    BY <1>9, <2>0 DEF Reserve, InSlice, TypeOK, Slices
  <2>4. Visited'
    BY <1>9, <2>0 DEF Reserve, InSlice, TypeOK, Lifetimes, Slices, Visited
  <2>5. Covered'
    BY <1>9, <2>0 DEF Reserve, InSlice, TypeOK, Covered
  <2> QED
    BY <2>1, <2>2, <2>3, <2>4, <2>5
<1>10. CASE UNCHANGED vars
  BY <1>10 DEF vars, TypeOK, Lifetimes, Slices, Visited, Covered, Threaded
<1> QED
  BY <1>1, <1>2, <1>3, <1>4, <1>5, <1>6, <1>7, <1>8, <1>9, <1>10 DEF Next, Main, Step

(* The inductive invariant holds. *)
LEMMA IInvHolds == Spec => []IInv
BY InitIInv, NextIInv, PTL DEF Spec

(* Every variable keeps its type. *)
THEOREM TypeCorrect == Spec => []TypeOK
<1>1. IInv => TypeOK
  BY DEF IInv
<1> QED
  BY <1>1, IInvHolds, PTL

(* flappy_array_foreach_cb_multi gives no object of the array to the       *)
(* function twice, whichever threads could be created.                     *)
THEOREM NoObjectTwice == Spec => []AtMostOnce
<1>1. IInv => AtMostOnce
  BY DEF IInv, TypeOK, Visited, AtMostOnce
<1> QED
  BY <1>1, IInvHolds, PTL

(* When every thread could be created, or none, and no call ended the loop,*)
(* it returns 0 and the function was called for every object.              *)
THEOREM NoObjectMissing == Spec => []AllProcessed
<1>1. IInv => AllProcessed
  <2> SUFFICES ASSUME IInv, main = "return", ~done, created \in {0, MaxThreads}
               PROVE  ret = 0 /\ \A o \in Object \ Internal : calls[o] = 1
    BY DEF AllProcessed
  <2> USE Sets
  <2>1. CASE created = 0
    BY <2>1 DEF IInv, TypeOK, Covered, Threaded
  <2>2. CASE created = MaxThreads /\ created > 0
    <3>1. Threaded /\ \A t \in Thread : state[t] = "ended"
      BY <2>2 DEF IInv, TypeOK, Lifetimes, Threaded
    <3>2. \A t \in Thread : i[t] >= ArrayCount
      BY <3>1 DEF IInv, Covered
    <3>3. reserved >= ArrayCount
      BY <3>1, <3>2 DEF IInv, TypeOK, Slices
    <3> QED
      BY <3>1, <3>2, <3>3 DEF IInv, TypeOK, Covered
  <2> QED
    BY <2>1, <2>2 DEF IInv, TypeOK
<1> QED
  BY <1>1, IInvHolds, PTL

(* The threads that report an error have ended, so that the caller, which  *)
(* returns after the last of them has, sees every one.                     *)
Errors == (\A t \in Thread : r[t] # 0 => state[t] = "ended") /\ ErrorReturned

(* A thread's error stays until the caller has it.                         *)
LEMMA NextErrors == IInv /\ Errors /\ [Next]_vars => Errors'
<1> SUFFICES ASSUME IInv, Errors, [Next]_vars PROVE Errors'
  OBVIOUS
<1> USE Sets
<1>1. ASSUME main = "return", NEW t \in Thread PROVE state[t] # "run"
  <2>1. joined = created /\ created \in Nat /\ t \in Nat
    BY <1>1, Parameters DEF IInv, TypeOK, Lifetimes
  <2>2. t < joined \/ t >= created
    BY <2>1
  <2> QED
    BY <2>2 DEF IInv, Lifetimes
<1>2. CASE Create
  <2>1. created \in Thread /\ state[created] = "none"
    BY <1>2 DEF Create, IInv, TypeOK, Lifetimes
  <2> QED
    BY <1>2, <2>1 DEF Create, IInv, TypeOK, Errors, ErrorReturned
<1>3. CASE CreateFails \/ CreateEnd \/ Join \/ UNCHANGED vars
  BY <1>3 DEF CreateFails, CreateEnd, Join, vars, threadVars, Errors, ErrorReturned
<1>4. CASE Return
  <2>1. \A t \in Thread : r[t] # 0 => t \in 0..(created - 1)
    BY <1>4 DEF Return, IInv, TypeOK, Lifetimes, Errors
  <2> QED
    BY <1>4, <2>1 DEF Return, threadVars, Errors, ErrorReturned
<1>5. CASE Single
  <2>1. \A t \in Thread : r[t] = 0
    BY <1>5 DEF Single, IInv, TypeOK, Lifetimes, Errors
  <2> QED
    BY <1>5, <2>1 DEF Single, Errors, ErrorReturned
<1>6. ASSUME NEW t \in Thread, Step(t) PROVE Errors'
  <2>1. state[t] = "run" /\ main # "return" /\ main' = main
    BY <1>6, <1>1 DEF Step, Skip, Visit, Reserve, InSlice
  <2>2. CASE Skip(t) \/ Visit(t)
    BY <2>1, <2>2 DEF Skip, Visit, IInv, TypeOK, Errors, ErrorReturned
  <2>3. CASE Reserve(t)
    BY <2>1, <2>3 DEF Reserve, IInv, TypeOK, Errors, ErrorReturned
  <2> QED
    BY <1>6, <2>2, <2>3 DEF Step
<1> QED
  BY <1>2, <1>3, <1>4, <1>5, <1>6 DEF Next, Main

(* The value flappy_array_foreach_cb_multi returns hides no thread's error.*)
THEOREM NoErrorLost == Spec => []ErrorReturned
<1>1. Init => Errors
  BY DEF Init, Errors, ErrorReturned
<1>2. Errors => ErrorReturned
  BY DEF Errors
<1> QED
  BY <1>1, <1>2, NextErrors, IInvHolds, PTL DEF Spec
=============================================================================
