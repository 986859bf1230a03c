------------------------------- MODULE Fbulk -------------------------------
(***************************************************************************)
(* The scheduler of flappy-fbulk (bin/flappy-fbulk/main.c).  One process   *)
(* walks the packages to build, asks for the dependencies of each          *)
(* (ordered_depends, a recursion) and, after every package it has walked,  *)
(* starts builds and reaps the ones that have ended (runBuilds).  A build  *)
(* is a child process and ends at any time.  processCompletion passes the  *)
(* result of a build on to the packages that depend on it.                 *)
(*                                                                         *)
(* The two recursions are stacks of frames.  While completing is not       *)
(* empty processCompletion is running; pc then says where it returns to.   *)
(***************************************************************************)
EXTENDS Integers, Sequences, FiniteSets, SequencesExt

CONSTANTS
  N,           \* number of packages; a package only depends on smaller ones
  NParallel    \* the number of builds that may run at a time

ASSUME NAssumption == N \in Nat
ASSUME NParallelAssumption == NParallel \in Nat \ {0}

Item == 1..N

VARIABLES
  deps,        \* what "flappy-src show-build-deps" prints for each package
  roots,       \* the packages main has still to walk, in readdir's order
  status,      \* item->status, or "none" before addItem
  dbase,       \* per item: the items depending on it, latest first
  dcount,      \* per item: dependencies not completed yet
  xcode,       \* per item: 0, or 1 for any failure
  build,       \* BuildList
  running,     \* RunList; NRunning is its size
  exited,      \* the exit status of those of them that have ended
  calls,       \* stack of ordered_depends: item, next line to read, and
               \* whether the shell behind popen is still to be reaped
  completing,  \* stack of processCompletion: item and what is left of dbase
  pc           \* "walk", "deps", "fill", "reap", "wait", "exit" or "abort"

itemVars == <<status, dbase, dcount, xcode>>
vars == <<deps, roots, status, dbase, dcount, xcode, build, running, exited,
          calls, completing, pc>>

Injective(s) == \A i, j \in DOMAIN s : s[i] = s[j] => i = j
SeqsOver(S) == {s \in UNION {[1..n -> S] : n \in 0..Cardinality(S)} : Injective(s)}

Init ==
  /\ deps \in {f \in [Item -> SeqsOver(1..(N - 1))] :
                 \A i \in Item : \A k \in DOMAIN f[i] : f[i][k] < i}
  /\ roots \in SeqsOver(Item)
  /\ status = [i \in Item |-> "none"]
  /\ dbase = [i \in Item |-> <<>>]
  /\ dcount = [i \in Item |-> 0]
  /\ xcode = [i \in Item |-> 0]
  /\ build = <<>> /\ running = {} /\ exited = [i \in {} |-> 0]
  /\ calls = <<>> /\ completing = <<>> /\ pc = "walk"

Busy == completing # <<>>
At(place) == ~Busy /\ pc = place
Top == calls[Len(calls)]

-----------------------------------------------------------------------------
(* main and ordered_depends *)

(* addItem, and popen of the command that lists the dependencies. *)
Call(i) ==
  /\ calls' = Append(calls, [item |-> i, pos |-> 1, shell |-> TRUE])
  /\ status' = [status EXCEPT ![i] = "waiting"]
  /\ pc' = "deps"

(* The next package of readdir, unless it was met as a dependency before. *)
Walk ==
  /\ At("walk") /\ roots # <<>>
  /\ roots' = Tail(roots)
  /\ IF status[Head(roots)] = "none"
       THEN Call(Head(roots))
       ELSE UNCHANGED <<calls, status, pc>>
  /\ UNCHANGED <<deps, dbase, dcount, xcode, build, running, exited, completing>>

WalkEnd ==
  /\ At("walk") /\ roots = <<>>
  /\ pc' = "fill"
  /\ UNCHANGED <<deps, roots, itemVars, build, running, exited, calls, completing>>

(* The dependency read next, and whether there is one. *)
Reading == At("deps") /\ Top.pos <= Len(deps[Top.item])
Dep == deps[Top.item][Top.pos]

Descend ==
  /\ Reading /\ status[Dep] = "none"
  /\ Call(Dep)
  /\ UNCHANGED <<deps, roots, dbase, dcount, xcode, build, running, exited, completing>>

(* addDepn of a dependency that is in the table. *)
AddDepn ==
  LET i == Top.item d == Dep failed == status[d] = "done" /\ xcode[d] # 0 IN
  /\ Reading /\ status[d] # "none"
  /\ failed => status[i] \in {"waiting", "depfail"}
  /\ dbase' = [dbase EXCEPT ![d] = <<i>> \o @]
  /\ dcount' = [dcount EXCEPT ![i] = IF status[d] = "done" THEN @ ELSE @ + 1]
  /\ status' = [status EXCEPT ![i] = IF failed THEN "depfail" ELSE @]
  /\ xcode' = [xcode EXCEPT ![i] = IF failed THEN xcode[d] ELSE @]
  /\ calls' = [calls EXCEPT ![Len(calls)].pos = @ + 1]
  /\ UNCHANGED <<deps, roots, build, running, exited, completing, pc>>

(* All lines are read (and the shell waited for by pclose): the item is    *)
(* built, fails, or waits for its dependencies.                            *)
DependsEnd ==
  LET i == Top.item IN
  /\ At("deps") /\ ~Reading
  /\ dcount[i] = 0 => status[i] \in {"waiting", "depfail"}
  /\ IF dcount[i] = 0 /\ status[i] = "waiting"
       THEN build' = Append(build, i) /\ status' = [status EXCEPT ![i] = "build"]
       ELSE UNCHANGED <<build, status>>
  /\ completing' = IF dcount[i] = 0 /\ status[i] = "depfail"
                     THEN <<[item |-> i, rest |-> dbase[i]]>> ELSE <<>>
  /\ pc' = "fill"
  /\ UNCHANGED <<deps, roots, dbase, dcount, xcode, running, exited, calls>>

(* The assertions of addDepn and ordered_depends: "Might happen due to     *)
(* excessive NParallel jobs! Error out because this is critical."          *)
Abort ==
  /\ \/ /\ Reading /\ status[Dep] = "done" /\ xcode[Dep] # 0
        /\ status[Top.item] \notin {"waiting", "depfail"}
     \/ /\ At("deps") /\ ~Reading /\ dcount[Top.item] = 0
        /\ status[Top.item] \notin {"waiting", "depfail"}
  /\ pc' = "abort"
  /\ UNCHANGED <<deps, roots, itemVars, build, running, exited, calls, completing>>

-----------------------------------------------------------------------------
(* processCompletion *)

Frame == completing[Len(completing)]
Outer == SubSeq(completing, 1, Len(completing) - 1)

(* Bug: every completed dependency lets the item be built. *)
ReadyAtOnce(x) == status[x] = "waiting"

(* The last dependency has completed. *)
Ready(x) == status[x] = "waiting" /\ dcount[x] = 1

(* Bug: an item that has failed before is never completed. *)
CompletesOnFailure(x) == xcode[Frame.item] # 0 /\ status[x] \in {"waiting", "depfail"}

(* The item fails with the dependency, or has failed before and the last   *)
(* of its dependencies has completed.                                      *)
CompletesToo(x) ==
  \/ xcode[Frame.item] # 0 /\ status[x] \in {"waiting", "depfail"}
  \/ xcode[Frame.item] = 0 /\ status[x] = "depfail" /\ dcount[x] = 1

(* One item that depends on the completed one. *)
PassOn ==
  /\ Busy /\ Frame.rest # <<>>
  /\ LET x == Head(Frame.rest)
         rest == Append(Outer, [Frame EXCEPT !.rest = Tail(@)])
         ok == xcode[Frame.item] = 0
     IN /\ dcount' = [dcount EXCEPT ![x] = @ - 1]
        /\ build' = IF ok /\ Ready(x) THEN Append(build, x) ELSE build
        /\ status' = [status EXCEPT ![x] = IF ok /\ Ready(x) THEN "build"
                                           ELSE IF CompletesToo(x) THEN "depfail" ELSE @]
        /\ xcode' = [xcode EXCEPT ![x] = IF ~ok /\ CompletesToo(x) THEN xcode[Frame.item] ELSE @]
        /\ completing' = IF CompletesToo(x)
                           THEN Append(rest, [item |-> x, rest |-> dbase[x]]) ELSE rest
  /\ UNCHANGED <<deps, roots, dbase, running, exited, calls, pc>>

(* All of them are told: the item is done. *)
Finish ==
  /\ Busy /\ Frame.rest = <<>>
  /\ status' = [status EXCEPT ![Frame.item] = "done"]
  /\ completing' = Outer
  /\ UNCHANGED <<deps, roots, dbase, dcount, xcode, build, running, exited, calls, pc>>

-----------------------------------------------------------------------------
(* runBuilds and waitRunning *)

CanStart == At("fill") /\ Cardinality(running) < NParallel /\ build # <<>>

Start ==
  /\ CanStart
  /\ build' = Tail(build)
  /\ status' = [status EXCEPT ![Head(build)] = "run"]
  /\ running' = running \cup {Head(build)}
  /\ UNCHANGED <<deps, roots, dbase, dcount, xcode, exited, calls, completing, pc>>

(* fork fails: the build has failed. *)
StartFails ==
  /\ CanStart
  /\ build' = Tail(build)
  /\ status' = [status EXCEPT ![Head(build)] = "run"]
  /\ xcode' = [xcode EXCEPT ![Head(build)] = 1]
  /\ completing' = <<[item |-> Head(build), rest |-> dbase[Head(build)]]>>
  /\ UNCHANGED <<deps, roots, dbase, dcount, running, exited, calls, pc>>

(* Bug: the list is emptied before anything is reaped. *)
FillAll ==
  /\ At("fill") /\ build = <<>>
  /\ pc' = "reap"
  /\ UNCHANGED <<deps, roots, itemVars, build, running, exited, calls, completing>>

FillEnd ==
  /\ At("fill") /\ ~CanStart
  /\ pc' = "reap"
  /\ UNCHANGED <<deps, roots, itemVars, build, running, exited, calls, completing>>

(* A build ends, whatever flappy-fbulk is doing.  Death by a signal has    *)
(* the exit status 0 (WEXITSTATUS).                                        *)
BuildEnds(i) ==
  /\ i \in running \ DOMAIN exited
  /\ \E code \in {0, 1} : exited' = [j \in DOMAIN exited \cup {i} |->
                                       IF j = i THEN code ELSE exited[j]]
  /\ UNCHANGED <<deps, roots, itemVars, build, running, calls, completing, pc>>

(* Bug: the item is not taken off RunList, so it is reaped again. *)
ReapedStays(i) ==
  /\ xcode' = [xcode EXCEPT ![i] = exited[i]]
  /\ completing' = <<[item |-> i, rest |-> dbase[i]]>>
  /\ UNCHANGED <<running, exited>>

(* waitRunning with a child of RunList. *)
Reaped(i) ==
  /\ running' = running \ {i}
  /\ exited' = [j \in DOMAIN exited \ {i} |-> exited[j]]
  /\ xcode' = [xcode EXCEPT ![i] = exited[i]]
  /\ completing' = <<[item |-> i, rest |-> dbase[i]]>>

(* waitRunning(WNOHANG) in runBuilds, again and again. *)
Reap ==
  /\ At("reap")
  /\ \E i \in DOMAIN exited : Reaped(i)
  /\ UNCHANGED <<deps, roots, status, dbase, dcount, build, calls, pc>>

(* runBuilds returns to the ordered_depends that called it, which returns  *)
(* to the one before it or to main.                                        *)
Return ==
  IF calls = <<>>
    THEN pc' = "wait" /\ UNCHANGED calls
    ELSE /\ calls' = Front(calls)
         /\ pc' = IF Len(calls) = 1 THEN "walk" ELSE "deps"

ReapEnd ==
  /\ At("reap") /\ exited = <<>>
  /\ Return
  /\ UNCHANGED <<deps, roots, itemVars, build, running, exited, completing>>

(* A shell an outer ordered_depends still reads from has ended and is      *)
(* reaped instead: not an item, so the loop ends.                          *)
ReapShell ==
  /\ At("reap") /\ running # {}
  /\ \E k \in 1..(Len(calls) - 1) :
       /\ calls[k].shell
       /\ calls' = [Front(calls) EXCEPT ![k].shell = FALSE]
  /\ pc' = "deps"
  /\ UNCHANGED <<deps, roots, itemVars, build, running, exited, completing>>

(* The loop at the end of main: wait for one build, then runBuilds. *)
Wait ==
  /\ At("wait")
  /\ \E i \in DOMAIN exited : Reaped(i)
  /\ pc' = "fill"
  /\ UNCHANGED <<deps, roots, status, dbase, dcount, build, calls>>

Exit ==
  /\ At("wait") /\ running = {}
  /\ pc' = "exit"
  /\ UNCHANGED <<deps, roots, itemVars, build, running, exited, calls, completing>>

Scheduler ==
  \/ Walk \/ WalkEnd \/ Descend \/ AddDepn \/ DependsEnd \/ Abort
  \/ PassOn \/ Finish
  \/ Start \/ StartFails \/ FillEnd \/ Reap \/ ReapEnd \/ ReapShell \/ Wait \/ Exit

Ended == pc \in {"exit", "abort"} /\ UNCHANGED vars

Next == Ended \/ Scheduler \/ \E i \in Item : BuildEnds(i)

(* The scheduler runs, and every build ends. *)
Spec == Init /\ [][Next]_vars /\ WF_vars(Scheduler)
             /\ \A i \in Item : WF_vars(BuildEnds(i))

-----------------------------------------------------------------------------
Statuses == {"none", "waiting", "depfail", "build", "run", "done"}

(* An item enters the build list only when all the dependencies it has     *)
(* been told of have completed without an error.                           *)
ListedWhenReady ==
  [][\A i \in Item : status[i] # "build" /\ status'[i] = "build" =>
       \A d \in Item : Contains(dbase[d], i) =>
         xcode[d] = 0 /\ (status[d] = "done" \/ \E k \in DOMAIN completing : completing[k].item = d)]_vars

(* What processCompletion asserts of an item that depends on the completed *)
(* one, and of the completed one.                                          *)
AssertionsHold ==
  Busy => /\ Frame.rest # <<>> => dcount[Head(Frame.rest)] > 0
          /\ status[Frame.item] \in {"run", "depfail"}

(* If the build list is empty at the end no package has been forgotten.    *)
NoneForgotten ==
  pc = "exit" /\ build = <<>> => \A i \in Item : status[i] \in {"none", "done"}

(* flappy-fbulk ends. *)
Ends == <>(pc \in {"exit", "abort"})

=============================================================================
